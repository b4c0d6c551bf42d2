---------------------------- MODULE Policies_proofs ----------------------------
(***************************************************************************)
(* Theorems about Policies: what is sent is masked, was judged by one      *)
(* version of the table, and carries the prompts of its policies.          *)
(***************************************************************************)
EXTENDS Policies, Parts_proofs, FiniteSetTheorems

\* f is the loop that keeps what is at the places I of s.
Keeps(f, s, S, I) ==
  /\ f \in [0 .. Len(s) -> Seq(S)]
  /\ f[0] = << >>
  /\ \A n \in 1 .. Len(s) : f[n] = IF n \in I THEN Append(f[n - 1], s[n]) ELSE f[n - 1]
  /\ Kept(s, I) = f[Len(s)]

(* What Kept takes over, one place after another.                           *)
LEMMA KeptLoop ==
  ASSUME NEW S, NEW s \in Seq(S), NEW I
  PROVE  \E f : Keeps(f, s, S, I)
<1> DEFINE last == Len(s)
           T == Seq(S)
           base == << >>
           step == [n \in 1 .. last |->
                      [t \in T |-> IF n \in I THEN Append(t, s[n]) ELSE t]]
           body(g) == [n \in 0 .. last |->
                         IF n = 0 THEN << >>
                         ELSE IF n \in I THEN Append(g[n - 1], s[n]) ELSE g[n - 1]]
<1>1. last \in Nat /\ s \in [1 .. last -> S]
  BY LenProperties
<1>2. base \in T
  BY EmptySeq
<1>3. step \in [1 .. last -> [T -> T]]
  <2>1. ASSUME NEW n \in 1 .. last, NEW t \in T
        PROVE  (IF n \in I THEN Append(t, s[n]) ELSE t) \in T
    <3>1. s[n] \in S
      BY <1>1
    <3>2. QED BY <3>1, AppendProperties
  <2>2. QED BY <2>1
<1>4. PICK g : Built(g, last, T, base, step)
  <2> HIDE DEF last, T, base, step
  <2>1. QED BY <1>1, <1>2, <1>3, Recursion
<1>5. g = body(g)
  <2>1. g \in [0 .. last -> T] /\ g[0] = base /\ \A n \in 1 .. last : g[n] = step[n][g[n - 1]]
    BY <1>4 DEF Built
  <2>2. ASSUME NEW n \in 0 .. last PROVE g[n] = body(g)[n]
    <3>1. CASE n = 0
      BY <2>1, <3>1
    <3>2. CASE n # 0
      <4>1. n \in 1 .. last /\ n - 1 \in 0 .. last
        BY <1>1, <3>2
      <4>2. g[n] = step[n][g[n - 1]] /\ g[n - 1] \in T
        BY <2>1, <4>1
      <4>3. step[n][g[n - 1]] = IF n \in I THEN Append(g[n - 1], s[n]) ELSE g[n - 1]
        BY <4>1, <4>2
      <4>4. QED BY <3>2, <4>2, <4>3
    <3>3. QED BY <3>1, <3>2
  <2>3. DOMAIN g = 0 .. last /\ g = [n \in 0 .. last |-> g[n]]
    BY <2>1
  <2>4. QED BY <2>2, <2>3
<1> DEFINE h == CHOOSE f : f = body(f)
<1>6. Kept(s, I) = h[last]
  BY DEF Kept
<1>7. h = body(h)
  <2> HIDE DEF body
  <2>1. QED BY <1>5
<1>8. \A n \in 0 .. last : h[n] = body(h)[n]
  <2> HIDE DEF h, body, last
  <2>1. QED BY <1>7
<1>9. h[0] = << >> /\ \A n \in 1 .. last :
         h[n] = IF n \in I THEN Append(h[n - 1], s[n]) ELSE h[n - 1]
  <2> HIDE DEF h
  <2>1. QED BY <1>1, <1>8
<1>10. h \in [0 .. last -> Seq(S)]
  <2> DEFINE P == {n \in Nat : n <= last => h[n] \in Seq(S)}
  <2>1. 0 \in P
    <3> HIDE DEF h
    <3>1. QED BY <1>9, EmptySeq
  <2>2. ASSUME NEW n \in P PROVE n + 1 \in P
    <3> HIDE DEF h
    <3>1. SUFFICES ASSUME n + 1 <= last PROVE h[n + 1] \in Seq(S)
      OBVIOUS
    <3>2. n + 1 \in 1 .. last /\ (n + 1) - 1 = n /\ h[n] \in Seq(S) /\ s[n + 1] \in S
      BY <1>1, <3>1
    <3>3. h[n + 1] = IF n + 1 \in I THEN Append(h[n], s[n + 1]) ELSE h[n]
      BY <1>9, <3>2
    <3>4. QED BY <3>2, <3>3, AppendProperties
  <2>3. P = Nat
    <3>1. P \in SUBSET Nat
      OBVIOUS
    <3> HIDE DEF P
    <3>2. QED BY <2>1, <2>2, <3>1, Induction, Zenon
  <2>4. \A n \in 0 .. last : h[n] \in Seq(S)
    <3> HIDE DEF h
    <3>1. QED BY <1>1, <2>3
  <2>5. DOMAIN h = 0 .. last /\ h = [n \in 0 .. last |-> h[n]]
    <3> HIDE DEF h
    <3>1. QED BY <1>7
  <2> HIDE DEF h
  <2>6. QED BY <2>4, <2>5
<1> HIDE DEF h
<1>11. Keeps(h, s, S, I)
  BY <1>6, <1>9, <1>10 DEF Keeps
<1>12. QED BY <1>11

\* t is what is at the places I up to n of s, in its order.
Selects(t, s, n, I) ==
  /\ Len(t) <= n
  /\ \A k \in 1 .. Len(t) : \E i \in 1 .. n : i \in I /\ t[k] = s[i]
  /\ \A i \in 1 .. n : i \in I =>
        \E k \in 1 .. Len(t) :
           /\ t[k] = s[i]
           /\ \A l \in k + 1 .. Len(t) : \E j \in i + 1 .. n : j \in I /\ t[l] = s[j]

(* One place more.                                                          *)
LEMMA SelectsNext ==
  ASSUME NEW S, NEW t \in Seq(S), NEW s \in Seq(S), NEW n \in Nat, n + 1 <= Len(s), NEW I,
         Selects(t, s, n, I)
  PROVE  Selects(IF n + 1 \in I THEN Append(t, s[n + 1]) ELSE t, s, n + 1, I)
<1>1. Len(t) \in Nat /\ Len(s) \in Nat /\ s[n + 1] \in S
  BY LenProperties
<1>2. CASE n + 1 \notin I
  <2>1. Len(t) <= n + 1
    BY <1>1 DEF Selects
  <2>2. \A k \in 1 .. Len(t) : \E i \in 1 .. n + 1 : i \in I /\ t[k] = s[i]
    BY DEF Selects
  <2>3. ASSUME NEW i \in 1 .. n + 1, i \in I
        PROVE  \E k \in 1 .. Len(t) :
           /\ t[k] = s[i]
           /\ \A l \in k + 1 .. Len(t) : \E j \in i + 1 .. n + 1 : j \in I /\ t[l] = s[j]
    <3>1. i \in 1 .. n
      BY <1>2, <2>3
    <3>2. PICK k \in 1 .. Len(t) :
           /\ t[k] = s[i]
           /\ \A l \in k + 1 .. Len(t) : \E j \in i + 1 .. n : j \in I /\ t[l] = s[j]
      BY <2>3, <3>1 DEF Selects
    <3>3. QED BY <3>2
  <2>4. QED BY <1>2, <2>1, <2>2, <2>3 DEF Selects
<1>3. CASE n + 1 \in I
  <2> DEFINE u == Append(t, s[n + 1])
  <2>1. /\ u \in Seq(S) /\ Len(u) = Len(t) + 1
        /\ \A k \in 1 .. Len(t) : u[k] = t[k]
        /\ u[Len(t) + 1] = s[n + 1]
    BY <1>1, AppendProperties
  <2> HIDE DEF u
  <2>2. Len(u) <= n + 1
    BY <1>1, <2>1 DEF Selects
  <2>3. ASSUME NEW k \in 1 .. Len(u) PROVE \E i \in 1 .. n + 1 : i \in I /\ u[k] = s[i]
    <3>1. CASE k = Len(t) + 1
      BY <1>3, <2>1, <3>1
    <3>2. CASE k # Len(t) + 1
      <4>1. k \in 1 .. Len(t)
        BY <1>1, <2>1, <3>2
      <4>2. PICK i \in 1 .. n : i \in I /\ t[k] = s[i]
        BY <4>1 DEF Selects
      <4>3. i \in 1 .. n + 1 /\ u[k] = s[i]
        BY <2>1, <4>1, <4>2
      <4>4. QED BY <4>2, <4>3
    <3>3. QED BY <3>1, <3>2
  <2>4. ASSUME NEW i \in 1 .. n + 1, i \in I
        PROVE  \E k \in 1 .. Len(u) :
           /\ u[k] = s[i]
           /\ \A l \in k + 1 .. Len(u) : \E j \in i + 1 .. n + 1 : j \in I /\ u[l] = s[j]
    <3>1. CASE i = n + 1
      <4>1. Len(u) \in 1 .. Len(u) /\ u[Len(u)] = s[i] /\ Len(u) + 1 .. Len(u) = {}
        BY <1>1, <2>1, <3>1
      <4>2. QED BY <4>1
    <3>2. CASE i # n + 1
      <4>1. i \in 1 .. n
        BY <3>2
      <4>2. PICK k \in 1 .. Len(t) :
             /\ t[k] = s[i]
             /\ \A l \in k + 1 .. Len(t) : \E j \in i + 1 .. n : j \in I /\ t[l] = s[j]
        BY <2>4, <4>1 DEF Selects
      <4>3. k \in 1 .. Len(u) /\ u[k] = s[i]
        BY <1>1, <2>1, <4>2
      <4>4. ASSUME NEW l \in k + 1 .. Len(u)
            PROVE  \E j \in i + 1 .. n + 1 : j \in I /\ u[l] = s[j]
        <5>1. CASE l = Len(t) + 1
          <6>1. n + 1 \in i + 1 .. n + 1
            BY <4>1
          <6>2. QED BY <1>3, <2>1, <5>1, <6>1
        <5>2. CASE l # Len(t) + 1
          <6>1. l \in k + 1 .. Len(t) /\ l \in 1 .. Len(t)
            BY <1>1, <2>1, <5>2
          <6>2. PICK j \in i + 1 .. n : j \in I /\ t[l] = s[j]
            BY <4>2, <6>1
          <6>3. j \in i + 1 .. n + 1 /\ u[l] = s[j]
            BY <2>1, <6>1, <6>2
          <6>4. QED BY <6>2, <6>3
        <5>3. QED BY <5>1, <5>2
      <4>5. QED BY <4>3, <4>4
    <3>3. QED BY <3>1, <3>2
  <2>5. Selects(u, s, n + 1, I)
    BY <2>2, <2>3, <2>4 DEF Selects
  <2>6. QED BY <1>3, <2>5 DEF u
<1>4. QED BY <1>2, <1>3

(* What Kept returns.                                                       *)
LEMMA KeptSelects ==
  ASSUME NEW S, NEW s \in Seq(S), NEW I
  PROVE  Kept(s, I) \in Seq(S) /\ Selects(Kept(s, I), s, Len(s), I)
<1>1. PICK f : Keeps(f, s, S, I)
  BY KeptLoop, Zenon
<1>2. /\ Len(s) \in Nat
      /\ f \in [0 .. Len(s) -> Seq(S)]
      /\ f[0] = << >>
      /\ \A n \in 1 .. Len(s) : f[n] = IF n \in I THEN Append(f[n - 1], s[n]) ELSE f[n - 1]
      /\ Kept(s, I) = f[Len(s)]
  BY <1>1, LenProperties DEF Keeps
<1> DEFINE P == {n \in Nat : n <= Len(s) => Selects(f[n], s, n, I)}
<1>3. 0 \in P
  <2>1. Selects(<< >>, s, 0, I)
    BY EmptySeq DEF Selects
  <2>2. QED BY <1>2, <2>1
<1>4. ASSUME NEW n \in P PROVE n + 1 \in P
  <2>1. SUFFICES ASSUME n + 1 <= Len(s) PROVE Selects(f[n + 1], s, n + 1, I)
    OBVIOUS
  <2>2. n + 1 \in 1 .. Len(s) /\ (n + 1) - 1 = n /\ n \in 0 .. Len(s) /\ n \in Nat
    BY <1>2, <2>1
  <2>3. f[n] \in Seq(S) /\ Selects(f[n], s, n, I)
    BY <1>2, <2>2
  <2>4. f[n + 1] = IF n + 1 \in I THEN Append(f[n], s[n + 1]) ELSE f[n]
    BY <1>2, <2>2
  <2>5. Selects(IF n + 1 \in I THEN Append(f[n], s[n + 1]) ELSE f[n], s, n + 1, I)
    <3> DEFINE t == f[n]
    <3> HIDE DEF t
    <3>1. Selects(IF n + 1 \in I THEN Append(t, s[n + 1]) ELSE t, s, n + 1, I)
      BY <2>1, <2>2, <2>3, SelectsNext, Zenon DEF t
    <3>2. QED BY <3>1 DEF t
  <2>6. QED BY <2>4, <2>5
<1>5. P = Nat
  <2>1. P \in SUBSET Nat
    OBVIOUS
  <2> HIDE DEF P
  <2>2. QED BY <1>3, <1>4, <2>1, Induction, Zenon
<1>6. Len(s) \in P /\ Len(s) \in 0 .. Len(s)
  BY <1>2, <1>5
<1>7. QED BY <1>2, <1>6

(* What is kept and what is left are all there is.                          *)
LEMMA KeptCount ==
  ASSUME NEW S, NEW s \in Seq(S), NEW I, NEW J, \A n \in 1 .. Len(s) : n \in J <=> n \notin I
  PROVE  Len(Kept(s, I)) + Len(Kept(s, J)) = Len(s)
<1>1. PICK f : Keeps(f, s, S, I)
  BY KeptLoop, Zenon
<1>2. PICK g : Keeps(g, s, S, J)
  BY KeptLoop, Zenon
<1>3. /\ Len(s) \in Nat
      /\ f \in [0 .. Len(s) -> Seq(S)] /\ g \in [0 .. Len(s) -> Seq(S)]
      /\ f[0] = << >> /\ g[0] = << >>
      /\ \A n \in 1 .. Len(s) :
            /\ f[n] = IF n \in I THEN Append(f[n - 1], s[n]) ELSE f[n - 1]
            /\ g[n] = IF n \in J THEN Append(g[n - 1], s[n]) ELSE g[n - 1]
      /\ Kept(s, I) = f[Len(s)] /\ Kept(s, J) = g[Len(s)]
  BY <1>1, <1>2, LenProperties DEF Keeps
<1> DEFINE Q(n) == Len(f[n]) + Len(g[n]) = n
           P == {n \in Nat : n <= Len(s) => Q(n)}
<1>4. 0 \in P
  <2>1. Len(f[0]) = 0 /\ Len(g[0]) = 0
    <3>1. f[0] = << >> /\ g[0] = << >>
      BY <1>3
    <3>2. Len(<< >>) = 0
      BY EmptySeq
    <3>3. QED BY <3>1, <3>2, Zenon
  <2>2. Q(0)
    BY <2>1
  <2> HIDE DEF Q
  <2>3. QED BY <2>2
<1>5. ASSUME NEW n \in P PROVE n + 1 \in P
  <2>1. SUFFICES ASSUME n + 1 <= Len(s) PROVE Q(n + 1)
    <3> HIDE DEF Q
    <3>1. QED OBVIOUS
  <2>2. n + 1 \in 1 .. Len(s) /\ (n + 1) - 1 = n /\ n \in 0 .. Len(s) /\ n \in Nat
    BY <1>3, <2>1
  <2>3. f[n] \in Seq(S) /\ g[n] \in Seq(S) /\ Len(f[n]) + Len(g[n]) = n /\ s[n + 1] \in S
    BY <1>3, <2>2
  <2>4. Len(f[n]) \in Nat /\ Len(g[n]) \in Nat
    BY <2>3, LenProperties
  <2>5. /\ f[n + 1] = IF n + 1 \in I THEN Append(f[n], s[n + 1]) ELSE f[n]
        /\ g[n + 1] = IF n + 1 \in J THEN Append(g[n], s[n + 1]) ELSE g[n]
        /\ n + 1 \in J <=> n + 1 \notin I
    BY <1>3, <2>2
  <2>6. /\ Len(Append(f[n], s[n + 1])) = Len(f[n]) + 1
        /\ Len(Append(g[n], s[n + 1])) = Len(g[n]) + 1
    BY <2>3, AppendProperties
  <2>7. /\ Len(f[n + 1]) = IF n + 1 \in I THEN Len(f[n]) + 1 ELSE Len(f[n])
        /\ Len(g[n + 1]) = IF n + 1 \in I THEN Len(g[n]) ELSE Len(g[n]) + 1
    BY <2>5, <2>6, Zenon
  <2> DEFINE a == Len(f[n])
             b == Len(g[n])
             c == Len(f[n + 1])
             d == Len(g[n + 1])
  <2>8. /\ a \in Nat /\ b \in Nat /\ a + b = n
        /\ c = (IF n + 1 \in I THEN a + 1 ELSE a)
        /\ d = (IF n + 1 \in I THEN b ELSE b + 1)
    BY <2>3, <2>4, <2>7
  <2> HIDE DEF a, b, c, d, P
  <2>9. c + d = n + 1
    BY <2>8
  <2>10. QED BY <2>9 DEF c, d
<1>6. P = Nat
  <2>1. P \in SUBSET Nat
    OBVIOUS
  <2> HIDE DEF P
  <2>2. QED BY <1>4, <1>5, <2>1, Induction, Zenon
<1>7. Len(s) \in P
  BY <1>3, <1>6
<1>8. QED BY <1>3, <1>7

\* The same, said of the domains.
Picks(t, s, I) ==
  /\ \A k \in DOMAIN t : \E i \in DOMAIN s : i \in I /\ t[k] = s[i]
  /\ \A i \in DOMAIN s : i \in I =>
        \E k \in DOMAIN t :
           /\ t[k] = s[i]
           /\ \A l \in DOMAIN t : l > k => \E j \in DOMAIN s : j > i /\ j \in I /\ t[l] = s[j]

LEMMA KeptOrder ==
  ASSUME NEW S, NEW s \in Seq(S), NEW I
  PROVE  Kept(s, I) \in Seq(S) /\ Picks(Kept(s, I), s, I)
<1> DEFINE t == Kept(s, I)
<1>1. t \in Seq(S) /\ Selects(t, s, Len(s), I)
  BY KeptSelects
<1> HIDE DEF t
<1>2. /\ DOMAIN t = 1 .. Len(t) /\ DOMAIN s = 1 .. Len(s) /\ Len(t) \in Nat /\ Len(s) \in Nat
  BY <1>1, LenProperties
<1>3. \A k \in DOMAIN t : \E i \in DOMAIN s : i \in I /\ t[k] = s[i]
  BY <1>1, <1>2 DEF Selects
<1>4. ASSUME NEW i \in DOMAIN s, i \in I
      PROVE  \E k \in DOMAIN t :
                  /\ t[k] = s[i]
                  /\ \A l \in DOMAIN t : l > k =>
                        \E j \in DOMAIN s : j > i /\ j \in I /\ t[l] = s[j]
  <2>1. PICK k \in 1 .. Len(t) :
           /\ t[k] = s[i]
           /\ \A l \in k + 1 .. Len(t) : \E j \in i + 1 .. Len(s) : j \in I /\ t[l] = s[j]
    BY <1>1, <1>2, <1>4 DEF Selects
  <2>2. ASSUME NEW l \in DOMAIN t, l > k
        PROVE  \E j \in DOMAIN s : j > i /\ j \in I /\ t[l] = s[j]
    <3>1. l \in k + 1 .. Len(t)
      BY <1>2, <2>2
    <3>2. PICK j \in i + 1 .. Len(s) : j \in I /\ t[l] = s[j]
      BY <2>1, <3>1
    <3>3. j \in DOMAIN s /\ j > i
      BY <1>2
    <3>4. QED BY <3>2, <3>3
  <2>3. k \in DOMAIN t
    BY <1>2
  <2>4. QED BY <2>1, <2>2, <2>3
<1>5. Picks(t, s, I)
  BY <1>3, <1>4 DEF Picks
<1>6. QED BY <1>1, <1>5 DEF t

(* A function over the places of a sequence is one.                         *)
LEMMA OverPlaces ==
  ASSUME NEW S, NEW T, NEW s \in Seq(S), NEW t \in [DOMAIN s -> T]
  PROVE  t \in Seq(T) /\ Len(t) = Len(s) /\ DOMAIN t = DOMAIN s
<1>1. Len(s) \in Nat /\ DOMAIN s = 1 .. Len(s)
  BY LenProperties
<1>2. t \in [1 .. Len(s) -> T]
  BY <1>1
<1>3. t \in Seq(T)
  BY <1>1, <1>2, SeqDef
<1>4. QED BY <1>1, <1>2, <1>3, LenProperties

(* A message in front of others.                                            *)
LEMMA InFront ==
  ASSUME NEW m \in Message, NEW msgs \in Seq(Message)
  PROVE  /\ <<m>> \o msgs \in Seq(Message)
         /\ DOMAIN (<<m>> \o msgs) = 1 .. Len(msgs) + 1
         /\ DOMAIN msgs = 1 .. Len(msgs)
         /\ Len(msgs) \in Nat
         /\ (<<m>> \o msgs)[1] = m
         /\ \A i \in DOMAIN msgs : i + 1 \in DOMAIN (<<m>> \o msgs) /\ (<<m>> \o msgs)[i + 1] = msgs[i]
         /\ \A i \in DOMAIN (<<m>> \o msgs) :
               i = 1 \/ (i - 1 \in DOMAIN msgs /\ (<<m>> \o msgs)[i] = msgs[i - 1])
<1> DEFINE one == <<m>>
           all == one \o msgs
<1>1. one \in Seq(Message) /\ Len(one) = 1 /\ one[1] = m
  OBVIOUS
<1> HIDE DEF one
<1>2. Len(msgs) \in Nat /\ DOMAIN msgs = 1 .. Len(msgs)
  BY LenProperties
<1>3. /\ all \in Seq(Message) /\ Len(all) = Len(msgs) + 1
      /\ \A i \in 1 .. Len(msgs) + 1 : all[i] = IF i <= 1 THEN one[i] ELSE msgs[i - 1]
  <2>1. /\ all \in Seq(Message) /\ Len(all) = Len(one) + Len(msgs)
        /\ \A i \in 1 .. Len(one) + Len(msgs) :
              all[i] = IF i <= Len(one) THEN one[i] ELSE msgs[i - Len(one)]
    BY <1>1, ConcatProperties, Zenon
  <2>2. Len(one) + Len(msgs) = Len(msgs) + 1
    BY <1>1, <1>2
  <2> HIDE DEF all
  <2>3. QED BY <1>1, <2>1, <2>2
<1>4. DOMAIN all = 1 .. Len(msgs) + 1
  BY <1>3, LenProperties
<1> HIDE DEF all
<1>5. all[1] = m
  BY <1>1, <1>2, <1>3
<1>6. ASSUME NEW i \in DOMAIN msgs PROVE i + 1 \in DOMAIN all /\ all[i + 1] = msgs[i]
  <2>1. i + 1 \in 1 .. Len(msgs) + 1 /\ ~(i + 1 <= 1) /\ (i + 1) - 1 = i
    BY <1>2
  <2>2. QED BY <1>3, <1>4, <2>1
<1>7. ASSUME NEW i \in DOMAIN all PROVE i = 1 \/ (i - 1 \in DOMAIN msgs /\ all[i] = msgs[i - 1])
  <2>1. i \in 1 .. Len(msgs) + 1
    BY <1>4
  <2>2. CASE i # 1
    <3>1. ~(i <= 1) /\ i - 1 \in 1 .. Len(msgs)
      BY <1>2, <2>1, <2>2
    <3>2. QED BY <1>2, <1>3, <2>1, <3>1
  <2>3. QED BY <2>2
<1>8. QED BY <1>2, <1>3, <1>4, <1>5, <1>6, <1>7 DEF all, one

-----------------------------------------------------------------------------
(* What the policies look at, and what they make of the messages.           *)

FromClient(m) == m.by = "client"
SystemPrompt(m, q) == m.role = "system" /\ m.by = q.name /\ m.words \subseteq q.prompt

\* The client's messages are some of the older ones, with fewer words in them.
Derives(new, old) ==
  \A i \in DOMAIN new : FromClient(new[i]) =>
     \E j \in DOMAIN old :
        /\ FromClient(old[j])
        /\ new[i].words \subseteq old[j].words
        /\ new[i].whole = old[j].whole /\ new[i].role = old[j].role

Masked(msgs, mask) == \A i \in DOMAIN msgs : FromClient(msgs[i]) => msgs[i].words \cap mask = {}

NoClientSystem(msgs) == \A i \in DOMAIN msgs : FromClient(msgs[i]) => msgs[i].role # "system"

\* There is a prompt of that policy's, or what is left of it; it is the last of
\* the system messages.
HasPrompt(msgs, q) == \E k \in DOMAIN msgs : SystemPrompt(msgs[k], q)
LastPrompt(msgs, q) ==
  \E k \in DOMAIN msgs :
     /\ SystemPrompt(msgs[k], q)
     /\ \A l \in DOMAIN msgs : l > k => msgs[l].role # "system"

(* What messages of the client's can be told by carries over.               *)
LEMMA DerivesKeeps ==
  ASSUME NEW new, NEW old, Derives(new, old)
  PROVE  /\ \A mask : Masked(old, mask) => Masked(new, mask)
         /\ NoClientSystem(old) => NoClientSystem(new)
<1>1. ASSUME NEW mask, Masked(old, mask) PROVE Masked(new, mask)
  BY <1>1 DEF Derives, Masked
<1>2. ASSUME NoClientSystem(old) PROVE NoClientSystem(new)
  BY <1>2 DEF Derives, NoClientSystem
<1>3. QED BY <1>1, <1>2

LEMMA DerivesTwice ==
  ASSUME NEW a, NEW b, NEW c, Derives(a, b), Derives(b, c)
  PROVE  Derives(a, c)
<1>1. ASSUME NEW i \in DOMAIN a, FromClient(a[i])
      PROVE  \E j \in DOMAIN c :
                /\ FromClient(c[j])
                /\ a[i].words \subseteq c[j].words
                /\ a[i].whole = c[j].whole /\ a[i].role = c[j].role
  <2>1. PICK k \in DOMAIN b : /\ FromClient(b[k])
                              /\ a[i].words \subseteq b[k].words
                              /\ a[i].whole = b[k].whole /\ a[i].role = b[k].role
    BY <1>1 DEF Derives
  <2>2. PICK j \in DOMAIN c : /\ FromClient(c[j])
                              /\ b[k].words \subseteq c[j].words
                              /\ b[k].whole = c[j].whole /\ b[k].role = c[j].role
    BY <2>1 DEF Derives
  <2>3. QED BY <2>1, <2>2
<1>2. QED BY <1>1 DEF Derives

(* Where the words of a text come from.                                     *)
LEMMA WordsOf ==
  ASSUME NEW msgs, NEW w
  PROVE  w \in Text(msgs) <=> \E i \in DOMAIN msgs : msgs[i].whole /\ w \in msgs[i].words
BY DEF Text

LEMMA ClientWords ==
  ASSUME NEW msgs \in Seq(Message), NEW w
  PROVE  w \in Text(ByClient(msgs)) <=>
            \E i \in DOMAIN msgs : FromClient(msgs[i]) /\ msgs[i].whole /\ w \in msgs[i].words
<1> DEFINE I == {i \in DOMAIN msgs : msgs[i].by = "client"}
           t == Kept(msgs, I)
<1>1. Picks(t, msgs, I)
  <2> HIDE DEF I
  <2>1. QED BY KeptOrder, Zenon
<1>2. ByClient(msgs) = t
  BY DEF ByClient
<1>3. \A i \in DOMAIN msgs : i \in I <=> FromClient(msgs[i])
  BY DEF FromClient
<1> HIDE DEF I, t
<1>4. w \in Text(t) <=> \E k \in DOMAIN t : t[k].whole /\ w \in t[k].words
  BY WordsOf
<1>5. /\ \A k \in DOMAIN t : \E i \in DOMAIN msgs : i \in I /\ t[k] = msgs[i]
      /\ \A i \in DOMAIN msgs : i \in I => \E k \in DOMAIN t : t[k] = msgs[i]
  BY <1>1 DEF Picks
<1>6. QED BY <1>2, <1>3, <1>4, <1>5

LEMMA DerivedText ==
  ASSUME NEW new \in Seq(Message), NEW old \in Seq(Message), Derives(new, old)
  PROVE  Text(ByClient(new)) \subseteq Text(ByClient(old))
<1>1. ASSUME NEW w \in Text(ByClient(new)) PROVE w \in Text(ByClient(old))
  <2>1. PICK i \in DOMAIN new : FromClient(new[i]) /\ new[i].whole /\ w \in new[i].words
    BY ClientWords
  <2>2. PICK j \in DOMAIN old : /\ FromClient(old[j])
                                /\ new[i].words \subseteq old[j].words
                                /\ new[i].whole = old[j].whole
    BY <2>1 DEF Derives
  <2>3. FromClient(old[j]) /\ old[j].whole /\ w \in old[j].words
    BY <2>1, <2>2
  <2>4. QED BY <2>3, ClientWords, Zenon
<1>2. QED BY <1>1

LEMMA ClientTextIsText ==
  ASSUME NEW msgs \in Seq(Message)
  PROVE  Text(ByClient(msgs)) \subseteq Text(msgs)
BY ClientWords, WordsOf

(* A policy that finds nothing finds nothing in less.                       *)
LEMMA LessText ==
  ASSUME NEW p \in Policies, NEW a, NEW b, Text(a) \subseteq Text(b)
  PROVE  /\ Spotted(p, b) = {} => Spotted(p, a) = {}
         /\ ~Detects(p, b) => ~Detects(p, a)
<1>1. Spotted(p, b) = {} => Spotted(p, a) = {}
  BY DEF Spotted
<1>2. PromptInjection(p, Text(a)) => PromptInjection(p, Text(b))
  <2> DEFINE x == Text(a) \cap PROMPT_INJECTION_PATTERNS
             y == Text(b) \cap PROMPT_INJECTION_PATTERNS
  <2>1. IsFiniteSet(PROMPT_INJECTION_PATTERNS)
    <3>1. IsFiniteSet({"override"}) /\ IsFiniteSet({"hijack"}) /\ IsFiniteSet({"extract"})
      BY FS_Singleton
    <3>2. IsFiniteSet({"override"} \cup {"hijack"})
      BY <3>1, FS_Union
    <3>3. IsFiniteSet(({"override"} \cup {"hijack"}) \cup {"extract"})
      BY <3>1, <3>2, FS_Union
    <3>4. PROMPT_INJECTION_PATTERNS = ({"override"} \cup {"hijack"}) \cup {"extract"}
      BY DEF PROMPT_INJECTION_PATTERNS
    <3>5. QED BY <3>3, <3>4
  <2>2. IsFiniteSet(y)
    <3>1. y \subseteq PROMPT_INJECTION_PATTERNS
      OBVIOUS
    <3>2. QED BY <2>1, <3>1, FS_Subset
  <2>3. x \subseteq y
    OBVIOUS
  <2> HIDE DEF x, y
  <2>4. Cardinality(x) <= Cardinality(y) /\ Cardinality(x) \in Nat /\ Cardinality(y) \in Nat
    BY <2>2, <2>3, FS_Subset, FS_CardinalityType
  <2>5. p.min \in {1, 3}
    BY PoliciesAssumption DEF Policy
  <2>6. Cardinality(x) >= p.min => Cardinality(y) >= p.min
    BY <2>4, <2>5
  <2>7. QED BY <2>6 DEF PromptInjection, x, y
<1>3. Jailbreak(Text(a)) => Jailbreak(Text(b))
  BY DEF Jailbreak
<1>4. QED BY <1>1, <1>2, <1>3 DEF Detects

-----------------------------------------------------------------------------
(* The ways in which messages are changed.                                  *)

LEMMA SameMessages ==
  ASSUME NEW msgs
  PROVE  Derives(msgs, msgs)
BY DEF Derives

(* Some of the messages.                                                    *)
LEMMA KeptMessages ==
  ASSUME NEW msgs \in Seq(Message), NEW I
  PROVE  /\ Kept(msgs, I) \in Seq(Message)
         /\ Derives(Kept(msgs, I), msgs)
         /\ \A q : (\A i \in DOMAIN msgs : SystemPrompt(msgs[i], q) => i \in I) =>
               /\ HasPrompt(msgs, q) => HasPrompt(Kept(msgs, I), q)
               /\ LastPrompt(msgs, q) => LastPrompt(Kept(msgs, I), q)
<1> DEFINE t == Kept(msgs, I)
<1>1. t \in Seq(Message) /\ Picks(t, msgs, I)
  BY KeptOrder, Zenon
<1> HIDE DEF t
<1>2. \A k \in DOMAIN t : \E i \in DOMAIN msgs : t[k] = msgs[i]
  BY <1>1 DEF Picks
<1>3. Derives(t, msgs)
  BY <1>2 DEF Derives
<1>4. ASSUME NEW q, \A i \in DOMAIN msgs : SystemPrompt(msgs[i], q) => i \in I,
             HasPrompt(msgs, q)
      PROVE  HasPrompt(t, q)
  <2>1. PICK i \in DOMAIN msgs : SystemPrompt(msgs[i], q)
    BY <1>4 DEF HasPrompt
  <2>2. PICK k \in DOMAIN t : t[k] = msgs[i]
    BY <1>1, <1>4, <2>1 DEF Picks
  <2>3. QED BY <2>1, <2>2 DEF HasPrompt
<1>5. ASSUME NEW q, \A i \in DOMAIN msgs : SystemPrompt(msgs[i], q) => i \in I,
             LastPrompt(msgs, q)
      PROVE  LastPrompt(t, q)
  <2>1. PICK i \in DOMAIN msgs :
           /\ SystemPrompt(msgs[i], q)
           /\ \A l \in DOMAIN msgs : l > i => msgs[l].role # "system"
    BY <1>5 DEF LastPrompt
  <2>2. i \in I
    BY <1>5, <2>1
  <2>3. PICK k \in DOMAIN t :
           /\ t[k] = msgs[i]
           /\ \A l \in DOMAIN t : l > k => \E j \in DOMAIN msgs : j > i /\ j \in I /\ t[l] = msgs[j]
    BY <1>1, <2>2 DEF Picks
  <2>4. \A l \in DOMAIN t : l > k => t[l].role # "system"
    BY <2>1, <2>3
  <2>5. QED BY <2>1, <2>3, <2>4 DEF LastPrompt
<1>6. QED BY <1>1, <1>3, <1>4, <1>5 DEF t

LEMMA OthersAreNone ==
  ASSUME NEW msgs \in Seq(Message)
  PROVE  /\ OthersOf(msgs) \in Seq(Message)
         /\ Derives(OthersOf(msgs), msgs)
         /\ \A i \in DOMAIN OthersOf(msgs) : OthersOf(msgs)[i].role # "system"
<1> DEFINE I == {i \in DOMAIN msgs : msgs[i].role # "system"}
           t == Kept(msgs, I)
<1>1. t \in Seq(Message) /\ Derives(t, msgs) /\ Picks(t, msgs, I)
  <2> HIDE DEF I
  <2>1. QED BY KeptMessages, KeptOrder, Zenon
<1>2. OthersOf(msgs) = t
  BY DEF OthersOf
<1>3. \A i \in I : msgs[i].role # "system"
  OBVIOUS
<1> HIDE DEF I, t
<1>4. \A k \in DOMAIN t : t[k].role # "system"
  BY <1>1, <1>3 DEF Picks
<1>5. QED BY <1>1, <1>2, <1>4

LEMMA MessageInFront ==
  ASSUME NEW m \in Message, NEW msgs \in Seq(Message), ~FromClient(m)
  PROVE  /\ <<m>> \o msgs \in Seq(Message)
         /\ Derives(<<m>> \o msgs, msgs)
         /\ \A q :
               /\ HasPrompt(msgs, q) => HasPrompt(<<m>> \o msgs, q)
               /\ LastPrompt(msgs, q) => LastPrompt(<<m>> \o msgs, q)
               /\ SystemPrompt(m, q) => HasPrompt(<<m>> \o msgs, q)
               /\ SystemPrompt(m, q) /\ (\A i \in DOMAIN msgs : msgs[i].role # "system")
                     => LastPrompt(<<m>> \o msgs, q)
<1> DEFINE t == <<m>> \o msgs
<1>1. /\ t \in Seq(Message) /\ DOMAIN t = 1 .. Len(msgs) + 1 /\ DOMAIN msgs = 1 .. Len(msgs)
      /\ Len(msgs) \in Nat /\ t[1] = m
      /\ \A i \in DOMAIN msgs : i + 1 \in DOMAIN t /\ t[i + 1] = msgs[i]
      /\ \A i \in DOMAIN t : i = 1 \/ (i - 1 \in DOMAIN msgs /\ t[i] = msgs[i - 1])
  BY InFront, Zenon
<1> HIDE DEF t
<1>2. Derives(t, msgs)
  <2>1. ASSUME NEW i \in DOMAIN t, FromClient(t[i])
        PROVE  i - 1 \in DOMAIN msgs /\ t[i] = msgs[i - 1]
    BY <1>1, <2>1
  <2>2. QED BY <2>1 DEF Derives
<1>3. ASSUME NEW q, HasPrompt(msgs, q) PROVE HasPrompt(t, q)
  <2>1. PICK k \in DOMAIN msgs : SystemPrompt(msgs[k], q)
    BY <1>3 DEF HasPrompt
  <2>2. k + 1 \in DOMAIN t /\ SystemPrompt(t[k + 1], q)
    BY <1>1, <2>1
  <2>3. QED BY <2>2 DEF HasPrompt
<1>4. ASSUME NEW q, LastPrompt(msgs, q) PROVE LastPrompt(t, q)
  <2>1. PICK k \in DOMAIN msgs :
           /\ SystemPrompt(msgs[k], q)
           /\ \A l \in DOMAIN msgs : l > k => msgs[l].role # "system"
    BY <1>4 DEF LastPrompt
  <2>2. k + 1 \in DOMAIN t /\ SystemPrompt(t[k + 1], q)
    BY <1>1, <2>1
  <2>3. ASSUME NEW l \in DOMAIN t, l > k + 1 PROVE t[l].role # "system"
    <3>1. l # 1 /\ l - 1 > k
      BY <1>1, <2>3
    <3>2. l - 1 \in DOMAIN msgs /\ t[l] = msgs[l - 1]
      BY <1>1, <3>1
    <3>3. QED BY <2>1, <3>1, <3>2
  <2>4. QED BY <2>2, <2>3 DEF LastPrompt
<1>5. 1 \in DOMAIN t
  BY <1>1
<1>6. \A q : SystemPrompt(m, q) => HasPrompt(t, q)
  BY <1>1, <1>5 DEF HasPrompt
<1>7. ASSUME NEW q, SystemPrompt(m, q), \A i \in DOMAIN msgs : msgs[i].role # "system"
      PROVE  LastPrompt(t, q)
  <2>1. \A l \in DOMAIN t : l > 1 => t[l].role # "system"
    BY <1>1, <1>7
  <2>2. QED BY <1>1, <1>5, <1>7, <2>1 DEF LastPrompt
<1>8. QED BY <1>1, <1>2, <1>3, <1>4, <1>6, <1>7 DEF t

\* The words are taken out of the messages that are strings.
Redacted(msgs, words) ==
  [i \in DOMAIN msgs |-> IF msgs[i].whole THEN [msgs[i] EXCEPT !.words = @ \ words] ELSE msgs[i]]

LEMMA WordsTaken ==
  ASSUME NEW m \in Message, NEW words
  PROVE  /\ [m EXCEPT !.words = @ \ words] \in Message
         /\ [m EXCEPT !.words = @ \ words].words = m.words \ words
         /\ [m EXCEPT !.words = @ \ words].role = m.role
         /\ [m EXCEPT !.words = @ \ words].by = m.by
         /\ [m EXCEPT !.words = @ \ words].whole = m.whole
BY DEF Message

LEMMA RedactedMessages ==
  ASSUME NEW msgs \in Seq(Message), NEW words
  PROVE  /\ Redacted(msgs, words) \in Seq(Message)
         /\ DOMAIN Redacted(msgs, words) = DOMAIN msgs
         /\ \A i \in DOMAIN msgs :
               /\ Redacted(msgs, words)[i].role = msgs[i].role
               /\ Redacted(msgs, words)[i].by = msgs[i].by
               /\ Redacted(msgs, words)[i].whole = msgs[i].whole
               /\ Redacted(msgs, words)[i].words \subseteq msgs[i].words
               /\ msgs[i].whole => Redacted(msgs, words)[i].words \cap words = {}
<1> DEFINE e(i) == [msgs[i] EXCEPT !.words = @ \ words]
           t == Redacted(msgs, words)
<1>1. t = [i \in DOMAIN msgs |-> IF msgs[i].whole THEN e(i) ELSE msgs[i]]
  BY DEF Redacted
<1>2. \A i \in DOMAIN msgs : msgs[i] \in Message
  BY LenProperties
<1>3. ASSUME NEW i \in DOMAIN msgs
      PROVE  /\ e(i) \in Message /\ e(i).words = msgs[i].words \ words
             /\ e(i).role = msgs[i].role /\ e(i).by = msgs[i].by /\ e(i).whole = msgs[i].whole
  <2>1. msgs[i] \in Message
    BY <1>2
  <2>2. QED BY <2>1, WordsTaken, Zenon
<1> HIDE DEF e, t
<1>4. t \in [DOMAIN msgs -> Message]
  BY <1>1, <1>2, <1>3
<1>5. t \in Seq(Message) /\ DOMAIN t = DOMAIN msgs
  BY <1>4, OverPlaces
<1>6. ASSUME NEW i \in DOMAIN msgs
      PROVE  /\ t[i].role = msgs[i].role /\ t[i].by = msgs[i].by /\ t[i].whole = msgs[i].whole
             /\ t[i].words \subseteq msgs[i].words
             /\ msgs[i].whole => t[i].words \cap words = {}
  <2>1. CASE msgs[i].whole
    <3>1. t[i] = e(i)
      BY <1>1, <2>1
    <3>2. QED BY <1>3, <3>1
  <2>2. CASE ~msgs[i].whole
    <3>1. t[i] = msgs[i]
      BY <1>1, <2>2
    <3>2. QED BY <2>2, <3>1
  <2>3. QED BY <2>1, <2>2
<1>7. QED BY <1>5, <1>6 DEF t

-----------------------------------------------------------------------------
(* The policies, one at a time.                                             *)

Prompts(p) == p.type \in {"inject", "enforce"} /\ p.prompt # None

\* What new, made of msgs by p, owes to p and keeps of others' prompts.
Obeys(p, msgs, new) ==
  /\ new \in Seq(Message)
  /\ Derives(new, msgs)
  /\ p.type = "topic" /\ p.action = "redact" => Spotted(p, ByClient(new)) = {}
  /\ Replaces(p) => NoClientSystem(new)
  /\ Prompts(p) => HasPrompt(new, p)
  /\ Prompts(p) /\ Replaces(p) => LastPrompt(new, p)
  /\ ~Replaces(p) => \A q \in Policies :
        ~Repeats(p, q) => /\ HasPrompt(msgs, q) => HasPrompt(new, q)
                          /\ LastPrompt(msgs, q) => LastPrompt(new, q)

LEMMA PolicyFields ==
  ASSUME NEW p \in Policies
  PROVE  /\ p \in Policy /\ p.name # "client" /\ p.keep \in BOOLEAN
         /\ p.prompt \in (SUBSET Words) \cup {None} /\ p.words \in SUBSET Words
<1>1. p \in Policy
  BY PoliciesAssumption
<1>2. /\ p.keep \in BOOLEAN /\ p.words \in SUBSET Words
      /\ p.prompt \in (SUBSET Words) \cup {None}
  BY <1>1 DEF Policy
<1>3. p.name # "client"
  BY PoliciesAssumption
<1>4. QED BY <1>1, <1>2, <1>3

LEMMA PromptMessage ==
  ASSUME NEW p \in Policies, p.prompt # None
  PROVE  Prompt(p) \in Message /\ ~FromClient(Prompt(p)) /\ SystemPrompt(Prompt(p), p)
<1>1. p.name \in Authors /\ p.name # "client" /\ p.prompt \in SUBSET Words
  BY PolicyFields DEF Authors
<1>2. QED BY <1>1 DEF Prompt, Message, FromClient, SystemPrompt

(* An inject policy puts its prompt first, once.                            *)
LEMMA InjectObeys ==
  ASSUME NEW p \in Policies, NEW msgs \in Seq(Message), p.type = "inject", p.prompt # None
  PROVE  Obeys(p, msgs, Apply(p, msgs))
<1> DEFINE I == {i \in DOMAIN msgs : ~Says(msgs[i], p)}
           t == Kept(msgs, I)
           new == <<Prompt(p)>> \o t
<1>1. Apply(p, msgs) = new
  BY DEF Apply
<1>2. Prompt(p) \in Message /\ ~FromClient(Prompt(p)) /\ SystemPrompt(Prompt(p), p)
  BY PromptMessage
<1>3. \A i \in DOMAIN msgs : i \in I <=> ~Says(msgs[i], p)
  OBVIOUS
<1> HIDE DEF I
<1>4. /\ t \in Seq(Message)
      /\ Derives(t, msgs)
      /\ \A q : (\A i \in DOMAIN msgs : SystemPrompt(msgs[i], q) => i \in I) =>
               /\ HasPrompt(msgs, q) => HasPrompt(t, q)
               /\ LastPrompt(msgs, q) => LastPrompt(t, q)
  BY KeptMessages, Zenon
<1> HIDE DEF t
<1>5. /\ new \in Seq(Message)
      /\ Derives(new, t)
      /\ \A q :
            /\ HasPrompt(t, q) => HasPrompt(new, q)
            /\ LastPrompt(t, q) => LastPrompt(new, q)
            /\ SystemPrompt(Prompt(p), q) => HasPrompt(new, q)
  BY <1>2, <1>4, MessageInFront, Zenon
<1> HIDE DEF new
<1>6. Derives(new, msgs)
  BY <1>4, <1>5, DerivesTwice, Zenon
<1>7. HasPrompt(new, p)
  BY <1>2, <1>5
<1>8. ASSUME NEW q \in Policies, ~Repeats(p, q)
      PROVE  /\ HasPrompt(msgs, q) => HasPrompt(new, q)
             /\ LastPrompt(msgs, q) => LastPrompt(new, q)
  <2>1. \A i \in DOMAIN msgs : SystemPrompt(msgs[i], q) => ~Says(msgs[i], p)
    BY <1>8 DEF SystemPrompt, Says, Repeats
  <2>2. QED BY <1>3, <1>4, <1>5, <2>1
<1>9. ~Replaces(p) /\ p.type # "topic"
  BY DEF Replaces
<1>10. Obeys(p, msgs, new)
  BY <1>5, <1>6, <1>7, <1>8, <1>9 DEF Obeys
<1>11. QED BY <1>1, <1>10

(* An enforce policy that keeps the others' system messages goes first; one *)
(* that does not is the only one.                                           *)
LEMMA EnforceObeys ==
  ASSUME NEW p \in Policies, NEW msgs \in Seq(Message), p.type = "enforce"
  PROVE  Obeys(p, msgs, Apply(p, msgs))
<1> DEFINE t == IF p.keep THEN msgs ELSE OthersOf(msgs)
           new == IF p.prompt = None THEN t ELSE <<Prompt(p)>> \o t
<1>1. Apply(p, msgs) = new
  BY DEF Apply
<1>2. p.keep \in BOOLEAN /\ (Replaces(p) <=> ~p.keep) /\ p.type # "topic"
  BY PolicyFields DEF Replaces
<1>3. t \in Seq(Message) /\ Derives(t, msgs)
  BY SameMessages, OthersAreNone
<1>4. Replaces(p) => \A i \in DOMAIN t : t[i].role # "system"
  BY <1>2, OthersAreNone
<1>5. ~Replaces(p) => t = msgs
  BY <1>2
<1> HIDE DEF t
<1>6. CASE p.prompt = None
  <2>1. new = t /\ ~Prompts(p)
    BY <1>6 DEF Prompts
  <2> HIDE DEF new
  <2>2. Replaces(p) => NoClientSystem(new)
    BY <1>4, <2>1 DEF NoClientSystem
  <2>3. Obeys(p, msgs, new)
    BY <1>2, <1>3, <1>5, <2>1, <2>2 DEF Obeys
  <2>4. QED BY <1>1, <2>3
<1>7. CASE p.prompt # None
  <2>1. Prompt(p) \in Message /\ ~FromClient(Prompt(p)) /\ SystemPrompt(Prompt(p), p)
    BY <1>7, PromptMessage
  <2> DEFINE all == <<Prompt(p)>> \o t
  <2>2. new = all
    BY <1>7
  <2>3. /\ all \in Seq(Message)
        /\ Derives(all, t)
        /\ \A q :
            /\ HasPrompt(t, q) => HasPrompt(all, q)
            /\ LastPrompt(t, q) => LastPrompt(all, q)
            /\ SystemPrompt(Prompt(p), q) => HasPrompt(all, q)
            /\ SystemPrompt(Prompt(p), q) /\ (\A i \in DOMAIN t : t[i].role # "system")
                     => LastPrompt(all, q)
    BY <1>3, <2>1, MessageInFront, Zenon
  <2> HIDE DEF all, new
  <2>4. Derives(all, msgs)
    BY <1>3, <2>3, DerivesTwice, Zenon
  <2>5. HasPrompt(all, p) /\ (Replaces(p) => LastPrompt(all, p))
    BY <1>4, <2>1, <2>3
  <2>6. Replaces(p) => NoClientSystem(all)
    <3>1. Replaces(p) => NoClientSystem(t)
      BY <1>4 DEF NoClientSystem
    <3>2. NoClientSystem(t) => NoClientSystem(all)
      BY <2>3, DerivesKeeps, Zenon
    <3>3. QED BY <3>1, <3>2
  <2>7. Obeys(p, msgs, all)
    BY <1>2, <1>5, <2>3, <2>4, <2>5, <2>6 DEF Obeys
  <2>8. QED BY <1>1, <2>2, <2>7
<1>8. QED BY <1>6, <1>7

(* A topic policy that redacts leaves no word of its own in a string.       *)
LEMMA RedactObeys ==
  ASSUME NEW p \in Policies, NEW msgs \in Seq(Message), p.type = "topic", p.action = "redact"
  PROVE  Obeys(p, msgs, Apply(p, msgs))
<1> DEFINE new == Redacted(msgs, p.words)
<1>1. Apply(p, msgs) = new
  BY DEF Apply, Redacted
<1>2. /\ new \in Seq(Message)
      /\ DOMAIN new = DOMAIN msgs
      /\ \A i \in DOMAIN msgs :
               /\ new[i].role = msgs[i].role
               /\ new[i].by = msgs[i].by
               /\ new[i].whole = msgs[i].whole
               /\ new[i].words \subseteq msgs[i].words
               /\ msgs[i].whole => new[i].words \cap p.words = {}
  BY RedactedMessages, SMT
<1> HIDE DEF new
<1>3. Derives(new, msgs)
  BY <1>2 DEF Derives, FromClient
<1>4. Spotted(p, ByClient(new)) = {}
  <2>1. ASSUME NEW w \in Text(ByClient(new)) PROVE w \notin p.words
    <3>1. \E i \in DOMAIN new : FromClient(new[i]) /\ new[i].whole /\ w \in new[i].words
      BY <1>2, ClientWords, Zenon
    <3>2. QED BY <1>2, <3>1
  <2>2. QED BY <2>1 DEF Spotted
<1>5. \A q : /\ HasPrompt(msgs, q) => HasPrompt(new, q)
             /\ LastPrompt(msgs, q) => LastPrompt(new, q)
  <2>1. \A q : \A i \in DOMAIN msgs : SystemPrompt(msgs[i], q) => SystemPrompt(new[i], q)
    BY <1>2 DEF SystemPrompt
  <2>2. QED BY <1>2, <2>1 DEF HasPrompt, LastPrompt
<1>6. ~Replaces(p) /\ ~Prompts(p)
  BY DEF Replaces, Prompts
<1>7. Obeys(p, msgs, new)
  BY <1>2, <1>3, <1>4, <1>5, <1>6 DEF Obeys
<1>8. QED BY <1>1, <1>7

LEMMA ApplyObeys ==
  ASSUME NEW p \in Policies, NEW msgs \in Seq(Message)
  PROVE  Obeys(p, msgs, Apply(p, msgs))
<1>1. CASE p.type = "inject" /\ p.prompt # None
  BY <1>1, InjectObeys
<1>2. CASE p.type = "enforce"
  BY <1>2, EnforceObeys
<1>3. CASE p.type = "topic" /\ p.action = "redact"
  BY <1>3, RedactObeys
<1>4. CASE ~(\/ p.type = "inject" /\ p.prompt # None
             \/ p.type = "enforce"
             \/ p.type = "topic" /\ p.action = "redact")
  <2>1. Apply(p, msgs) = msgs
    BY <1>4 DEF Apply
  <2>2. ~Replaces(p) /\ ~Prompts(p)
    BY <1>4 DEF Replaces, Prompts
  <2>3. Obeys(p, msgs, msgs)
    BY <1>4, <2>2, SameMessages DEF Obeys
  <2>4. QED BY <2>1, <2>3
<1>5. QED BY <1>1, <1>2, <1>3, <1>4

\* The prompts of the first n policies of a list that no later one takes away.
Unreplaced(list, i, n) ==
  \A j \in i + 1 .. n : ~Replaces(list[j]) /\ ~Repeats(list[j], list[i])

Carries(list, n, msgs) ==
  \A i \in 1 .. n :
     /\ Prompts(list[i]) /\ Unreplaced(list, i, n) =>
           /\ HasPrompt(msgs, list[i])
           /\ Replaces(list[i]) => LastPrompt(msgs, list[i])
     /\ Replaces(list[i]) => NoClientSystem(msgs)

LEMMA NextCarries ==
  ASSUME NEW list \in Seq(Policies), NEW n \in Nat, n + 1 <= Len(list),
         NEW msgs, NEW new, Carries(list, n, msgs), Obeys(list[n + 1], msgs, new)
  PROVE  Carries(list, n + 1, new)
<1> DEFINE p == list[n + 1]
<1>1. Len(list) \in Nat /\ \A i \in 1 .. Len(list) : list[i] \in Policies
  BY LenProperties
<1>2. NoClientSystem(msgs) => NoClientSystem(new)
  BY DerivesKeeps DEF Obeys
<1>3. ASSUME NEW i \in 1 .. n + 1
      PROVE  /\ Prompts(list[i]) /\ Unreplaced(list, i, n + 1) =>
                   /\ HasPrompt(new, list[i])
                   /\ Replaces(list[i]) => LastPrompt(new, list[i])
             /\ Replaces(list[i]) => NoClientSystem(new)
  <2>1. CASE i = n + 1
    BY <2>1 DEF Obeys
  <2>2. CASE i # n + 1
    <3>1. i \in 1 .. n /\ list[i] \in Policies
      BY <1>1, <2>2
    <3>2. Replaces(list[i]) => NoClientSystem(new)
      BY <1>2, <3>1 DEF Carries
    <3>3. ASSUME Prompts(list[i]), Unreplaced(list, i, n + 1)
          PROVE  /\ HasPrompt(new, list[i])
                 /\ Replaces(list[i]) => LastPrompt(new, list[i])
      <4>1. ~Replaces(p) /\ ~Repeats(p, list[i]) /\ Unreplaced(list, i, n)
        BY <3>1, <3>3 DEF Unreplaced
      <4>2. /\ HasPrompt(msgs, list[i])
            /\ Replaces(list[i]) => LastPrompt(msgs, list[i])
        BY <3>1, <3>3, <4>1 DEF Carries
      <4>3. QED BY <3>1, <4>1, <4>2 DEF Obeys
    <3>4. QED BY <3>2, <3>3
  <2>3. QED BY <2>1, <2>2
<1>4. QED BY <1>3 DEF Carries

\* What the client's messages owe to a policy that has passed them.
Fits(p, model, msgs) ==
  /\ p.type \in {"topic"} \cup Threats => ~Rejects(p, ByClient(msgs), model)
  /\ p.type = "topic" /\ p.action = "redact" => Spotted(p, ByClient(msgs)) = {}
  /\ p.type = "models" => ~Rejects(p, << >>, model)

LEMMA FitsLess ==
  ASSUME NEW p \in Policies, NEW model, NEW old \in Seq(Message), NEW new \in Seq(Message),
         Derives(new, old), Fits(p, model, old)
  PROVE  Fits(p, model, new)
<1>1. Text(ByClient(new)) \subseteq Text(ByClient(old))
  BY DerivedText
<1>2. /\ Spotted(p, ByClient(old)) = {} => Spotted(p, ByClient(new)) = {}
      /\ ~Detects(p, ByClient(old)) => ~Detects(p, ByClient(new))
  BY <1>1, LessText, Zenon
<1>3. QED BY <1>2 DEF Fits, Rejects, Threats

(* A policy that does not reject the messages fits what it makes of them.   *)
LEMMA JudgedFits ==
  ASSUME NEW p \in Policies, NEW model, NEW msgs \in Seq(Message), NEW new,
         Obeys(p, msgs, new),
         ~Rejects(p, msgs, model) \/ (p.type \in Threats /\ ~Detects(p, msgs))
  PROVE  Fits(p, model, new)
<1>1. new \in Seq(Message) /\ Derives(new, msgs)
  BY DEF Obeys
<1>2. Text(ByClient(new)) \subseteq Text(msgs)
  BY <1>1, DerivedText, ClientTextIsText
<1>3. /\ Spotted(p, msgs) = {} => Spotted(p, ByClient(new)) = {}
      /\ ~Detects(p, msgs) => ~Detects(p, ByClient(new))
  BY <1>2, LessText, Zenon
<1>4. p.type \in {"topic"} \cup Threats => ~Rejects(p, ByClient(new), model)
  BY <1>3 DEF Rejects, Threats
<1>5. p.type = "models" => ~Rejects(p, << >>, model)
  BY DEF Rejects, Threats
<1>6. QED BY <1>4, <1>5 DEF Fits, Obeys

-----------------------------------------------------------------------------
(* Truncation and the adapters.                                             *)

LEMMA JoinedMessages ==
  ASSUME NEW s \in Seq(Message), NEW t \in Seq(Message)
  PROVE  /\ s \o t \in Seq(Message)
         /\ \A msgs : Derives(s, msgs) /\ Derives(t, msgs) => Derives(s \o t, msgs)
         /\ \A q :
               /\ HasPrompt(s, q) => HasPrompt(s \o t, q)
               /\ LastPrompt(s, q) /\ (\A i \in DOMAIN t : t[i].role # "system")
                     => LastPrompt(s \o t, q)
<1> DEFINE u == s \o t
<1>1. /\ Len(s) \in Nat /\ DOMAIN s = 1 .. Len(s)
      /\ Len(t) \in Nat /\ DOMAIN t = 1 .. Len(t)
  BY LenProperties
<1>2. /\ u \in Seq(Message) /\ Len(u) = Len(s) + Len(t)
      /\ \A i \in 1 .. Len(s) + Len(t) : u[i] = IF i <= Len(s) THEN s[i] ELSE t[i - Len(s)]
  BY ConcatProperties, Zenon
<1> HIDE DEF u
<1>3. DOMAIN u = 1 .. Len(s) + Len(t)
  BY <1>2, LenProperties
<1>4. \A i \in DOMAIN s : i \in DOMAIN u /\ u[i] = s[i]
  BY <1>1, <1>2, <1>3
<1>5. ASSUME NEW i \in DOMAIN u, i \notin DOMAIN s
      PROVE  i - Len(s) \in DOMAIN t /\ u[i] = t[i - Len(s)] /\ i > Len(s)
  <2>1. i \in 1 .. Len(s) + Len(t) /\ ~(i <= Len(s)) /\ i - Len(s) \in 1 .. Len(t)
    BY <1>1, <1>3, <1>5
  <2>2. QED BY <1>1, <1>2, <2>1
<1>6. ASSUME NEW msgs, Derives(s, msgs), Derives(t, msgs) PROVE Derives(u, msgs)
  <2>1. ASSUME NEW i \in DOMAIN u, FromClient(u[i])
        PROVE  \E j \in DOMAIN msgs :
                  /\ FromClient(msgs[j])
                  /\ u[i].words \subseteq msgs[j].words
                  /\ u[i].whole = msgs[j].whole /\ u[i].role = msgs[j].role
    <3>1. CASE i \in DOMAIN s
      BY <1>4, <1>6, <2>1, <3>1 DEF Derives
    <3>2. CASE i \notin DOMAIN s
      BY <1>5, <1>6, <2>1, <3>2 DEF Derives
    <3>3. QED BY <3>1, <3>2
  <2>2. QED BY <2>1 DEF Derives
<1>7. \A q : HasPrompt(s, q) => HasPrompt(u, q)
  BY <1>4 DEF HasPrompt
<1>8. ASSUME NEW q, LastPrompt(s, q), \A i \in DOMAIN t : t[i].role # "system"
      PROVE  LastPrompt(u, q)
  <2>1. PICK k \in DOMAIN s :
           /\ SystemPrompt(s[k], q)
           /\ \A l \in DOMAIN s : l > k => s[l].role # "system"
    BY <1>8 DEF LastPrompt
  <2>2. ASSUME NEW l \in DOMAIN u, l > k PROVE u[l].role # "system"
    <3>1. CASE l \in DOMAIN s
      BY <1>4, <2>1, <2>2, <3>1
    <3>2. CASE l \notin DOMAIN s
      BY <1>5, <1>8, <3>2
    <3>3. QED BY <3>1, <3>2
  <2>3. QED BY <1>4, <2>1, <2>2 DEF LastPrompt
<1>9. QED BY <1>2, <1>6, <1>7, <1>8 DEF u

LEMMA SystemMessages ==
  ASSUME NEW msgs \in Seq(Message)
  PROVE  /\ SystemOf(msgs) \in Seq(Message)
         /\ Derives(SystemOf(msgs), msgs)
         /\ \A i \in DOMAIN SystemOf(msgs) : SystemOf(msgs)[i].role = "system"
         /\ \A q : /\ HasPrompt(msgs, q) => HasPrompt(SystemOf(msgs), q)
                   /\ LastPrompt(msgs, q) => LastPrompt(SystemOf(msgs), q)
         /\ Len(SystemOf(msgs)) + Len(OthersOf(msgs)) = Len(msgs)
<1> DEFINE I == {i \in DOMAIN msgs : msgs[i].role = "system"}
           J == {i \in DOMAIN msgs : msgs[i].role # "system"}
           t == Kept(msgs, I)
           u == Kept(msgs, J)
<1>1. SystemOf(msgs) = t /\ OthersOf(msgs) = u
  BY DEF SystemOf, OthersOf
<1>2. \A i \in DOMAIN msgs : i \in I <=> msgs[i].role = "system"
  OBVIOUS
<1>3. \A n \in 1 .. Len(msgs) : n \in J <=> n \notin I
  <2>1. DOMAIN msgs = 1 .. Len(msgs)
    BY LenProperties
  <2>2. QED BY <2>1
<1> HIDE DEF I, J
<1>4. /\ t \in Seq(Message)
      /\ Derives(t, msgs)
      /\ \A q : (\A i \in DOMAIN msgs : SystemPrompt(msgs[i], q) => i \in I) =>
               /\ HasPrompt(msgs, q) => HasPrompt(t, q)
               /\ LastPrompt(msgs, q) => LastPrompt(t, q)
  BY KeptMessages, Zenon
<1>5. Picks(t, msgs, I)
  BY KeptOrder, Zenon
<1>6. Len(t) + Len(u) = Len(msgs)
  BY <1>3, KeptCount, Zenon
<1> HIDE DEF t, u
<1>7. \A q : \A i \in DOMAIN msgs : SystemPrompt(msgs[i], q) => i \in I
  BY <1>2 DEF SystemPrompt
<1>8. \A k \in DOMAIN t : t[k].role = "system"
  BY <1>2, <1>5 DEF Picks
<1>9. QED BY <1>1, <1>4, <1>6, <1>7, <1>8

\* What is sent of the messages carries what they carried.
Conveys(msgs, new) ==
  /\ new \in Seq(Message)
  /\ Derives(new, msgs)
  /\ \A q : /\ HasPrompt(msgs, q) => HasPrompt(new, q)
            /\ LastPrompt(msgs, q) => LastPrompt(new, q)

LEMMA SameConveyed ==
  ASSUME NEW msgs \in Seq(Message)
  PROVE  Conveys(msgs, msgs)
BY SameMessages DEF Conveys

LEMMA TruncateConveys ==
  ASSUME NEW msgs \in Seq(Message)
  PROVE  Conveys(msgs, Truncate(msgs))
<1> DEFINE system == SystemOf(msgs)
           others == OthersOf(msgs)
           budget == MaxMessages - Len(system)
           from == Len(others) - budget + 1
           newest == SubSeq(others, from, Len(others))
<1>1. /\ system \in Seq(Message) /\ others \in Seq(Message)
      /\ Derives(system, msgs) /\ Derives(others, msgs)
      /\ \A i \in DOMAIN others : others[i].role # "system"
      /\ \A q : /\ HasPrompt(msgs, q) => HasPrompt(system, q)
                /\ LastPrompt(msgs, q) => LastPrompt(system, q)
      /\ Len(system) + Len(others) = Len(msgs)
  BY SystemMessages, OthersAreNone
<1>2. Truncate(msgs) = IF Len(msgs) <= MaxMessages THEN msgs
                       ELSE IF budget <= 0 THEN system ELSE system \o newest
  BY DEF Truncate
<1> HIDE DEF system, others
<1>3. CASE Len(msgs) <= MaxMessages
  BY <1>2, <1>3, SameConveyed
<1>4. CASE ~(Len(msgs) <= MaxMessages) /\ budget <= 0
  BY <1>1, <1>2, <1>4 DEF Conveys
<1>5. CASE ~(Len(msgs) <= MaxMessages) /\ ~(budget <= 0)
  <2>1. /\ Len(system) \in Nat /\ Len(others) \in Nat /\ Len(msgs) \in Nat /\ MaxMessages \in Nat
        /\ DOMAIN others = 1 .. Len(others)
    BY <1>1, LenProperties, PoliciesAssumption
  <2>2. from \in 1 .. Len(others) /\ budget \in Int
    BY <1>1, <1>5, <2>1
  <2> HIDE DEF budget, from
  <2>3. \A i \in from .. Len(others) : i \in DOMAIN others /\ others[i] \in Message
    BY <1>1, <2>1, <2>2, ElementOfSeq
  <2>4. /\ newest \in Seq(Message)
        /\ Len(newest) = Len(others) - from + 1
        /\ \A i \in 1 .. Len(others) - from + 1 : newest[i] = others[from + i - 1]
    <3>1. from \in Int /\ Len(others) \in Int /\ from <= Len(others)
      BY <2>1, <2>2
    <3>2. QED BY <2>3, <3>1, SubSeqProperties
  <2> HIDE DEF newest
  <2>5. ASSUME NEW i \in DOMAIN newest
        PROVE  \E j \in DOMAIN others : newest[i] = others[j]
    <3>1. i \in 1 .. Len(others) - from + 1
      BY <2>4, LenProperties
    <3>2. from + i - 1 \in from .. Len(others)
      BY <2>1, <2>2, <3>1
    <3>3. from + i - 1 \in DOMAIN others
      BY <2>3, <3>2
    <3>4. newest[i] = others[from + i - 1]
      BY <2>4, <3>1
    <3>5. QED BY <3>3, <3>4
  <2>6. Derives(newest, msgs)
    <3>1. Derives(newest, others)
      BY <2>5 DEF Derives
    <3>2. Derives(others, msgs)
      BY <1>1
    <3>3. QED BY <3>1, <3>2, DerivesTwice, Zenon
  <2>7. \A i \in DOMAIN newest : newest[i].role # "system"
    BY <1>1, <2>5
  <2> DEFINE all == system \o newest
  <2>8. /\ all \in Seq(Message)
        /\ \A old : Derives(system, old) /\ Derives(newest, old) => Derives(all, old)
        /\ \A q :
              /\ HasPrompt(system, q) => HasPrompt(all, q)
              /\ LastPrompt(system, q) /\ (\A i \in DOMAIN newest : newest[i].role # "system")
                     => LastPrompt(all, q)
    BY <1>1, <2>4, JoinedMessages, Zenon
  <2>9. Truncate(msgs) = all
    BY <1>2, <1>5
  <2> HIDE DEF all
  <2>10. QED BY <1>1, <2>6, <2>7, <2>8, <2>9 DEF Conveys
<1>6. QED BY <1>3, <1>4, <1>5

(* An adapter with one system prompt sends the last, the others send all.   *)
LEMMA AdaptedSends ==
  ASSUME NEW type \in ProviderTypes, NEW msgs \in Seq(Message)
  PROVE  /\ Adapted(type, msgs) \in Seq(Message)
         /\ Derives(Adapted(type, msgs), msgs)
         /\ type \notin OneSystemTypes => Adapted(type, msgs) = msgs
         /\ \A q : LastPrompt(msgs, q) => HasPrompt(Adapted(type, msgs), q)
<1> DEFINE system == SystemOf(msgs)
           others == OthersOf(msgs)
           m == system[Len(system)]
           beside == <<m>> \o others
<1>1. CASE type \notin OneSystemTypes
  <2>1. Adapted(type, msgs) = msgs
    BY <1>1 DEF Adapted, ProviderTypes, OneSystemTypes, OpenAITypes, OpenAIMessages,
                AzureMessages, OllamaMessages
  <2>2. \A q : LastPrompt(msgs, q) => HasPrompt(msgs, q)
    BY DEF LastPrompt, HasPrompt
  <2>3. QED BY <2>1, <2>2, SameMessages
<1>2. CASE type \in OneSystemTypes
  <2>1. Adapted(type, msgs) = IF system = << >> THEN others ELSE beside
    <3>1. type \in {"anthropic", "bedrock", "gemini"}
      BY <1>2 DEF OneSystemTypes
    <3> DEFINE sent == Beside(system, others)
    <3>2. /\ AnthropicMessages(msgs) = sent
          /\ BedrockBody(msgs) = sent
          /\ GeminiContents(msgs) = sent
      BY DEF AnthropicMessages, BedrockBody, GeminiContents
    <3>3. sent = IF system = << >> THEN others ELSE beside
      BY DEF Beside
    <3> HIDE DEF sent, system, others, beside
    <3>4. Adapted(type, msgs) = sent
      <4>1. CASE type = "anthropic"
        BY <3>2, <4>1 DEF Adapted, OpenAITypes
      <4>2. CASE type = "bedrock"
        BY <3>2, <4>2 DEF Adapted, OpenAITypes
      <4>3. CASE type = "gemini"
        BY <3>2, <4>3 DEF Adapted, OpenAITypes
      <4>4. QED BY <3>1, <4>1, <4>2, <4>3
    <3>5. QED BY <3>3, <3>4
  <2>2. /\ system \in Seq(Message) /\ others \in Seq(Message)
        /\ Derives(system, msgs) /\ Derives(others, msgs)
        /\ \A i \in DOMAIN system : system[i].role = "system"
        /\ \A q : LastPrompt(msgs, q) => LastPrompt(system, q)
    BY SystemMessages, OthersAreNone
  <2> HIDE DEF system, others
  <2>3. DOMAIN system = 1 .. Len(system) /\ Len(system) \in Nat
    BY <2>2, LenProperties
  <2>4. CASE system = << >>
    <3>1. DOMAIN system = {}
      BY <2>3, <2>4
    <3>2. \A q : ~LastPrompt(system, q)
      BY <3>1 DEF LastPrompt
    <3>3. QED BY <1>2, <2>1, <2>2, <2>4, <3>2
  <2>5. CASE system # << >>
    <3>1. Len(system) \in DOMAIN system
      BY <2>2, <2>3, <2>5, EmptySeq
    <3>2. m \in Message
      BY <2>2, <2>3, <3>1, ElementOfSeq
    <3> DEFINE one == <<m>>
    <3>3. one \in Seq(Message) /\ DOMAIN one = {1} /\ one[1] = m
      BY <3>2
    <3> HIDE DEF m, one
    <3>4. /\ one \o others \in Seq(Message)
          /\ \A old : Derives(one, old) /\ Derives(others, old) => Derives(one \o others, old)
          /\ \A q : HasPrompt(one, q) => HasPrompt(one \o others, q)
      BY <2>2, <3>3, JoinedMessages, Zenon
    <3>5. m = system[Len(system)]
      BY DEF m
    <3>6. Derives(one, msgs)
      BY <2>2, <3>1, <3>3, <3>5 DEF Derives
    <3>7. ASSUME NEW q, LastPrompt(system, q) PROVE HasPrompt(one, q)
      <4>1. PICK k \in DOMAIN system :
               /\ SystemPrompt(system[k], q)
               /\ \A l \in DOMAIN system : l > k => system[l].role # "system"
        BY <3>7 DEF LastPrompt
      <4>2. k = Len(system)
        BY <2>2, <2>3, <3>1, <4>1
      <4>3. QED BY <3>3, <3>5, <4>1, <4>2 DEF HasPrompt
    <3>8. Adapted(type, msgs) = one \o others
      BY <2>1, <2>5 DEF one
    <3>9. QED BY <1>2, <2>2, <3>4, <3>6, <3>7, <3>8
  <2>6. QED BY <2>4, <2>5
<1>3. QED BY <1>1, <1>2

-----------------------------------------------------------------------------
(* The inductive invariant.                                                 *)

Request == [pc : Steps, client : Clients \cup {None}, provider : Providers \cup {None},
            model : Models \cup {None}, msgs : Seq(Message), now : Seq(Message),
            todo : Seq(Policies), judges : Seq(Policies), native : BOOLEAN,
            system : (SUBSET Words) \cup {None}, masked : SUBSET Filters,
            called : Models \cup {None}, renamed : BOOLEAN,
            answer : (SUBSET Words) \cup {None}, filtered : (SUBSET Words) \cup {None}]

\* The policies before those to do have passed the messages as they are now.
Judged(judges, todo, model, now) ==
  /\ Len(todo) <= Len(judges)
  /\ \A k \in 1 .. Len(todo) : todo[k] = judges[Len(judges) - Len(todo) + k]
  /\ \A i \in 1 .. Len(judges) - Len(todo) : Fits(judges[i], model, now)
  /\ Carries(judges, Len(judges) - Len(todo), now)

\* All have passed them; messages that were emptied go on as they came.
Passed(judges, model, now, msgs) ==
  /\ \A i \in DOMAIN judges : judges[i].type = "models" => ~Rejects(judges[i], << >>, model)
  /\ now # << >> => /\ \A i \in DOMAIN judges : Fits(judges[i], model, msgs)
                    /\ Carries(judges, Len(judges), msgs)

SentModel(r) ==
  \A i \in DOMAIN r.judges :
     r.judges[i].type = "models" => r.renamed \/ ~Rejects(r.judges[i], << >>, r.called)

SentPrompts(r) ==
  r.now # << >> => \A i \in DOMAIN r.judges :
     /\ Prompts(r.judges[i]) /\ Unreplaced(r.judges, i, Len(r.judges)) =>
           \/ HasPrompt(r.msgs, r.judges[i])
           \/ ~Replaces(r.judges[i]) /\ r.provider \in OneSystemTypes
     /\ Replaces(r.judges[i]) => NoClientSystem(r.msgs)

Sent(r) ==
  /\ SentModel(r)
  /\ r.now # << >> => \A i \in DOMAIN r.judges : Fits(r.judges[i], r.model, r.msgs)
  /\ SentPrompts(r)

\* A request at each of its steps.
ReqSound(r) ==
  /\ r \in Request
  /\ r.pc \in Steps \ {"idle", "resolve", "answered", "done"} =>
        r.provider \in Providers /\ r.model \in Models
  /\ r.pc = "answered" => r.answer \in SUBSET Words
  /\ Masked(r.msgs, r.masked) /\ Masked(r.now, r.masked)
  /\ r.pc \in {"judge", "guard"} => Judged(r.judges, r.todo, r.model, r.now)
  /\ r.pc = "guard" => /\ r.todo # << >> /\ Head(r.todo).type \in Threats
                       /\ ~Detects(Head(r.todo), r.now)
  /\ r.pc = "wait" => Passed(r.judges, r.model, r.now, r.msgs)
  /\ r.pc = "sent" => Sent(r)

TablesOK ==
  /\ filters \in [Filters -> [on : Nat, off : Nat]]
  /\ loaded \in SUBSET Filters
  /\ reload \in [Reloaders -> (SUBSET Filters) \cup {None}]
  /\ policies \in [Policies -> {"on", "off", "absent"}]
  /\ aliases \in [DOMAIN Seeded.aliases -> Target \cup {None, Off}]
  /\ edits \in 0 .. MaxEdits

IInv == TablesOK /\ ReqSound(req)

-----------------------------------------------------------------------------
(* The data that the steps read.                                            *)

LEMMA InferProvider ==
  ASSUME NEW m \in Models
  PROVE  Infer(m) \in Providers
BY PoliciesAssumption

LEMMA LookupFinds ==
  ASSUME TablesOK, NEW model, NEW row \in Lookup(model)
  PROVE  row \in Target \cup {None}
BY DEF TablesOK, Lookup

(* A resolved request has a provider and a model; without an alias, the     *)
(* model is the one that was asked for.                                     *)
LEMMA ResolveFinds ==
  ASSUME NEW provider \in Providers \cup {None}, NEW model \in Models \cup {None},
         NEW row \in Target \cup {None}
  PROVE  /\ Resolve(provider, model, row).provider \in Providers
         /\ Resolve(provider, model, row).model \in Models
         /\ row = None /\ model \in Models => Resolve(provider, model, row).model = model
<1> DEFINE hp == IF row # None THEN row.provider ELSE provider
           hm == IF row # None THEN row.model ELSE model
           named == IF hp = None /\ hm # None THEN Infer(hm) ELSE hp
           p == IF Chain = << >> THEN "anthropic" ELSE IF named = None THEN Head(Chain) ELSE named
           m == IF hm = None THEN DefaultModel[p] ELSE hm
<1>1. hp \in Providers \cup {None} /\ hm \in Models \cup {None}
  BY DEF Target
<1>2. (IF row # None THEN row ELSE [provider |-> provider, model |-> model]).provider = hp
  OBVIOUS
<1>3. (IF row # None THEN row ELSE [provider |-> provider, model |-> model]).model = hm
  OBVIOUS
<1>4. Resolve(provider, model, row) = [provider |-> p, model |-> m]
  BY <1>2, <1>3, Zenon DEF Resolve
<1>5. row = None => hm = model
  OBVIOUS
<1> HIDE DEF hp, hm
<1>6. named \in Providers \cup {None}
  BY <1>1, InferProvider
<1> HIDE DEF named
<1>7. p \in Providers
  <2>1. Chain # << >> => Head(Chain) \in Providers
    BY PoliciesAssumption, HeadTailProperties
  <2>2. "anthropic" \in Providers
    BY PoliciesAssumption
  <2>3. QED BY <1>6, <2>1, <2>2
<1> HIDE DEF p
<1>8. m \in Models
  BY <1>1, <1>7, PoliciesAssumption
<1>9. row = None /\ model \in Models => m = model
  BY <1>5, PoliciesAssumption
<1> HIDE DEF m
<1>10. QED BY <1>4, <1>7, <1>8, <1>9

LEMMA ApplyingPolicies ==
  ASSUME NEW client
  PROVE  Applying(client) \in Seq(Policies)
<1> DEFINE I == {i \in DOMAIN Priority : Applies(Priority[i], client)}
<1>1. Applying(client) = Kept(Priority, I)
  BY DEF Applying
<1> HIDE DEF I
<1>2. Priority \in Seq(Policies)
  BY PoliciesAssumption
<1>3. QED BY <1>1, <1>2, KeptOrder

LEMMA SanitizeMasks ==
  ASSUME NEW msgs \in Seq(Message), NEW mask
  PROVE  Sanitize(msgs, mask) \in Seq(Message) /\ Masked(Sanitize(msgs, mask), mask)
<1> DEFINE e(i) == [msgs[i] EXCEPT !.words = @ \ mask]
           t == Sanitize(msgs, mask)
<1>1. t = [i \in DOMAIN msgs |-> e(i)]
  BY DEF Sanitize
<1>2. \A i \in DOMAIN msgs : msgs[i] \in Message
  BY LenProperties
<1>3. ASSUME NEW i \in DOMAIN msgs
      PROVE  e(i) \in Message /\ e(i).words = msgs[i].words \ mask
  <2>1. msgs[i] \in Message
    BY <1>2
  <2>2. QED BY <2>1, WordsTaken, Zenon
<1> HIDE DEF e, t
<1>4. t \in [DOMAIN msgs -> Message]
  BY <1>1, <1>3
<1>5. t \in Seq(Message) /\ DOMAIN t = DOMAIN msgs
  BY <1>4, OverPlaces
<1>6. \A i \in DOMAIN t : t[i].words \cap mask = {}
  BY <1>1, <1>3, <1>5
<1>7. QED BY <1>5, <1>6 DEF Masked, t

LEMMA FilterShortens ==
  ASSUME NEW list, NEW text \in SUBSET Words
  PROVE  FilterResponse(list, text) \in SUBSET Words
BY DEF FilterResponse

-----------------------------------------------------------------------------
(* The judging of a request.                                                *)

LEMMA ModelOfFits ==
  ASSUME NEW p, NEW model, NEW msgs, Fits(p, model, msgs), p.type = "models"
  PROVE  ~Rejects(p, << >>, model)
BY DEF Fits

LEMMA JudgedStart ==
  ASSUME NEW list \in Seq(Policies), NEW model, NEW msgs
  PROVE  Judged(list, list, model, msgs)
<1>1. Len(list) \in Nat
  BY LenProperties
<1>2. Len(list) - Len(list) = 0 /\ 1 .. 0 = {} /\ Len(list) <= Len(list)
  BY <1>1
<1>3. \A k \in 1 .. Len(list) : list[k] = list[0 + k]
  OBVIOUS
<1>4. Carries(list, 0, msgs)
  BY <1>2 DEF Carries
<1>5. QED BY <1>2, <1>3, <1>4 DEF Judged

(* One policy more.                                                         *)
LEMMA JudgedNext ==
  ASSUME NEW list \in Seq(Policies), NEW todo \in Seq(Policies), NEW model,
         NEW msgs \in Seq(Message), NEW new,
         Judged(list, todo, model, msgs), todo # << >>,
         Obeys(Head(todo), msgs, new),
         ~Rejects(Head(todo), msgs, model)
            \/ (Head(todo).type \in Threats /\ ~Detects(Head(todo), msgs))
  PROVE  Tail(todo) \in Seq(Policies) /\ Judged(list, Tail(todo), model, new)
<1> DEFINE n == Len(list) - Len(todo)
           p == Head(todo)
           rest == Tail(todo)
<1>1. /\ p \in Policies /\ rest \in Seq(Policies) /\ Len(rest) = Len(todo) - 1
      /\ \A k \in 1 .. Len(rest) : rest[k] = todo[k + 1]
      /\ p = todo[1]
  BY HeadTailProperties
<1>2. Len(list) \in Nat /\ Len(todo) \in Nat /\ Len(rest) \in Nat /\ Len(todo) <= Len(list)
  BY <1>1, LenProperties DEF Judged
<1>3. n \in Nat /\ Len(list) - Len(rest) = n + 1 /\ n + 1 <= Len(list) /\ Len(rest) <= Len(list)
        /\ 1 \in 1 .. Len(todo)
  BY <1>1, <1>2
<1>4. p = list[n + 1]
  BY <1>1, <1>3 DEF Judged
<1>5. new \in Seq(Message) /\ Derives(new, msgs)
  BY DEF Obeys
<1>6. \A k \in 1 .. Len(rest) : rest[k] = list[(n + 1) + k]
  <2>1. ASSUME NEW k \in 1 .. Len(rest) PROVE rest[k] = list[(n + 1) + k]
    <3>1. k + 1 \in 1 .. Len(todo) /\ n + (k + 1) = (n + 1) + k
      BY <1>1, <1>2, <1>3
    <3>2. todo[k + 1] = list[n + (k + 1)]
      BY <3>1 DEF Judged
    <3>3. QED BY <1>1, <3>1, <3>2
  <2>2. QED BY <2>1
<1>7. ASSUME NEW i \in 1 .. n + 1 PROVE Fits(list[i], model, new)
  <2>1. CASE i = n + 1
    <3>1. Fits(p, model, new)
      BY <1>1, JudgedFits, Zenon
    <3>2. QED BY <1>4, <2>1, <3>1
  <2>2. CASE i # n + 1
    <3>1. i \in 1 .. n /\ i \in 1 .. Len(list)
      BY <1>3, <2>2
    <3>2. list[i] \in Policies
      BY <3>1, ElementOfSeq
    <3>3. Fits(list[i], model, msgs)
      BY <3>1 DEF Judged
    <3>4. QED BY <1>5, <3>2, <3>3, FitsLess, Zenon
  <2>3. QED BY <2>1, <2>2
<1>8. Carries(list, n + 1, new)
  <2>1. Carries(list, n, msgs)
    BY DEF Judged
  <2>2. Obeys(list[n + 1], msgs, new)
    BY <1>4
  <2> HIDE DEF n, p
  <2>3. QED BY <1>3, <2>1, <2>2, NextCarries, Zenon
<1> HIDE DEF n, p, rest
<1>9. Judged(list, rest, model, new)
  BY <1>3, <1>6, <1>7, <1>8 DEF Judged
<1>10. QED BY <1>1, <1>9 DEF rest

LEMMA ConveysCarries ==
  ASSUME NEW list, NEW n, NEW msgs, NEW new, Conveys(msgs, new), Carries(list, n, msgs)
  PROVE  Carries(list, n, new)
<1>1. NoClientSystem(msgs) => NoClientSystem(new)
  BY DerivesKeeps DEF Conveys
<1>2. \A q : /\ HasPrompt(msgs, q) => HasPrompt(new, q)
             /\ LastPrompt(msgs, q) => LastPrompt(new, q)
  BY DEF Conveys
<1>3. QED BY <1>1, <1>2 DEF Carries

(* What all policies have passed is truncated.                              *)
LEMMA PassedInTheEnd ==
  ASSUME NEW list \in Seq(Policies), NEW model, NEW now \in Seq(Message),
         NEW msgs \in Seq(Message), Judged(list, << >>, model, now)
  PROVE  Passed(list, model, now, Truncate(IF now = << >> THEN msgs ELSE now))
<1> DEFINE new == Truncate(IF now = << >> THEN msgs ELSE now)
<1>1. Len(list) \in Nat /\ DOMAIN list = 1 .. Len(list)
  BY LenProperties
<1>2. Len(list) - Len(<< >>) = Len(list)
  <2>1. Len(<< >>) = 0
    BY EmptySeq
  <2>2. QED BY <1>1, <2>1
<1>3. /\ \A i \in DOMAIN list : Fits(list[i], model, now)
      /\ Carries(list, Len(list), now)
  BY <1>1, <1>2 DEF Judged
<1>4. \A i \in DOMAIN list : list[i].type = "models" => ~Rejects(list[i], << >>, model)
  BY <1>3, ModelOfFits
<1>5. ASSUME now # << >>
      PROVE  /\ \A i \in DOMAIN list : Fits(list[i], model, new)
             /\ Carries(list, Len(list), new)
  <2>1. new = Truncate(now)
    BY <1>5
  <2>2. Conveys(now, new)
    BY <2>1, TruncateConveys
  <2> HIDE DEF new
  <2>3. Carries(list, Len(list), new)
    BY <1>3, <2>2, ConveysCarries, Zenon
  <2>4. ASSUME NEW i \in DOMAIN list PROVE Fits(list[i], model, new)
    <3>1. list[i] \in Policies
      BY <1>1, ElementOfSeq
    <3>2. new \in Seq(Message) /\ Derives(new, now)
      BY <2>2 DEF Conveys
    <3>3. Fits(list[i], model, now)
      BY <1>3
    <3>4. QED BY <3>1, <3>2, <3>3, FitsLess, Zenon
  <2>5. QED BY <2>3, <2>4
<1> HIDE DEF new
<1>6. Passed(list, model, now, new)
  BY <1>4, <1>5 DEF Passed
<1>7. QED BY <1>6 DEF new

(* What is sent of them.                                                    *)
LEMMA SentOfPassed ==
  ASSUME NEW list \in Seq(Policies), NEW model, NEW msgs \in Seq(Message), NEW all,
         Conveys(msgs, all), NEW p \in ProviderTypes,
         \A i \in DOMAIN list : Fits(list[i], model, msgs),
         Carries(list, Len(list), msgs)
  PROVE  /\ \A i \in DOMAIN list : Fits(list[i], model, Adapted(p, all))
         /\ \A i \in DOMAIN list :
               /\ Prompts(list[i]) /\ Unreplaced(list, i, Len(list)) =>
                     \/ HasPrompt(Adapted(p, all), list[i])
                     \/ ~Replaces(list[i]) /\ p \in OneSystemTypes
               /\ Replaces(list[i]) => NoClientSystem(Adapted(p, all))
<1> DEFINE new == Adapted(p, all)
<1>1. all \in Seq(Message) /\ Derives(all, msgs)
  BY DEF Conveys
<1>2. /\ new \in Seq(Message)
      /\ Derives(new, all)
      /\ p \notin OneSystemTypes => new = all
      /\ \A q : LastPrompt(all, q) => HasPrompt(new, q)
  BY <1>1, AdaptedSends
<1> HIDE DEF new
<1>3. Derives(new, msgs)
  BY <1>1, <1>2, DerivesTwice, Zenon
<1>4. DOMAIN list = 1 .. Len(list)
  BY LenProperties
<1>5. Carries(list, Len(list), all)
  BY ConveysCarries, Zenon
<1>6. ASSUME NEW i \in DOMAIN list PROVE Fits(list[i], model, new)
  <2>1. list[i] \in Policies
    BY <1>4, ElementOfSeq
  <2>2. QED BY <1>2, <1>3, <2>1, FitsLess, Zenon
<1>7. ASSUME NEW i \in DOMAIN list
      PROVE  /\ Prompts(list[i]) /\ Unreplaced(list, i, Len(list)) =>
                   \/ HasPrompt(new, list[i])
                   \/ ~Replaces(list[i]) /\ p \in OneSystemTypes
             /\ Replaces(list[i]) => NoClientSystem(new)
  <2>1. Replaces(list[i]) => NoClientSystem(new)
    <3>1. Replaces(list[i]) => NoClientSystem(all)
      BY <1>4, <1>5 DEF Carries
    <3>2. NoClientSystem(all) => NoClientSystem(new)
      BY <1>2, DerivesKeeps, Zenon
    <3>3. QED BY <3>1, <3>2
  <2>2. ASSUME Prompts(list[i]), Unreplaced(list, i, Len(list))
        PROVE  \/ HasPrompt(new, list[i])
               \/ ~Replaces(list[i]) /\ p \in OneSystemTypes
    <3>1. /\ HasPrompt(all, list[i])
          /\ Replaces(list[i]) => LastPrompt(all, list[i])
      BY <1>4, <1>5, <2>2 DEF Carries
    <3>2. QED BY <1>2, <3>1
  <2>3. QED BY <2>1, <2>2
<1>8. QED BY <1>6, <1>7 DEF new

-----------------------------------------------------------------------------
(* The steps of a request.                                                  *)

LEMMA IdleSound ==
  Idle \in Request /\ Idle.pc = "idle" /\ ReqSound(Idle)
<1>1. << >> \in Seq(Message) /\ << >> \in Seq(Policies)
  BY EmptySeq
<1>2. Idle \in Request
  BY <1>1 DEF Idle, Request, Steps
<1>3. Idle.pc = "idle" /\ Idle.msgs = << >> /\ Idle.now = << >>
  BY DEF Idle
<1>4. \A mask : Masked(<< >>, mask)
  <2>1. DOMAIN << >> = {}
    OBVIOUS
  <2>2. QED BY <2>1 DEF Masked
<1> DEFINE r == Idle
<1> HIDE DEF r
<1>5. r \in Request /\ r.pc = "idle" /\ Masked(r.msgs, r.masked) /\ Masked(r.now, r.masked)
  BY <1>2, <1>3, <1>4 DEF r
<1>6. ReqSound(r)
  BY <1>5 DEF ReqSound
<1>7. QED BY <1>2, <1>3, <1>6 DEF r

LEMMA ReceiveSound ==
  ASSUME TablesOK, NEW in \in Inputs, Receive(in)
  PROVE  ReqSound(req')
<1>1. /\ in.client \in Clients \cup {None} /\ in.provider \in Providers \cup {None}
      /\ in.model \in Models \cup {None} /\ in.msgs \in Seq(Message) /\ in.native \in BOOLEAN
      /\ in.system \in (SUBSET Words) \cup {None}
  BY PoliciesAssumption
<1> DEFINE t == Sanitize(in.msgs, loaded)
<1>2. t \in Seq(Message) /\ Masked(t, loaded)
  BY <1>1, SanitizeMasks
<1>3. loaded \in SUBSET Filters
  BY DEF TablesOK
<1>4. req' = [Idle EXCEPT !.pc = "resolve", !.client = in.client, !.provider = in.provider,
                          !.model = in.model, !.msgs = t, !.native = in.native,
                          !.system = in.system, !.masked = loaded]
  BY DEF Receive
<1> HIDE DEF t
<1>5. /\ req' \in Request
      /\ req'.pc = "resolve" /\ req'.msgs = t /\ req'.masked = loaded
      /\ req'.now = Idle.now
  <2>1. req' = [pc |-> "resolve", client |-> in.client, provider |-> in.provider,
                model |-> in.model, msgs |-> t, now |-> << >>, todo |-> << >>,
                native |-> in.native, system |-> in.system, masked |-> loaded,
                judges |-> << >>, called |-> None, renamed |-> FALSE,
                answer |-> None, filtered |-> None]
    BY <1>4 DEF Idle
  <2>2. << >> \in Seq(Message) /\ << >> \in Seq(Policies) /\ "resolve" \in Steps
    BY EmptySeq DEF Steps
  <2>3. req' \in Request
    BY <1>1, <1>2, <1>3, <2>1, <2>2 DEF Request
  <2>4. QED BY <2>1, <2>3 DEF Idle
<1>6. Masked(Idle.now, loaded)
  <2>1. Idle.now = << >> /\ DOMAIN << >> = {}
    BY DEF Idle
  <2>2. QED BY <2>1 DEF Masked
<1>7. QED BY <1>2, <1>5, <1>6 DEF ReqSound

LEMMA ResolveSound ==
  ASSUME TablesOK, ReqSound(req), ResolveModel
  PROVE  ReqSound(req')
<1>1. PICK row \in Lookup(req.model) :
         req' = [req EXCEPT !.pc = "load",
                            !.provider = Resolve(req.provider, req.model, row).provider,
                            !.model = Resolve(req.provider, req.model, row).model]
  BY DEF ResolveModel
<1> DEFINE to == Resolve(req.provider, req.model, row)
<1>2. req \in Request /\ req.pc = "resolve"
  BY DEF ReqSound, ResolveModel, At
<1>3. to.provider \in Providers /\ to.model \in Models
  <2>1. req.provider \in Providers \cup {None} /\ req.model \in Models \cup {None}
    BY <1>2 DEF Request
  <2>2. row \in Target \cup {None}
    BY LookupFinds
  <2>3. QED BY <2>1, <2>2, ResolveFinds, Zenon
<1>4. req' = [req EXCEPT !.pc = "load", !.provider = to.provider, !.model = to.model]
  BY <1>1
<1> HIDE DEF to
<1>5. /\ req' \in Request
      /\ req'.pc = "load" /\ req'.provider = to.provider /\ req'.model = to.model
      /\ req'.msgs = req.msgs /\ req'.now = req.now /\ req'.masked = req.masked
  BY <1>2, <1>3, <1>4 DEF Request, Steps
<1>6. QED BY <1>3, <1>5 DEF ReqSound

LEMMA LoadSound ==
  ASSUME ReqSound(req), LoadPolicies
  PROVE  ReqSound(req')
<1> DEFINE all == Applying(req.client)
<1>1. all \in Seq(Policies)
  BY ApplyingPolicies
<1>2. req \in Request /\ req.pc = "load"
  BY DEF ReqSound, LoadPolicies, At
<1>3. req' = [req EXCEPT !.pc = "judge", !.now = req.msgs, !.todo = all, !.judges = all]
  BY DEF LoadPolicies
<1> HIDE DEF all
<1>4. /\ req' \in Request
      /\ req'.pc = "judge" /\ req'.now = req.msgs /\ req'.todo = all /\ req'.judges = all
      /\ req'.provider = req.provider /\ req'.model = req.model
      /\ req'.msgs = req.msgs /\ req'.masked = req.masked
  BY <1>1, <1>2, <1>3 DEF Request, Steps
<1>5. Judged(all, all, req.model, req.msgs)
  BY <1>1, JudgedStart, Zenon
<1>6. req.provider \in Providers /\ req.model \in Models /\ Masked(req.msgs, req.masked)
  BY <1>2 DEF ReqSound, Steps
<1>7. QED BY <1>4, <1>5, <1>6 DEF ReqSound

(* A policy that passes the messages, and what it makes of them.            *)
LEMMA AdvanceSound ==
  ASSUME ReqSound(req), req.pc \in {"judge", "guard"}, req.todo # << >>,
         NEW new, Obeys(Head(req.todo), req.now, new),
         ~Rejects(Head(req.todo), req.now, req.model)
            \/ (Head(req.todo).type \in Threats /\ ~Detects(Head(req.todo), req.now)),
         req' = [req EXCEPT !.pc = "judge", !.now = new, !.todo = Tail(req.todo)]
  PROVE  ReqSound(req')
<1> DEFINE rest == Tail(req.todo)
<1>1. /\ req \in Request /\ req.provider \in Providers /\ req.model \in Models
      /\ Masked(req.msgs, req.masked) /\ Masked(req.now, req.masked)
      /\ Judged(req.judges, req.todo, req.model, req.now)
  BY DEF ReqSound, Steps
<1>2. req.judges \in Seq(Policies) /\ req.todo \in Seq(Policies) /\ req.now \in Seq(Message)
  BY <1>1 DEF Request
<1>3. rest \in Seq(Policies) /\ Judged(req.judges, rest, req.model, new)
  BY <1>1, <1>2, JudgedNext, Zenon
<1>4. new \in Seq(Message) /\ Derives(new, req.now)
  BY DEF Obeys
<1>5. Masked(new, req.masked)
  BY <1>1, <1>4, DerivesKeeps, Zenon
<1> HIDE DEF rest
<1>6. req' = [req EXCEPT !.pc = "judge", !.now = new, !.todo = rest]
  BY DEF rest
<1>7. /\ req' \in Request
      /\ req'.pc = "judge" /\ req'.now = new /\ req'.todo = rest /\ req'.judges = req.judges
      /\ req'.provider = req.provider /\ req'.model = req.model
      /\ req'.msgs = req.msgs /\ req'.masked = req.masked
  <2>1. "judge" \in Steps
    BY DEF Steps
  <2>2. req' \in Request
    BY <1>1, <1>3, <1>4, <1>6, <2>1 DEF Request
  <2>3. QED BY <1>1, <1>6, <2>2 DEF Request
<1>8. QED BY <1>1, <1>3, <1>5, <1>7 DEF ReqSound

LEMMA JudgeSound ==
  ASSUME ReqSound(req), Judge
  PROVE  ReqSound(req')
<1> DEFINE p == Head(req.todo)
           new == Apply(p, req.now)
<1>1. /\ req \in Request /\ req.pc = "judge" /\ req.todo # << >>
      /\ req.provider \in Providers /\ req.model \in Models
      /\ Masked(req.msgs, req.masked) /\ Masked(req.now, req.masked)
      /\ Judged(req.judges, req.todo, req.model, req.now)
  BY DEF ReqSound, Judge, At, Steps
<1>2. req.todo \in Seq(Policies) /\ req.now \in Seq(Message) /\ p \in Policies
  <2>1. req.todo \in Seq(Policies) /\ req.now \in Seq(Message)
    BY <1>1 DEF Request
  <2>2. QED BY <1>1, <2>1, HeadTailProperties
<1>3. CASE NeedsGuard(p)
  <2>1. req' = [req EXCEPT !.pc = "guard"]
    BY <1>3 DEF Judge
  <2>2. p.type \in Threats /\ ~Detects(p, req.now)
    BY <1>3 DEF NeedsGuard
  <2> HIDE DEF p
  <2>3. /\ req' \in Request
        /\ req'.pc = "guard" /\ req'.now = req.now /\ req'.todo = req.todo
        /\ req'.judges = req.judges
        /\ req'.provider = req.provider /\ req'.model = req.model
        /\ req'.msgs = req.msgs /\ req'.masked = req.masked
    BY <1>1, <2>1 DEF Request, Steps
  <2>4. Head(req'.todo).type \in Threats /\ ~Detects(Head(req'.todo), req'.now)
    BY <2>2, <2>3 DEF p
  <2>5. QED BY <1>1, <2>3, <2>4 DEF ReqSound
<1>4. CASE ~NeedsGuard(p) /\ Rejects(p, req.now, req.model)
  <2>1. req' = Idle
    BY <1>4 DEF Judge
  <2>2. QED BY <2>1, IdleSound
<1>5. CASE ~NeedsGuard(p) /\ ~Rejects(p, req.now, req.model)
  <2>1. req' = [req EXCEPT !.now = new, !.todo = Tail(req.todo)]
    BY <1>5 DEF Judge
  <2>2. Obeys(p, req.now, new)
    BY <1>2, ApplyObeys, Zenon
  <2> HIDE DEF new
  <2>3. req' = [req EXCEPT !.pc = "judge", !.now = new, !.todo = Tail(req.todo)]
    BY <1>1, <2>1 DEF Request
  <2>4. QED BY <1>1, <1>5, <2>2, <2>3, AdvanceSound, Zenon
<1>6. QED BY <1>3, <1>4, <1>5

LEMMA GuardSound ==
  ASSUME ReqSound(req), NEW verdict, GuardAnswers(verdict)
  PROVE  ReqSound(req')
<1> DEFINE p == Head(req.todo)
<1>1. /\ req \in Request /\ req.pc = "guard" /\ req.todo # << >>
      /\ p.type \in Threats /\ ~Detects(p, req.now)
  BY DEF ReqSound, GuardAnswers, At
<1>2. req.todo \in Seq(Policies) /\ req.now \in Seq(Message) /\ p \in Policies
  <2>1. req.todo \in Seq(Policies) /\ req.now \in Seq(Message)
    BY <1>1 DEF Request
  <2>2. QED BY <1>1, <2>1, HeadTailProperties
<1>3. CASE verdict = p.type /\ p.action = "reject"
  <2>1. req' = Idle
    BY <1>3 DEF GuardAnswers
  <2>2. QED BY <2>1, IdleSound
<1>4. CASE ~(verdict = p.type /\ p.action = "reject")
  <2>1. req' = [req EXCEPT !.pc = "judge", !.todo = Tail(req.todo)]
    BY <1>4 DEF GuardAnswers
  <2>2. Obeys(p, req.now, req.now)
    <3>1. Apply(p, req.now) = req.now
      BY <1>1 DEF Apply, Threats
    <3>2. Obeys(p, req.now, Apply(p, req.now))
      BY <1>2, ApplyObeys, Zenon
    <3>3. QED BY <3>1, <3>2
  <2>3. req' = [req EXCEPT !.pc = "judge", !.now = req.now, !.todo = Tail(req.todo)]
    BY <1>1, <2>1 DEF Request
  <2>4. QED BY <1>1, <2>2, <2>3, AdvanceSound, Zenon
<1>5. QED BY <1>3, <1>4

LEMMA PassSound ==
  ASSUME ReqSound(req), Pass
  PROVE  ReqSound(req')
<1> DEFINE old == IF req.now = << >> THEN req.msgs ELSE req.now
           new == Truncate(old)
<1>1. /\ req \in Request /\ req.pc = "judge" /\ req.todo = << >>
      /\ req.provider \in Providers /\ req.model \in Models
      /\ Masked(req.msgs, req.masked) /\ Masked(req.now, req.masked)
      /\ Judged(req.judges, << >>, req.model, req.now)
  BY DEF ReqSound, Pass, At, Steps
<1>2. req.judges \in Seq(Policies) /\ req.now \in Seq(Message) /\ req.msgs \in Seq(Message)
  BY <1>1 DEF Request
<1>3. Passed(req.judges, req.model, req.now, new)
  BY <1>1, <1>2, PassedInTheEnd, Zenon
<1>4. Conveys(old, new) /\ Masked(old, req.masked)
  <2>1. old \in Seq(Message) /\ Masked(old, req.masked)
    BY <1>1, <1>2
  <2> HIDE DEF old
  <2>2. QED BY <2>1, TruncateConveys
<1>5. req' = [req EXCEPT !.pc = "wait", !.msgs = new]
  BY DEF Pass
<1> HIDE DEF old, new
<1>6. new \in Seq(Message) /\ Masked(new, req.masked)
  BY <1>4, DerivesKeeps DEF Conveys
<1>7. /\ req' \in Request
      /\ req'.pc = "wait" /\ req'.now = req.now /\ req'.judges = req.judges
      /\ req'.provider = req.provider /\ req'.model = req.model
      /\ req'.msgs = new /\ req'.masked = req.masked
  <2>1. "wait" \in Steps
    BY DEF Steps
  <2>2. req' \in Request
    BY <1>1, <1>5, <1>6, <2>1 DEF Request
  <2>3. QED BY <1>1, <1>5, <2>2 DEF Request
<1>8. QED BY <1>1, <1>3, <1>6, <1>7 DEF ReqSound

LEMMA AnswerSound ==
  ASSUME ReqSound(req), NEW text \in SUBSET Words, Answer(text)
  PROVE  ReqSound(req')
<1>1. req \in Request
  BY DEF ReqSound
<1>2. req' = [Idle EXCEPT !.pc = "answered", !.client = req.client, !.answer = text]
  BY DEF Answer
<1>3. /\ req' \in Request
      /\ req'.pc = "answered" /\ req'.answer = text
      /\ req'.msgs = Idle.msgs /\ req'.now = Idle.now /\ req'.masked = Idle.masked
  <2> DEFINE r == Idle
  <2>1. r \in Request /\ "answered" \in Steps
    BY IdleSound DEF Steps
  <2>2. req' = [r EXCEPT !.pc = "answered", !.client = req.client, !.answer = text]
    BY <1>2
  <2> HIDE DEF r
  <2>3. req' \in Request
    BY <1>1, <2>1, <2>2 DEF Request
  <2>4. /\ req'.pc = "answered" /\ req'.answer = text
        /\ req'.msgs = r.msgs /\ req'.now = r.now /\ req'.masked = r.masked
    BY <2>1, <2>2 DEF Request
  <2>5. QED BY <2>3, <2>4 DEF r
<1>4. Masked(Idle.msgs, Idle.masked) /\ Masked(Idle.now, Idle.masked)
  BY IdleSound DEF ReqSound
<1>5. QED BY <1>3, <1>4 DEF ReqSound

LEMMA FilterSound ==
  ASSUME ReqSound(req), FilterAnswer
  PROVE  ReqSound(req')
<1> DEFINE left == FilterResponse(Applying(req.client), req.answer)
<1>1. /\ req \in Request /\ req.pc = "answered" /\ req.answer \in SUBSET Words
      /\ Masked(req.msgs, req.masked) /\ Masked(req.now, req.masked)
  BY DEF ReqSound, FilterAnswer, At
<1>2. left \in SUBSET Words
  BY <1>1, FilterShortens
<1>3. req' = [req EXCEPT !.pc = "done", !.filtered = left]
  BY DEF FilterAnswer
<1> HIDE DEF left
<1>4. /\ req' \in Request /\ req'.pc = "done"
      /\ req'.msgs = req.msgs /\ req'.now = req.now /\ req'.masked = req.masked
  BY <1>1, <1>2, <1>3 DEF Request, Steps
<1>5. QED BY <1>1, <1>4 DEF ReqSound

(* The field of the native format goes in front, and is not the client's.   *)
LEMMA FieldConveys ==
  ASSUME NEW m \in Message, ~FromClient(m), NEW msgs \in Seq(Message)
  PROVE  Conveys(msgs, <<m>> \o msgs)
<1> DEFINE all == <<m>> \o msgs
<1>1. /\ all \in Seq(Message)
      /\ Derives(all, msgs)
      /\ \A q :
            /\ HasPrompt(msgs, q) => HasPrompt(all, q)
            /\ LastPrompt(msgs, q) => LastPrompt(all, q)
  BY MessageInFront
<1> HIDE DEF all
<1>2. Conveys(msgs, all)
  BY <1>1 DEF Conveys
<1>3. QED BY <1>2 DEF all

LEMMA SendSound ==
  ASSUME TablesOK, ReqSound(req), NEW fallback \in Range(Chain) \cup {None}, Send(fallback)
  PROVE  ReqSound(req')
<1>1. /\ req \in Request /\ req.pc = "wait"
      /\ req.provider \in Providers /\ req.model \in Models
      /\ Masked(req.msgs, req.masked) /\ Masked(req.now, req.masked)
      /\ Passed(req.judges, req.model, req.now, req.msgs)
  BY DEF ReqSound, Send, At, Steps
<1>2. /\ req.judges \in Seq(Policies) /\ req.now \in Seq(Message) /\ req.msgs \in Seq(Message)
      /\ req.native \in BOOLEAN /\ req.system \in (SUBSET Words) \cup {None}
  BY <1>1 DEF Request
<1> DEFINE To(row) == IF req.native THEN Resolve(req.provider, req.model, row)
                      ELSE [provider |-> req.provider, model |-> req.model]
           all == IF req.native /\ req.system # None THEN <<Field>> \o req.msgs ELSE req.msgs
<1>3. PICK row \in Lookup(req.model) :
         req' = [req EXCEPT !.pc = "sent",
                            !.provider = IF fallback = None THEN To(row).provider ELSE fallback,
                            !.called = To(row).model,
                            !.renamed = req.native /\ row # None,
                            !.msgs = Adapted(IF fallback = None THEN To(row).provider
                                             ELSE fallback, all)]
  BY DEF Send
<1> DEFINE to == To(row)
           p == IF fallback = None THEN to.provider ELSE fallback
           new == Adapted(p, all)
           renamed == req.native /\ row # None
<1>4. /\ to.provider \in Providers /\ to.model \in Models
      /\ ~renamed => to.model = req.model
  <2>1. row \in Target \cup {None}
    BY LookupFinds
  <2>2. CASE req.native
    <3>1. to = Resolve(req.provider, req.model, row)
      BY <2>2
    <3> HIDE DEF to
    <3>2. QED BY <1>1, <2>1, <2>2, <3>1, ResolveFinds
  <2>3. CASE ~req.native
    <3>1. to.provider = req.provider /\ to.model = req.model
      BY <2>3
    <3>2. QED BY <1>1, <3>1
  <2>4. QED BY <2>2, <2>3
<1>5. p \in Providers /\ p \in ProviderTypes
  <2>1. \A x \in Range(Chain) : x \in Providers
    BY PoliciesAssumption, LenProperties DEF Range
  <2>2. Providers \subseteq ProviderTypes
    BY PoliciesAssumption
  <2> HIDE DEF to
  <2>3. QED BY <1>4, <2>1, <2>2
<1>6. Conveys(req.msgs, all)
  <2>1. CASE req.native /\ req.system # None
    <3>1. Field \in Message /\ ~FromClient(Field)
      <4>1. req.system \in SUBSET Words
        BY <1>2, <2>1
      <4> DEFINE words == req.system
      <4>2. Field = [role |-> "system", by |-> "field", words |-> words, whole |-> TRUE]
        BY DEF Field
      <4>3. words \in SUBSET Words
        BY <4>1
      <4> HIDE DEF words
      <4>4. Field \in Message
        BY <4>2, <4>3 DEF Message, Authors
      <4>5. Field.by = "field"
        BY <4>2
      <4>6. QED BY <4>4, <4>5 DEF FromClient
    <3>2. Conveys(req.msgs, <<Field>> \o req.msgs)
      BY <1>2, <3>1, FieldConveys, Zenon
    <3>3. QED BY <2>1, <3>2
  <2>2. CASE ~(req.native /\ req.system # None)
    BY <1>2, <2>2, SameConveyed
  <2>3. QED BY <2>1, <2>2
<1> HIDE DEF all
<1>7. req' = [req EXCEPT !.pc = "sent", !.provider = p, !.called = to.model,
                         !.renamed = renamed, !.msgs = new]
  BY <1>3
<1>8. renamed \in BOOLEAN
  OBVIOUS
<1> HIDE DEF to, p, renamed
<1>9. new \in Seq(Message) /\ Masked(new, req.masked)
  <2>1. all \in Seq(Message) /\ Derives(all, req.msgs)
    BY <1>6 DEF Conveys
  <2>2. new \in Seq(Message) /\ Derives(new, all)
    BY <1>5, <2>1, AdaptedSends
  <2> HIDE DEF new
  <2>3. Masked(all, req.masked)
    BY <1>1, <2>1, DerivesKeeps, Zenon
  <2>4. QED BY <2>2, <2>3, DerivesKeeps, Zenon
<1>10. req.now # << >> =>
         /\ \A i \in DOMAIN req.judges : Fits(req.judges[i], req.model, new)
         /\ \A i \in DOMAIN req.judges :
               /\ Prompts(req.judges[i]) /\ Unreplaced(req.judges, i, Len(req.judges)) =>
                     \/ HasPrompt(new, req.judges[i])
                     \/ ~Replaces(req.judges[i]) /\ p \in OneSystemTypes
               /\ Replaces(req.judges[i]) => NoClientSystem(new)
  <2>1. SUFFICES ASSUME req.now # << >>
                 PROVE  /\ \A i \in DOMAIN req.judges : Fits(req.judges[i], req.model, new)
                        /\ \A i \in DOMAIN req.judges :
                              /\ Prompts(req.judges[i])
                                 /\ Unreplaced(req.judges, i, Len(req.judges)) =>
                                    \/ HasPrompt(new, req.judges[i])
                                    \/ ~Replaces(req.judges[i]) /\ p \in OneSystemTypes
                              /\ Replaces(req.judges[i]) => NoClientSystem(new)
    OBVIOUS
  <2>2. /\ \A i \in DOMAIN req.judges : Fits(req.judges[i], req.model, req.msgs)
        /\ Carries(req.judges, Len(req.judges), req.msgs)
    BY <1>1, <2>1 DEF Passed
  <2>3. QED BY <1>2, <1>5, <1>6, <2>2, SentOfPassed, Zenon
<1> HIDE DEF new
<1>11. /\ req' \in Request
       /\ req'.pc = "sent" /\ req'.now = req.now /\ req'.judges = req.judges
       /\ req'.provider = p /\ req'.model = req.model /\ req'.called = to.model
       /\ req'.renamed = renamed /\ req'.msgs = new /\ req'.masked = req.masked
  <2>1. "sent" \in Steps
    BY DEF Steps
  <2>2. req' \in Request
    BY <1>1, <1>4, <1>5, <1>7, <1>8, <1>9, <2>1 DEF Request
  <2>3. QED BY <1>1, <1>7, <2>2 DEF Request
<1>12. SentModel(req')
  <2>1. ASSUME NEW i \in DOMAIN req.judges, req.judges[i].type = "models", ~renamed
        PROVE  ~Rejects(req.judges[i], << >>, to.model)
    BY <1>1, <1>4, <2>1 DEF Passed
  <2>2. QED BY <1>11, <2>1 DEF SentModel
<1>13. SentPrompts(req')
  BY <1>10, <1>11 DEF SentPrompts
<1>14. Sent(req')
  BY <1>10, <1>11, <1>12, <1>13 DEF Sent
<1>15. QED BY <1>1, <1>5, <1>9, <1>11, <1>14 DEF ReqSound

(* A request's steps leave the tables alone.                                *)
LEMMA HandleSound ==
  ASSUME IInv, Handle
  PROVE  ReqSound(req') /\ UNCHANGED <<admin, loaded, reload>>
<1>1. TablesOK /\ ReqSound(req)
  BY DEF IInv
<1>2. CASE \E in \in Inputs : Receive(in)
  BY <1>1, <1>2, ReceiveSound DEF Receive
<1>3. CASE ResolveModel
  BY <1>1, <1>3, ResolveSound DEF ResolveModel
<1>4. CASE LoadPolicies
  BY <1>1, <1>4, LoadSound DEF LoadPolicies
<1>5. CASE Judge
  BY <1>1, <1>5, JudgeSound DEF Judge
<1>6. CASE \E verdict \in Threats \cup {"safe"} : GuardAnswers(verdict)
  BY <1>1, <1>6, GuardSound DEF GuardAnswers
<1>7. CASE Pass
  BY <1>1, <1>7, PassSound DEF Pass
<1>8. CASE \E fallback \in Range(Chain) \cup {None} : Send(fallback)
  BY <1>1, <1>8, SendSound DEF Send
<1>9. CASE \E text \in {DATA_LEAKAGE_PATTERNS, {}} : Answer(text)
  <2>1. \A text \in {DATA_LEAKAGE_PATTERNS, {}} : text \in SUBSET Words
    BY PoliciesAssumption
  <2>2. QED BY <1>1, <1>9, <2>1, AnswerSound DEF Answer
<1>10. CASE FilterAnswer
  BY <1>1, <1>10, FilterSound DEF FilterAnswer
<1>11. CASE Finish
  BY <1>11, IdleSound DEF Finish
<1>12. QED BY <1>2, <1>3, <1>4, <1>5, <1>6, <1>7, <1>8, <1>9, <1>10, <1>11 DEF Handle

-----------------------------------------------------------------------------
(* The steps of the admins and the restart.                                 *)

Rows == [on : Nat, off : Nat]

LEMMA FilterRows ==
  ASSUME TablesOK, NEW f \in Filters
  PROVE  filters[f] \in Rows /\ filters[f].on \in Nat /\ filters[f].off \in Nat
BY DEF TablesOK, Rows

LEMMA DumpTargets ==
  ASSUME NEW n \in DOMAIN Dump.aliases
  PROVE  Dump.aliases[n] \in Target
<1>1. Dump.aliases[n] \in Range(Dump.aliases)
  BY DEF Range
<1>2. QED BY <1>1, PoliciesAssumption

LEMMA EditKeeps ==
  ASSUME TablesOK, Edit
  PROVE  TablesOK' /\ req' = req
<1>1. edits' \in 0 .. MaxEdits
  BY PoliciesAssumption DEF TablesOK, Edit
<1>2. /\ filters \in [Filters -> Rows] /\ loaded \in SUBSET Filters
      /\ reload \in [Reloaders -> (SUBSET Filters) \cup {None}]
      /\ policies \in [Policies -> {"on", "off", "absent"}]
      /\ aliases \in [DOMAIN Seeded.aliases -> Target \cup {None, Off}]
  BY DEF TablesOK, Rows
<1>3. ASSUME NEW f \in Filters,
             NEW rows \in {<<1, 0>>, <<1, -1>>, <<-1, 1>>, <<-1, 0>>, <<0, -1>>},
             EditFilter(f, rows[1], rows[2])
      PROVE  TablesOK' /\ req' = req
  <2>1. rows[1] \in Int /\ rows[2] \in Int
    OBVIOUS
  <2> DEFINE on == filters[f].on + rows[1]
             off == filters[f].off + rows[2]
  <2>2. on \in Nat /\ off \in Nat
    BY <1>3, <2>1, FilterRows DEF EditFilter
  <2>3. filters' = [filters EXCEPT ![f] = [on |-> on, off |-> off]]
    BY <1>3 DEF EditFilter
  <2> HIDE DEF on, off
  <2>4. filters' \in [Filters -> Rows]
    BY <1>2, <2>2, <2>3 DEF Rows
  <2>5. UNCHANGED <<policies, aliases, loaded, reload, req>>
    BY <1>3 DEF EditFilter
  <2>6. QED BY <1>1, <1>2, <2>4, <2>5 DEF TablesOK, Rows
<1>4. ASSUME NEW p \in Policies, NEW state \in {"on", "off", "absent"}, EditPolicy(p, state)
      PROVE  TablesOK' /\ req' = req
  <2>1. policies' = [policies EXCEPT ![p] = state]
        /\ UNCHANGED <<filters, aliases, loaded, reload, req>>
    BY <1>4 DEF EditPolicy
  <2>2. policies' \in [Policies -> {"on", "off", "absent"}]
    BY <1>2, <2>1
  <2>3. QED BY <1>1, <1>2, <2>1, <2>2 DEF TablesOK, Rows
<1>5. ASSUME NEW p \in Policies, NEW q \in Policies, NEW state \in {"on", "off"},
             UpdatePolicy(p, q, state)
      PROVE  TablesOK' /\ req' = req
  <2>1. policies' = [policies EXCEPT ![p] = "absent", ![q] = state]
        /\ UNCHANGED <<filters, aliases, loaded, reload, req>>
    BY <1>5 DEF UpdatePolicy
  <2>2. policies' \in [Policies -> {"on", "off", "absent"}]
    BY <1>2, <2>1
  <2>3. QED BY <1>1, <1>2, <2>1, <2>2 DEF TablesOK, Rows
<1>6. ASSUME NEW n \in DOMAIN aliases, NEW to \in Targets \cup {None, Off}, EditAlias(n, to)
      PROVE  TablesOK' /\ req' = req
  <2>1. aliases' = [aliases EXCEPT ![n] = to]
        /\ UNCHANGED <<filters, policies, loaded, reload, req>>
    BY <1>6 DEF EditAlias
  <2>2. to \in Target \cup {None, Off}
    BY PoliciesAssumption
  <2>3. aliases' \in [DOMAIN Seeded.aliases -> Target \cup {None, Off}]
    BY <1>2, <2>1, <2>2
  <2>4. QED BY <1>1, <1>2, <2>1, <2>3 DEF TablesOK, Rows
<1>7. ASSUME NEW overwrite \in BOOLEAN, ImportConfig(overwrite)
      PROVE  TablesOK' /\ req' = req
  <2> DEFINE new == {f \in Dump.patterns : filters[f].on + filters[f].off = 0}
             more(f) == [filters[f] EXCEPT !.on = @ + 1]
             to(n) == IF n \in DOMAIN Dump.aliases /\ aliases[n] = None THEN Dump.aliases[n]
                      ELSE aliases[n]
  <2>1. /\ filters' = [f \in Filters |-> IF f \in (IF overwrite THEN Dump.patterns ELSE new)
                                         THEN more(f) ELSE filters[f]]
        /\ aliases' = [n \in DOMAIN aliases |-> to(n)]
        /\ UNCHANGED <<policies, loaded, reload, req>>
    BY <1>7 DEF ImportConfig
  <2>2. \A f \in Filters : more(f) \in Rows /\ filters[f] \in Rows
    BY FilterRows DEF Rows
  <2>3. \A n \in DOMAIN aliases : to(n) \in Target \cup {None, Off}
    BY <1>2, DumpTargets
  <2> HIDE DEF new, more, to
  <2>4. filters' \in [Filters -> Rows]
    BY <2>1, <2>2
  <2>5. aliases' \in [DOMAIN Seeded.aliases -> Target \cup {None, Off}]
    BY <1>2, <2>1, <2>3
  <2>6. QED BY <1>1, <1>2, <2>1, <2>4, <2>5 DEF TablesOK, Rows
<1>8. QED BY <1>3, <1>4, <1>5, <1>6, <1>7 DEF Edit

LEMMA ReloadKeeps ==
  ASSUME TablesOK, NEW a \in Reloaders, ReadFilters(a) \/ ReloadFilters(a)
  PROVE  TablesOK' /\ req' = req
<1>1. CASE ReadFilters(a)
  <2>1. Masks \in SUBSET Filters
    BY DEF Masks
  <2>2. reload' = [reload EXCEPT ![a] = Masks] /\ UNCHANGED <<admin, loaded, req>>
    BY <1>1 DEF ReadFilters
  <2> HIDE DEF Masks
  <2>3. reload' \in [Reloaders -> (SUBSET Filters) \cup {None}]
    BY <2>1, <2>2 DEF TablesOK
  <2>4. QED BY <2>2, <2>3 DEF TablesOK, admin
<1>2. CASE ReloadFilters(a)
  <2>1. /\ reload[a] # None /\ loaded' = reload[a]
        /\ reload' = [reload EXCEPT ![a] = None] /\ UNCHANGED <<admin, req>>
    BY <1>2 DEF ReloadFilters
  <2>2. loaded' \in SUBSET Filters
    BY <2>1 DEF TablesOK
  <2>3. reload' \in [Reloaders -> (SUBSET Filters) \cup {None}]
    BY <2>1 DEF TablesOK
  <2>4. QED BY <2>1, <2>2, <2>3 DEF TablesOK, admin
<1>3. QED BY <1>1, <1>2

LEMMA RestartKeeps ==
  ASSUME TablesOK, Restart
  PROVE  TablesOK' /\ ReqSound(req')
<1>1. /\ filters \in [Filters -> Rows]
      /\ policies \in [Policies -> {"on", "off", "absent"}]
      /\ aliases \in [DOMAIN Seeded.aliases -> Target \cup {None, Off}]
      /\ edits \in 0 .. MaxEdits
  BY DEF TablesOK, Rows
<1>2. filters' \in [Filters -> Rows]
  <2>1. [on |-> 1, off |-> 0] \in Rows
    BY DEF Rows
  <2>2. filters' = [f \in Filters |->
                      IF f \in Seeded.filters /\ filters[f].on + filters[f].off = 0
                      THEN [on |-> 1, off |-> 0] ELSE filters[f]]
    BY DEF Restart, SeedPatterns
  <2> DEFINE e(f) == IF f \in Seeded.filters /\ filters[f].on + filters[f].off = 0
                     THEN [on |-> 1, off |-> 0] ELSE filters[f]
  <2>3. \A f \in Filters : e(f) \in Rows
    BY <1>1, <2>1
  <2> HIDE DEF e
  <2>4. filters' = [f \in Filters |-> e(f)]
    BY <2>2 DEF e
  <2>5. QED BY <2>3, <2>4
<1>3. policies' \in [Policies -> {"on", "off", "absent"}]
  BY <1>1 DEF Restart, SeedPolicies
<1>4. aliases' \in [DOMAIN Seeded.aliases -> Target \cup {None, Off}]
  BY <1>1, PoliciesAssumption DEF Restart, SeedAliases
<1>5. loaded' \in SUBSET Filters
  BY DEF Restart
<1>6. reload' \in [Reloaders -> (SUBSET Filters) \cup {None}]
  BY DEF Restart
<1>7. req' = Idle /\ edits' = edits
  BY DEF Restart
<1>8. QED BY <1>1, <1>2, <1>3, <1>4, <1>5, <1>6, <1>7, IdleSound DEF TablesOK, Rows

LEMMA InitIInv == Init => IInv
<1> SUFFICES ASSUME Init PROVE IInv
  OBVIOUS
<1>1. filters \in [Filters -> [on : Nat, off : Nat]]
  <2>1. [on |-> 1, off |-> 0] \in Rows /\ [on |-> 0, off |-> 0] \in Rows
    BY DEF Rows
  <2> DEFINE e(f) == [on |-> IF f \in Seeded.filters THEN 1 ELSE 0, off |-> 0]
  <2>2. \A f : e(f) \in Rows
    BY <2>1 DEF Rows
  <2>3. filters = [f \in Filters |-> e(f)]
    BY DEF Init
  <2> HIDE DEF e
  <2>4. QED BY <2>2, <2>3 DEF Rows
<1>2. loaded \in SUBSET Filters
  BY PoliciesAssumption DEF Init
<1>3. reload \in [Reloaders -> (SUBSET Filters) \cup {None}]
  BY DEF Init
<1>4. policies \in [Policies -> {"on", "off", "absent"}]
  BY DEF Init
<1>5. aliases \in [DOMAIN Seeded.aliases -> Target \cup {None, Off}]
  BY PoliciesAssumption DEF Init
<1>6. edits \in 0 .. MaxEdits
  BY PoliciesAssumption DEF Init
<1>7. ReqSound(req)
  BY IdleSound DEF Init
<1>8. QED BY <1>1, <1>2, <1>3, <1>4, <1>5, <1>6, <1>7 DEF IInv, TablesOK

LEMMA NextIInv == IInv /\ [Next]_vars => IInv'
<1> SUFFICES ASSUME IInv, [Next]_vars PROVE IInv'
  OBVIOUS
<1>1. TablesOK /\ ReqSound(req)
  BY DEF IInv
<1>2. CASE Handle
  <2>1. ReqSound(req') /\ UNCHANGED <<admin, loaded, reload>>
    BY <1>2, HandleSound
  <2>2. TablesOK'
    BY <1>1, <2>1 DEF TablesOK, admin
  <2>3. QED BY <2>1, <2>2 DEF IInv
<1>3. CASE Edit
  BY <1>1, <1>3, EditKeeps DEF IInv
<1>4. CASE \E a \in Reloaders : ReadFilters(a) \/ ReloadFilters(a)
  BY <1>1, <1>4, ReloadKeeps DEF IInv
<1>5. CASE Restart
  BY <1>1, <1>5, RestartKeeps DEF IInv
<1>6. CASE UNCHANGED vars
  <2>1. req' = req /\ TablesOK'
    BY <1>1, <1>6 DEF vars, admin, TablesOK
  <2>2. QED BY <1>1, <2>1 DEF IInv
<1>7. QED BY <1>2, <1>3, <1>4, <1>5, <1>6 DEF Next

(* A request at each of its steps is sound, whatever the admin edits.       *)
THEOREM Invariance == Spec => []IInv
BY InitIInv, NextIInv, PTL DEF Spec

LEMMA IInvTypeOK == IInv => TypeOK
<1> SUFFICES ASSUME IInv PROVE TypeOK
  OBVIOUS
<1>1. /\ TablesOK /\ req \in Request
      /\ req.pc \in Steps \ {"idle", "resolve", "answered", "done"} =>
            req.provider \in Providers /\ req.model \in Models
  BY DEF IInv, ReqSound
<1>2. /\ req.pc \in Steps
      /\ {req.msgs, req.now} \subseteq Seq(Message)
      /\ {req.todo, req.judges} \subseteq Seq(Policies)
      /\ {req.answer, req.filtered} \subseteq (SUBSET Words) \cup {None}
  BY <1>1 DEF Request
<1>3. QED BY <1>1, <1>2 DEF TypeOK, TablesOK

(* Every variable has its type, and a resolved request has a provider and a *)
(* model, whatever alias, hint or default it got them from (llm_proxy.py:173). *)
THEOREM TypeCorrect == Spec => []TypeOK
BY Invariance, IInvTypeOK, PTL

LEMMA IInvFiltered == IInv => FilteredBeforeUse
<1> SUFFICES ASSUME IInv PROVE FilteredBeforeUse
  OBVIOUS
<1>1. Masked(req.msgs, req.masked) /\ Masked(req.now, req.masked)
  BY DEF IInv, ReqSound
<1>2. QED BY <1>1 DEF FilteredBeforeUse, Masked, FromClient

(* Neither the guard nor the provider gets a word of the client's that the  *)
(* patterns of its arrival mask (data_filter.py:55, main.py:353).           *)
THEOREM FilteredBeforeUseHolds == Spec => []FilteredBeforeUse
BY Invariance, IInvFiltered, PTL

LEMMA IInvOneVersion == IInv => OneVersionJudges
<1> SUFFICES ASSUME IInv, At("sent") PROVE OneVersionJudges
  BY DEF OneVersionJudges
<1>1. Sent(req)
  BY DEF IInv, ReqSound, At
<1>2. ASSUME NEW i \in DOMAIN req.judges
      PROVE  LET p == req.judges[i] IN
             /\ p.type \in {"topic"} \cup Threats =>
                   Emptied \/ ~Rejects(p, ByClient(req.msgs), req.model)
             /\ p.type = "topic" /\ p.action = "redact" =>
                   Emptied \/ Spotted(p, ByClient(req.msgs)) = {}
             /\ p.type = "models" => req.renamed \/ ~Rejects(p, << >>, req.called)
  BY <1>1 DEF Sent, SentModel, Fits, Emptied
<1>3. QED BY <1>2 DEF OneVersionJudges

(* What is sent satisfies every policy of the one version of the table that *)
(* was read for it, whatever is edited meanwhile (guardrails.py:241).       *)
THEOREM OneVersionJudgesHolds == Spec => []OneVersionJudges
BY Invariance, IInvOneVersion, PTL

LEMMA IInvPrompts == IInv => PromptsReachProvider
<1> SUFFICES ASSUME IInv, At("sent"), ~Emptied PROVE PromptsReachProvider
  BY DEF PromptsReachProvider
<1>1. SentPrompts(req) /\ req.now # << >>
  BY DEF IInv, ReqSound, At, Sent, Emptied
<1>2. ASSUME NEW i \in DOMAIN req.judges
      PROVE  LET p == req.judges[i] IN
             /\ p.type \in {"inject", "enforce"} /\ p.prompt # None /\ Stands(i) =>
                   Reached(p) \/ (~Replaces(p) /\ req.provider \in OneSystemTypes)
             /\ Replaces(p) => \A k \in DOMAIN req.msgs :
                   req.msgs[k].by = "client" => req.msgs[k].role # "system"
  <2> DEFINE p == req.judges[i]
  <2>1. /\ Prompts(p) /\ Unreplaced(req.judges, i, Len(req.judges)) =>
              HasPrompt(req.msgs, p) \/ (~Replaces(p) /\ req.provider \in OneSystemTypes)
        /\ Replaces(p) => NoClientSystem(req.msgs)
    BY <1>1 DEF SentPrompts
  <2>2. Stands(i) => Unreplaced(req.judges, i, Len(req.judges))
    BY DEF Stands, Unreplaced
  <2>3. HasPrompt(req.msgs, p) => Reached(p)
    BY DEF HasPrompt, SystemPrompt, Reached
  <2>4. Replaces(p) => \A k \in DOMAIN req.msgs :
                   req.msgs[k].by = "client" => req.msgs[k].role # "system"
    BY <2>1 DEF NoClientSystem, FromClient
  <2>5. p.type \in {"inject", "enforce"} /\ p.prompt # None => Prompts(p)
    BY DEF Prompts
  <2>6. QED BY <2>1, <2>2, <2>3, <2>4, <2>5
<1>3. QED BY <1>2 DEF PromptsReachProvider

(* The prompts of the policies reach the provider, unless a later policy    *)
(* replaces them, one puts the same words in their place or the adapter has *)
(* room for one only; a policy that replaces all others leaves no system    *)
(* message of the client's (guardrails.py:300, 304, 308; llm_proxy.py:80;   *)
(* anthropic_provider.py:31).                                               *)
THEOREM PromptsReachProviderHolds == Spec => []PromptsReachProvider
BY Invariance, IInvPrompts, PTL
================================================================================
