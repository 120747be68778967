--------------------------- MODULE SequenceLemmas ---------------------------
(***************************************************************************)
(* What cutting, joining and extending a queue does to the set of its      *)
(* elements and to their being all different.  The ownership proofs reason *)
(* with these facts and never look inside a sequence again.  The last part *)
(* counts what dealing tickets round robin gives each place, and says what *)
(* joining a sequence of sequences gives.                                  *)
(***************************************************************************)
EXTENDS Integers, Sequences, FiniteSets, SequencesExt, FiniteSetTheorems,
        WellFoundedInduction, TLAPS

\* s, cut into its first n elements p and the others q.
LEMMA Pieces ==
    ASSUME NEW S, NEW s \in Seq(S), NEW n \in Nat, n <= Len(s),
           NEW p \in Seq(S), NEW q \in Seq(S),
           Len(p) = n, \A i \in 1 .. n : p[i] = s[i],
           Len(q) = Len(s) - n, \A i \in 1 .. (Len(s) - n) : q[i] = s[n + i]
    PROVE  /\ ToSet(s) = ToSet(p) \cup ToSet(q)
           /\ IsInjective(s) => /\ IsInjective(p) /\ IsInjective(q)
                                /\ ToSet(p) \cap ToSet(q) = {}
<1>1. \A i \in 1 .. n : p[i] = s[i]
    OBVIOUS
<1>2. \A i \in 1 .. (Len(s) - n) : q[i] = s[n + i]
    OBVIOUS
<1>3. /\ DOMAIN p = 1 .. n /\ DOMAIN q = 1 .. (Len(s) - n)
      /\ DOMAIN s = 1 .. Len(s) /\ Len(s) \in Nat /\ n \in Nat /\ n <= Len(s)
    BY <1>1, <1>2
<1>4. ToSet(s) = ToSet(p) \cup ToSet(q)
    <2>1. ASSUME NEW i \in DOMAIN s
          PROVE  s[i] \in ToSet(p) \cup ToSet(q)
        <3>1. CASE i <= n
            BY <3>1, <1>1, <1>3 DEF ToSet
        <3>2. CASE i > n
            <4>1. i - n \in DOMAIN q /\ q[i - n] = s[i]
                BY <3>2, <1>2, <1>3
            <4> QED BY <4>1 DEF ToSet
        <3> QED BY <3>1, <3>2, <1>3
    <2>2. \A i \in DOMAIN p : p[i] \in ToSet(s)
        BY <1>1, <1>3 DEF ToSet
    <2>3. ASSUME NEW i \in DOMAIN q
          PROVE  q[i] \in ToSet(s)
        <3>1. n + i \in DOMAIN s /\ q[i] = s[n + i]
            BY <1>2, <1>3
        <3> QED BY <3>1 DEF ToSet
    <2> QED BY <2>1, <2>2, <2>3 DEF ToSet
<1>5. ASSUME IsInjective(s)
      PROVE  IsInjective(p) /\ IsInjective(q) /\ ToSet(p) \cap ToSet(q) = {}
    <2>1. IsInjective(p)
        BY <1>1, <1>3, <1>5 DEF IsInjective
    <2>2. IsInjective(q)
        <3> SUFFICES ASSUME NEW a \in DOMAIN q, NEW b \in DOMAIN q, q[a] = q[b]
                     PROVE  a = b
            BY DEF IsInjective
        <3>1. n + a \in DOMAIN s /\ n + b \in DOMAIN s /\ s[n + a] = s[n + b]
            BY <1>2, <1>3, SMTT(30)
        <3>2. n + a = n + b
            BY <3>1, <1>5 DEF IsInjective
        <3> QED BY <3>2, <1>3
    <2>3. ASSUME NEW a \in DOMAIN p, NEW b \in DOMAIN q
          PROVE  p[a] # q[b]
        <3>1. /\ a \in DOMAIN s /\ n + b \in DOMAIN s /\ a # n + b
              /\ p[a] = s[a] /\ q[b] = s[n + b]
            BY <1>1, <1>2, <1>3
        <3> QED BY <3>1, <1>5 DEF IsInjective
    <2> QED BY <2>1, <2>2, <2>3 DEF ToSet
<1> QED BY <1>4, <1>5

\* Cutting s after its first n elements.
LEMMA Cut ==
    ASSUME NEW S, NEW s \in Seq(S), NEW n \in Nat, n <= Len(s)
    PROVE  /\ SubSeq(s, 1, n) \in Seq(S) /\ Len(SubSeq(s, 1, n)) = n
           /\ SubSeq(s, n + 1, Len(s)) \in Seq(S)
           /\ Len(SubSeq(s, n + 1, Len(s))) = Len(s) - n
           /\ ToSet(s) = ToSet(SubSeq(s, 1, n)) \cup ToSet(SubSeq(s, n + 1, Len(s)))
           /\ IsInjective(s) =>
                 /\ IsInjective(SubSeq(s, 1, n)) /\ IsInjective(SubSeq(s, n + 1, Len(s)))
                 /\ ToSet(SubSeq(s, 1, n)) \cap ToSet(SubSeq(s, n + 1, Len(s))) = {}
<1> DEFINE p == SubSeq(s, 1, n)
           q == SubSeq(s, n + 1, Len(s))
<1>1. p \in Seq(S) /\ Len(p) = n /\ \A i \in 1 .. n : p[i] = s[i]
    OBVIOUS
<1>2. /\ q \in Seq(S) /\ Len(q) = Len(s) - n
      /\ \A i \in 1 .. (Len(s) - n) : q[i] = s[n + i]
    OBVIOUS
<1> HIDE DEF p, q
<1>3. /\ ToSet(s) = ToSet(p) \cup ToSet(q)
      /\ IsInjective(s) => /\ IsInjective(p) /\ IsInjective(q)
                           /\ ToSet(p) \cap ToSet(q) = {}
    BY <1>1, <1>2, Pieces
<1> QED BY <1>1, <1>2, <1>3, Zenon DEF p, q

\* Joining s and t.
LEMMA Joined ==
    ASSUME NEW S, NEW s \in Seq(S), NEW t \in Seq(S)
    PROVE  /\ s \o t \in Seq(S) /\ Len(s \o t) = Len(s) + Len(t)
           /\ ToSet(s \o t) = ToSet(s) \cup ToSet(t)
           /\ IsInjective(s) /\ IsInjective(t) /\ ToSet(s) \cap ToSet(t) = {}
                 => IsInjective(s \o t)
<1> DEFINE u == s \o t
<1>1. /\ u \in Seq(S) /\ Len(u) = Len(s) + Len(t)
      /\ \A i \in 1 .. Len(u) : u[i] = IF i <= Len(s) THEN s[i] ELSE t[i - Len(s)]
    OBVIOUS
<1>2. /\ DOMAIN u = 1 .. (Len(s) + Len(t)) /\ DOMAIN s = 1 .. Len(s)
      /\ DOMAIN t = 1 .. Len(t) /\ Len(s) \in Nat /\ Len(t) \in Nat
    BY <1>1
<1> HIDE DEF u
<1>3. ToSet(u) = ToSet(s) \cup ToSet(t)
    <2>1. ASSUME NEW i \in DOMAIN u
          PROVE  u[i] \in ToSet(s) \cup ToSet(t)
        <3>1. CASE i <= Len(s)
            BY <3>1, <1>1, <1>2 DEF ToSet
        <3>2. CASE i > Len(s)
            <4>1. i - Len(s) \in DOMAIN t /\ u[i] = t[i - Len(s)]
                BY <3>2, <1>1, <1>2
            <4> QED BY <4>1 DEF ToSet
        <3> QED BY <3>1, <3>2, <1>2
    <2>2. \A i \in DOMAIN s : i \in DOMAIN u /\ u[i] = s[i]
        BY <1>1, <1>2
    <2>3. \A i \in DOMAIN t : Len(s) + i \in DOMAIN u /\ u[Len(s) + i] = t[i]
        BY <1>1, <1>2
    <2> QED BY <2>1, <2>2, <2>3 DEF ToSet
<1>4. ASSUME IsInjective(s), IsInjective(t), ToSet(s) \cap ToSet(t) = {}
      PROVE  IsInjective(u)
    <2> SUFFICES ASSUME NEW a \in DOMAIN u, NEW b \in DOMAIN u, u[a] = u[b]
                 PROVE  a = b
        BY DEF IsInjective
    <2>1. \A i \in DOMAIN s, j \in DOMAIN t : s[i] # t[j]
        BY <1>4 DEF ToSet
    <2>2. CASE a <= Len(s) /\ b <= Len(s)
        BY <2>2, <1>1, <1>2, <1>4 DEF IsInjective
    <2>3. CASE a > Len(s) /\ b > Len(s)
        <3>1. /\ a - Len(s) \in DOMAIN t /\ b - Len(s) \in DOMAIN t
              /\ t[a - Len(s)] = t[b - Len(s)]
            BY <2>3, <1>1, <1>2
        <3>2. a - Len(s) = b - Len(s)
            BY <3>1, <1>4 DEF IsInjective
        <3> QED BY <3>2, <1>2
    <2>4. CASE a <= Len(s) /\ b > Len(s)
        <3>1. a \in DOMAIN s /\ b - Len(s) \in DOMAIN t /\ s[a] = t[b - Len(s)]
            BY <2>4, <1>1, <1>2
        <3> QED BY <3>1, <2>1
    <2>5. CASE a > Len(s) /\ b <= Len(s)
        <3>1. b \in DOMAIN s /\ a - Len(s) \in DOMAIN t /\ s[b] = t[a - Len(s)]
            BY <2>5, <1>1, <1>2
        <3> QED BY <3>1, <2>1
    <2> QED BY <2>2, <2>3, <2>4, <2>5, <1>2
<1> QED BY <1>1, <1>3, <1>4 DEF u

\* Where the elements of s and t are in the joined sequence.
LEMMA JoinedAt ==
    ASSUME NEW S, NEW s \in Seq(S), NEW t \in Seq(S)
    PROVE  /\ s \o t \in Seq(S) /\ Len(s \o t) = Len(s) + Len(t)
           /\ \A k \in 1 .. Len(s \o t) :
                 (s \o t)[k] = IF k <= Len(s) THEN s[k] ELSE t[k - Len(s)]
OBVIOUS

\* Two sequences of the same length and elements are the same.
LEMMA SameSeq ==
    ASSUME NEW S, NEW s \in Seq(S), NEW t \in Seq(S), Len(s) = Len(t),
           \A i \in 1 .. Len(s) : s[i] = t[i]
    PROVE  s = t
  OBVIOUS

\* Moving the first part of b to the end of r leaves r and b joined as they were.
LEMMA Resplit ==
    ASSUME NEW S, NEW r \in Seq(S), NEW b \in Seq(S), NEW n \in Nat, n <= Len(b)
    PROVE  (r \o SubSeq(b, 1, n)) \o SubSeq(b, n + 1, Len(b)) = r \o b
<1> DEFINE p == SubSeq(b, 1, n)
           q == SubSeq(b, n + 1, Len(b))
           u == r \o p
           v == u \o q
           w == r \o b
<1>1. p \in Seq(S) /\ Len(p) = n /\ \A i \in 1 .. n : p[i] = b[i]
  OBVIOUS
<1>2. q \in Seq(S) /\ Len(q) = Len(b) - n /\ \A i \in 1 .. Len(b) - n : q[i] = b[n + i]
  OBVIOUS
<1> HIDE DEF p, q
<1>3. /\ u \in Seq(S) /\ Len(u) = Len(r) + n
      /\ \A i \in 1 .. Len(u) : u[i] = IF i <= Len(r) THEN r[i] ELSE p[i - Len(r)]
  BY <1>1, SMTT(30)
<1> HIDE DEF u
<1>4. /\ v \in Seq(S) /\ Len(v) = Len(u) + Len(q)
      /\ \A i \in 1 .. Len(v) : v[i] = IF i <= Len(u) THEN u[i] ELSE q[i - Len(u)]
  BY <1>2, <1>3, JoinedAt
<1>5. /\ w \in Seq(S) /\ Len(w) = Len(r) + Len(b)
      /\ \A i \in 1 .. Len(w) : w[i] = IF i <= Len(r) THEN r[i] ELSE b[i - Len(r)]
  OBVIOUS
<1> HIDE DEF v, w
<1>6. Len(r) \in Nat /\ Len(b) \in Nat
  OBVIOUS
<1>7. Len(v) = Len(w)
  BY <1>2, <1>3, <1>4, <1>5, <1>6
<1>8. ASSUME NEW i \in 1 .. Len(v) PROVE v[i] = w[i]
  <2>1. CASE i <= Len(r)
    <3>1. i <= Len(u) /\ i \in 1 .. Len(u) /\ i \in 1 .. Len(w)
      BY <1>3, <1>6, <1>7, <2>1
    <3>2. v[i] = u[i] /\ u[i] = r[i] /\ w[i] = r[i]
      BY <1>3, <1>4, <1>5, <2>1, <3>1
    <3> QED BY <3>2
  <2>2. CASE i > Len(r) /\ i <= Len(r) + n
    <3>1. i - Len(r) \in 1 .. n /\ i <= Len(u)
      BY <1>3, <1>6, <2>2
    <3>2. v[i] = u[i] /\ u[i] = p[i - Len(r)] /\ w[i] = b[i - Len(r)]
      BY <1>3, <1>4, <1>5, <1>6, <1>7, <2>2, <3>1
    <3>3. p[i - Len(r)] = b[i - Len(r)]
      BY <1>1, <3>1
    <3> QED BY <3>2, <3>3
  <2>3. CASE i > Len(r) + n
    <3>1. i - Len(u) \in 1 .. Len(b) - n /\ ~(i <= Len(u)) /\ ~(i <= Len(r)) /\ n + (i - Len(u)) = i - Len(r)
      BY <1>2, <1>3, <1>4, <1>6, <2>3
    <3>2. v[i] = q[i - Len(u)] /\ w[i] = b[i - Len(r)]
      BY <1>4, <1>5, <1>7, <3>1
    <3>3. q[i - Len(u)] = b[n + (i - Len(u))]
      BY <1>2, <3>1
    <3> QED BY <3>1, <3>2, <3>3
  <2> QED BY <1>3, <1>4, <1>6, <2>1, <2>2, <2>3
<1>9. v = w
  BY <1>4, <1>5, <1>7, <1>8, SameSeq
<1> QED BY <1>9 DEF u, v, w, p, q

\* The first of r goes, or one more comes behind b.
LEMMA JoinedEnds ==
    ASSUME NEW S, NEW r \in Seq(S), NEW b \in Seq(S), NEW m \in S
    PROVE  /\ r \o Append(b, m) = Append(r \o b, m)
           /\ r # <<>> => Tail(r) \o b = Tail(r \o b)
           /\ r \o <<>> = r
<1>1. r \o Append(b, m) = Append(r \o b, m)
  OBVIOUS
<1>2. ASSUME r # <<>> PROVE Tail(r) \o b = Tail(r \o b)
  BY <1>2
<1>3. r \o <<>> = r
  OBVIOUS
<1> QED BY <1>1, <1>2, <1>3

\* The sequence of one element.
LEMMA Single ==
    ASSUME NEW S, NEW m \in S
    PROVE  /\ <<m>> \in Seq(S) /\ Len(<<m>>) = 1
           /\ ToSet(<<m>>) = {m} /\ IsInjective(<<m>>)
BY DEF ToSet, IsInjective

\* The empty sequence.
LEMMA Empty ==
    /\ ToSet(<<>>) = {} /\ IsInjective(<<>>) /\ Len(<<>>) = 0
    /\ \A S : <<>> \in Seq(S)
BY DEF ToSet, IsInjective

\* Appending m to s.
LEMMA Appended ==
    ASSUME NEW S, NEW s \in Seq(S), NEW m \in S
    PROVE  /\ Append(s, m) \in Seq(S) /\ Len(Append(s, m)) = Len(s) + 1
           /\ ToSet(Append(s, m)) = ToSet(s) \cup {m}
           /\ IsInjective(s) /\ m \notin ToSet(s) => IsInjective(Append(s, m))
<1> DEFINE t == <<m>>
<1>1. Append(s, m) = s \o t
    OBVIOUS
<1>2. t \in Seq(S) /\ Len(t) = 1 /\ ToSet(t) = {m} /\ IsInjective(t)
    BY Single
<1> HIDE DEF t
<1>3. /\ s \o t \in Seq(S) /\ Len(s \o t) = Len(s) + Len(t)
      /\ ToSet(s \o t) = ToSet(s) \cup ToSet(t)
      /\ IsInjective(s) /\ IsInjective(t) /\ ToSet(s) \cap ToSet(t) = {}
            => IsInjective(s \o t)
    BY <1>2, Joined, Zenon
<1> QED BY <1>1, <1>2, <1>3

\* Taking the first element off s.
LEMMA Headed ==
    ASSUME NEW S, NEW s \in Seq(S), s # <<>>
    PROVE  /\ Head(s) \in S /\ Tail(s) \in Seq(S) /\ Len(Tail(s)) = Len(s) - 1
           /\ ToSet(s) = {Head(s)} \cup ToSet(Tail(s))
           /\ IsInjective(s) => IsInjective(Tail(s)) /\ Head(s) \notin ToSet(Tail(s))
<1>1. Head(s) \in S /\ Head(s) = s[1] /\ Len(s) \in Nat /\ Len(s) >= 1
    OBVIOUS
<1>2. PICK t : t = Tail(s)
    OBVIOUS
<1>3. /\ t \in Seq(S) /\ Len(t) = Len(s) - 1
      /\ \A i \in 1 .. (Len(s) - 1) : t[i] = s[i + 1]
    BY <1>1, <1>2
<1>4. DOMAIN s = 1 .. Len(s) /\ DOMAIN t = 1 .. (Len(s) - 1)
    BY <1>3
<1>5. ToSet(s) = {Head(s)} \cup ToSet(t)
    <2>1. ASSUME NEW i \in DOMAIN s
          PROVE  s[i] \in {Head(s)} \cup ToSet(t)
        <3>1. CASE i = 1
            BY <3>1, <1>1
        <3>2. CASE i # 1
            <4>1. i - 1 \in DOMAIN t /\ t[i - 1] = s[i]
                BY <3>2, <1>1, <1>3, <1>4
            <4> QED BY <4>1 DEF ToSet
        <3> QED BY <3>1, <3>2
    <2>2. \A i \in DOMAIN t : i + 1 \in DOMAIN s /\ t[i] = s[i + 1]
        BY <1>1, <1>3, <1>4
    <2>3. 1 \in DOMAIN s
        BY <1>1, <1>4
    <2> QED BY <2>1, <2>2, <2>3, <1>1 DEF ToSet
<1>6. ASSUME IsInjective(s)
      PROVE  IsInjective(t) /\ Head(s) \notin ToSet(t)
    <2>1. \A i \in DOMAIN t : i + 1 \in DOMAIN s /\ t[i] = s[i + 1] /\ i + 1 # 1
        BY <1>1, <1>3, <1>4
    <2>2. Head(s) \notin ToSet(t)
        <3>1. 1 \in DOMAIN s
            BY <1>1, <1>4
        <3> QED BY <2>1, <3>1, <1>1, <1>6 DEF ToSet, IsInjective
    <2>3. ASSUME NEW a \in DOMAIN t, NEW b \in DOMAIN t, t[a] = t[b]
          PROVE  a = b
        <3>1. a + 1 = b + 1
            BY <2>1, <2>3, <1>6 DEF IsInjective
        <3> QED BY <3>1, <1>1, <1>4
    <2> QED BY <2>2, <2>3 DEF IsInjective
<1> QED BY <1>1, <1>2, <1>3, <1>5, <1>6

\* Taking the last element off s.
LEMMA Popped ==
    ASSUME NEW S, NEW s \in Seq(S), s # <<>>
    PROVE  /\ Last(s) \in S /\ Front(s) \in Seq(S) /\ Len(Front(s)) = Len(s) - 1
           /\ ToSet(s) = ToSet(Front(s)) \cup {Last(s)}
           /\ IsInjective(s) => IsInjective(Front(s)) /\ Last(s) \notin ToSet(Front(s))
<1>1. Len(s) \in Nat /\ Len(s) >= 1 /\ Last(s) \in S
    BY DEF Last
<1> DEFINE p == Front(s)
           q == <<Last(s)>>
           n == Len(s) - 1
<1>2. n \in Nat /\ n <= Len(s) /\ Len(s) - n = 1 /\ n + 1 = Len(s)
    BY <1>1
<1>3. p \in Seq(S) /\ Len(p) = n /\ \A i \in 1 .. n : p[i] = s[i]
    BY <1>1, <1>2 DEF Front
<1>4. q \in Seq(S) /\ Len(q) = 1 /\ ToSet(q) = {Last(s)} /\ q[1] = s[Len(s)]
    BY <1>1, Single DEF Last
<1>5. Len(q) = Len(s) - n /\ \A i \in 1 .. (Len(s) - n) : q[i] = s[n + i]
    BY <1>2, <1>4
<1> HIDE DEF p, q, n
<1>6. /\ ToSet(s) = ToSet(p) \cup ToSet(q)
      /\ IsInjective(s) => /\ IsInjective(p) /\ IsInjective(q)
                           /\ ToSet(p) \cap ToSet(q) = {}
    BY <1>2, <1>3, <1>4, <1>5, Pieces
<1>7. Len(p) = Len(s) - 1
    BY <1>3 DEF n
<1> QED BY <1>1, <1>3, <1>4, <1>6, <1>7 DEF p

\* r is s with x in place of the i-th element.
LEMMA Replaced ==
    ASSUME NEW S, NEW s \in Seq(S), NEW i \in DOMAIN s, NEW x \in S,
           IsInjective(s), x \notin ToSet(s),
           NEW r \in Seq(S), DOMAIN r = DOMAIN s, r[i] = x,
           \A j \in DOMAIN s \ {i} : r[j] = s[j]
    PROVE  IsInjective(r) /\ ToSet(r) = (ToSet(s) \ {s[i]}) \cup {x}
<1>1. \A j \in DOMAIN s : s[j] # x /\ (s[j] = s[i] => j = i)
    BY DEF ToSet, IsInjective
<1>2. IsInjective(r)
    BY <1>1 DEF IsInjective
<1>3. ToSet(r) = (ToSet(s) \ {s[i]}) \cup {x}
    BY <1>1 DEF ToSet
<1> QED BY <1>2, <1>3

-----------------------------------------------------------------------------
(* Dealing round robin: ticket m goes to place m % n.                      *)

\* Division with remainder.
LEMMA Quotient ==
    ASSUME NEW m \in Nat, NEW n \in Nat \ {0}
    PROVE  m % n \in 0 .. n - 1 /\ m \div n \in Nat /\ m = n * (m \div n) + (m % n)
  OBVIOUS

\* A positive multiple of n is at least n.
LEMMA Multiple ==
    ASSUME NEW q \in Int, NEW n \in Nat \ {0}, q >= 1
    PROVE  n * q >= n
  OBVIOUS

\* The remainder is unique.
LEMMA RemainderUnique ==
    ASSUME NEW n \in Nat \ {0}, NEW q \in Int, NEW p \in Int,
           NEW r \in 0 .. n - 1, NEW s \in 0 .. n - 1, n * q + r = n * p + s
    PROVE  r = s
<1>1. CASE q = p
  BY <1>1
<1>2. CASE q > p
  <2>1. n * (q - p) >= n
    BY <1>2, Multiple
  <2>2. n * (q - p) = n * q - n * p
    OBVIOUS
  <2> QED BY <2>1, <2>2
<1>3. CASE q < p
  <2>1. n * (p - q) >= n
    BY <1>3, Multiple
  <2>2. n * (p - q) = n * p - n * q
    OBVIOUS
  <2> QED BY <2>1, <2>2
<1> QED BY <1>1, <1>2, <1>3

\* What is written as n * q + r has the remainder r.
LEMMA RemainderOf ==
    ASSUME NEW x \in Nat, NEW n \in Nat \ {0}, NEW q \in Int, NEW r \in 0 .. n - 1,
           x = n * q + r
    PROVE  x % n = r
<1> DEFINE s == x % n
           p == x \div n
<1>1. s \in 0 .. n - 1 /\ p \in Int /\ x = n * p + s
  BY Quotient, SMTT(30)
<1> HIDE DEF s, p
<1>2. n * p + s = n * q + r
  BY <1>1
<1>3. s = r
  BY ONLY <1>1, <1>2, RemainderUnique, n \in Nat \ {0}, q \in Int, r \in 0 .. n - 1
<1> QED BY <1>3 DEF s

\* Moving a ticket within its round, or one round back.
LEMMA TicketMoves ==
    ASSUME NEW m \in Nat, NEW n \in Nat \ {0}, NEW d \in Int, (m % n) + d \in 0 .. n - 1
    PROVE  /\ m + d \in Nat /\ (m + d) % n = (m % n) + d
           /\ m # m % n => m - n + d \in Nat /\ (m - n + d) % n = (m % n) + d
<1> DEFINE q == m \div n
           r == m % n
<1>1. r \in 0 .. n - 1 /\ q \in Nat /\ m = n * q + r
  BY Quotient
<1> HIDE DEF q, r
<1>2. n * q >= 0
  BY <1>1
<1>3. r + d \in 0 .. n - 1
  BY DEF r
<1>4. m + d = n * q + (r + d) /\ m + d \in Nat
  BY <1>1, <1>2, <1>3
<1>5. (m + d) % n = r + d
  BY <1>1, <1>3, <1>4, RemainderOf
<1>6. ASSUME m # r PROVE m - n + d \in Nat /\ (m - n + d) % n = r + d
  <2>1. q >= 1
    <3>1. q # 0
      BY <1>1, <1>6
    <3> QED BY <1>1, <3>1
  <2>2. n * q >= n /\ q - 1 \in Int
    BY <1>1, <2>1, Multiple
  <2>3. n * (q - 1) = n * q - n
    BY <1>1
  <2>4. m - n + d = n * (q - 1) + (r + d) /\ m - n + d \in Nat
    BY <1>1, <1>3, <2>2, <2>3
  <2> QED BY <1>3, <2>2, <2>4, RemainderOf
<1> QED BY <1>4, <1>5, <1>6 DEF r

\* The tickets of T, counted from o on, that go to place a of n.
Dealt(T, o, n, a) == {i \in T : (i - o) % n = a}

\* Of t tickets, no remainder gets two more than another.
LEMMA EvenTickets ==
    ASSUME NEW t \in Nat, NEW o \in Nat, NEW n \in Nat \ {0},
           NEW a \in 0 .. n - 1, NEW b \in 0 .. n - 1, NEW T, T = o .. o + t - 1
    PROVE  Cardinality(Dealt(T, o, n, a)) <= Cardinality(Dealt(T, o, n, b)) + 1
<1> DEFINE A == {i \in T : (i - o) % n = a}
           B == {i \in T : (i - o) % n = b}
           C == IF a < b THEN A \ {a + o} ELSE A
           f == [i \in C |-> IF a < b THEN i - n + (b - a) ELSE i + (b - a)]
<1>1. IsFiniteSet(A) /\ IsFiniteSet(B)
  <2>1. IsFiniteSet(T)
    BY FS_Interval
  <2>2. A \subseteq T /\ B \subseteq T
    OBVIOUS
  <2> QED BY <2>1, <2>2, FS_Subset
<1>2. ASSUME NEW i \in C PROVE f[i] \in B
  <2>1. i \in T /\ i - o \in Nat /\ (i - o) % n = a /\ b - a \in Int
    OBVIOUS
  <2>2. ((i - o) % n) + (b - a) \in 0 .. n - 1 /\ ((i - o) % n) + (b - a) = b
    BY <2>1
  <2>3. /\ (i - o) + (b - a) \in Nat /\ ((i - o) + (b - a)) % n = ((i - o) % n) + (b - a)
        /\ (i - o) # (i - o) % n =>
               /\ (i - o) - n + (b - a) \in Nat
               /\ ((i - o) - n + (b - a)) % n = ((i - o) % n) + (b - a)
    BY <2>1, <2>2, TicketMoves
  <2>4. CASE a < b
    <3>1. i - o # (i - o) % n
      BY <2>1, <2>4
    <3>2. (i - n + (b - a)) - o = (i - o) - n + (b - a) /\ i - n + (b - a) <= o + t - 1
      BY <2>1
    <3> QED BY <2>1, <2>2, <2>3, <2>4, <3>1, <3>2
  <2>5. CASE ~(a < b)
    <3>1. (i + (b - a)) - o = (i - o) + (b - a) /\ i + (b - a) <= o + t - 1
      BY <2>1, <2>5
    <3> QED BY <2>1, <2>2, <2>3, <2>5, <3>1
  <2> QED BY <2>4, <2>5
<1>3. f \in Injection(C, B)
  <2>1. f \in [C -> B]
    BY <1>2
  <2>2. \A i, j \in C : f[i] = f[j] => i = j
    OBVIOUS
  <2> QED BY <2>1, <2>2 DEF Injection, IsInjective
<1> HIDE DEF f
<1>4. Cardinality(C) <= Cardinality(B)
  BY <1>1, <1>3, FS_Injection
<1>5. /\ Cardinality(A) \in Nat /\ Cardinality(B) \in Nat
      /\ IsFiniteSet(A \ {a + o})
      /\ Cardinality(A \ {a + o}) = IF a + o \in A THEN Cardinality(A) - 1 ELSE Cardinality(A)
  BY <1>1, FS_CardinalityType, FS_RemoveElement
<1> HIDE DEF A, B
<1>6. Cardinality(A) <= Cardinality(B) + 1
  BY <1>4, <1>5
<1> QED BY <1>6 DEF A, B, Dealt

-----------------------------------------------------------------------------
(* Induction over numbers, and the sequences FlattenSeq joins.             *)

\* Induction: a set with 0 and with n + 1 for every n it has.
LEMMA SetInduction ==
    ASSUME NEW S, 0 \in S, \A n \in Nat : n \in S => n + 1 \in S
    PROVE  \A n \in Nat : n \in S
<1> DEFINE T == {n \in Nat : n \notin S}
<1> DEFINE R == OpToRel(<, Nat)
<1>1. SUFFICES ASSUME T # {} PROVE FALSE
  OBVIOUS
<1>2. IsWellFoundedOn(R, Nat)
  BY NatLessThanWellFounded
<1>3. T \subseteq Nat
  OBVIOUS
<1> HIDE DEF T, R
<1>4. PICK x \in T : \A y \in T : ~(<<y, x>> \in R)
  BY <1>1, <1>2, <1>3, WFMin
<1> USE DEF T
<1>5. x \in Nat /\ x # 0
  BY <1>4
<1>6. x - 1 \in Nat /\ x - 1 < x
  BY <1>5
<1>7. <<x - 1, x>> \in R
  BY <1>5, <1>6 DEF R, OpToRel
<1>8. x - 1 \in S
  BY <1>4, <1>6, <1>7
<1>9. (x - 1) + 1 = x
  BY <1>5
<1> QED BY <1>4, <1>6, <1>8, <1>9

\* The equation of FlattenSeq's local function, up to n.
Flattens(f, q, n) ==
    \A i \in 1 .. n : f[i] = IF i = 1 THEN q[i] ELSE f[i - 1] \o q[i]

\* There is one for the first n sequences of q ...
LEMMA FlattenExists ==
    ASSUME NEW U, NEW q \in Seq(Seq(U))
    PROVE  \A n \in Nat : n <= Len(q) => \E f \in [1 .. n -> Seq(U)] : Flattens(f, q, n)
<1> DEFINE S == {n \in Nat : n <= Len(q) => \E f \in [1 .. n -> Seq(U)] : Flattens(f, q, n)}
<1>1. 0 \in S
  <2>1. [i \in 1 .. 0 |-> <<>>] \in [1 .. 0 -> Seq(U)] /\ \A i \in 1 .. 0 : FALSE
    OBVIOUS
  <2> QED BY <2>1 DEF Flattens
<1>2. ASSUME NEW n \in Nat, n \in S PROVE n + 1 \in S
  <2>1. SUFFICES ASSUME n + 1 <= Len(q)
                 PROVE  \E g \in [1 .. n + 1 -> Seq(U)] : Flattens(g, q, n + 1)
    OBVIOUS
  <2>2. n <= Len(q) /\ n + 1 \in 1 .. Len(q) /\ Len(q) \in Nat
    BY <2>1
  <2>3. PICK f \in [1 .. n -> Seq(U)] : Flattens(f, q, n)
    BY <1>2, <2>2
  <2> DEFINE x == IF n = 0 THEN q[1] ELSE f[n] \o q[n + 1]
             g == [i \in 1 .. n + 1 |-> IF i = n + 1 THEN x ELSE f[i]]
  <2>4. x \in Seq(U)
    <3>1. q[n + 1] \in Seq(U)
      BY <2>2
    <3>2. n # 0 => f[n] \in Seq(U)
      BY <2>3
    <3> QED BY <3>1, <3>2
  <2>5. g \in [1 .. n + 1 -> Seq(U)]
    <3> HIDE DEF x
    <3> QED BY <2>3, <2>4
  <2>6. \A i \in 1 .. n : g[i] = f[i]
    <3> HIDE DEF x
    <3>1. \A i \in 1 .. n : i \in 1 .. n + 1 /\ i # n + 1
      OBVIOUS
    <3> QED BY <3>1
  <2>7. g[n + 1] = IF n + 1 = 1 THEN q[n + 1] ELSE g[n] \o q[n + 1]
    <3>1. g[n + 1] = x
      OBVIOUS
    <3>2. n # 0 => n \in 1 .. n
      OBVIOUS
    <3> HIDE DEF g
    <3> QED BY <3>1, <3>2, <2>6
  <2>8. ASSUME NEW i \in 1 .. n PROVE g[i] = IF i = 1 THEN q[i] ELSE g[i - 1] \o q[i]
    <3>1. i # 1 => i - 1 \in 1 .. n
      OBVIOUS
    <3>2. f[i] = IF i = 1 THEN q[i] ELSE f[i - 1] \o q[i]
      BY <2>3 DEF Flattens
    <3> HIDE DEF g
    <3> QED BY <3>1, <3>2, <2>6
  <2>9. Flattens(g, q, n + 1)
    <3> HIDE DEF g
    <3>1. \A i \in 1 .. n + 1 : i = n + 1 \/ i \in 1 .. n
      OBVIOUS
    <3>2. (n + 1) - 1 = n
      OBVIOUS
    <3> QED BY <3>1, <3>2, <2>7, <2>8 DEF Flattens
  <2> HIDE DEF g
  <2> QED BY <2>5, <2>9
<1>3. \A n \in Nat : n \in S
  <2> HIDE DEF S
  <2> QED BY <1>1, <1>2, SetInduction
<1> QED BY <1>3

\* ... so the one FlattenSeq chooses satisfies its equation.
LEMMA FlattenIs ==
    ASSUME NEW U, NEW q \in Seq(Seq(U)), q # <<>>
    PROVE  \E f \in [1 .. Len(q) -> Seq(U)] : Flattens(f, q, Len(q)) /\ FlattenSeq(q) = f[Len(q)]
<1> DEFINE P(f) == f = [i \in 1 .. Len(q) |-> IF i = 1 THEN q[i] ELSE f[i - 1] \o q[i]]
           c == CHOOSE f : P(f)
<1>1. Len(q) \in Nat /\ Len(q) # 0
  OBVIOUS
<1>2. PICK f \in [1 .. Len(q) -> Seq(U)] : Flattens(f, q, Len(q))
  BY <1>1, FlattenExists, SMTT(30)
<1>3. P(f)
  BY <1>2 DEF Flattens
<1>4. P(c)
  BY <1>3
<1>5. FlattenSeq(q) = c[Len(q)]
  BY <1>1 DEF FlattenSeq
<1> HIDE DEF c
<1>6. Flattens(c, q, Len(q))
  BY <1>4 DEF Flattens
<1> DEFINE S == {n \in Nat : n + 1 \in 1 .. Len(q) => c[n + 1] \in Seq(U)}
<1>7. 0 \in S
  BY <1>1, <1>6 DEF Flattens
<1>8. ASSUME NEW n \in Nat, n \in S PROVE n + 1 \in S
  <2>1. SUFFICES ASSUME (n + 1) + 1 \in 1 .. Len(q) PROVE c[(n + 1) + 1] \in Seq(U)
    OBVIOUS
  <2>2. n + 1 \in 1 .. Len(q) /\ (n + 1) + 1 # 1 /\ ((n + 1) + 1) - 1 = n + 1
    BY <2>1, <1>1
  <2>3. c[(n + 1) + 1] = c[n + 1] \o q[(n + 1) + 1]
    BY <1>6, <2>1, <2>2 DEF Flattens
  <2>4. c[n + 1] \in Seq(U) /\ q[(n + 1) + 1] \in Seq(U)
    BY <1>8, <2>1, <2>2
  <2> QED BY <2>3, <2>4
<1>9. \A n \in Nat : n \in S
  <2> HIDE DEF S
  <2> QED BY <1>7, <1>8, SetInduction
<1>10. \A i \in 1 .. Len(q) : c[i] \in Seq(U)
  <2> TAKE i \in 1 .. Len(q)
  <2>1. i - 1 \in Nat /\ (i - 1) + 1 = i
    BY <1>1
  <2> QED BY <1>9, <2>1
<1>11. c \in [1 .. Len(q) -> Seq(U)]
  BY <1>4, <1>10
<1> QED BY <1>5, <1>6, <1>11

\* Sequences over U, joined, are a sequence over U.
LEMMA FlattenType ==
    ASSUME NEW U, NEW q \in Seq(Seq(U))
    PROVE  FlattenSeq(q) \in Seq(U)
<1>1. CASE q = <<>>
  <2>1. FlattenSeq(q) = <<>>
    BY <1>1 DEF FlattenSeq
  <2> QED BY <2>1
<1>2. CASE q # <<>>
  <2>1. PICK f \in [1 .. Len(q) -> Seq(U)] : FlattenSeq(q) = f[Len(q)]
    BY <1>2, FlattenIs
  <2>2. Len(q) \in 1 .. Len(q)
    BY <1>2
  <2> QED BY <2>1, <2>2
<1> QED BY <1>1, <1>2

\* A set of numbers has a least one.
LEMMA LeastOf ==
    ASSUME NEW I, I \subseteq Nat, I # {}
    PROVE  Min(I) \in I /\ \A x \in I : Min(I) <= x
<1> DEFINE R == OpToRel(<, Nat)
<1>1. IsWellFoundedOn(R, Nat)
  BY NatLessThanWellFounded
<1> HIDE DEF R
<1>2. PICK m \in I : \A y \in I : ~(<<y, m>> \in R)
  BY <1>1, WFMin
<1>3. \A y \in I : ~(y < m)
  BY <1>2 DEF R, OpToRel
<1>4. \A y \in I : m <= y
  BY <1>3
<1> QED BY <1>4 DEF Min

\* w is the sequences of q one after the other; the i-th one ends at o[i].
Splits(o, q, w) ==
    /\ o[0] = 0 /\ Len(w) = o[Len(q)]
    /\ \A i \in 1 .. Len(q) : o[i] = o[i - 1] + Len(q[i])
    /\ \A i \in 1 .. Len(q) : \A j \in 1 .. Len(q[i]) : w[o[i - 1] + j] = q[i][j]
    /\ \A i, j \in 0 .. Len(q) : i <= j => o[i] <= o[j]
    /\ \A x \in 1 .. Len(w) : \E i \in 1 .. Len(q) : o[i - 1] < x /\ x <= o[i]

\* Where the sequences of q end in their concatenation.
Offsets(q) == CHOOSE o : o \in [0 .. Len(q) -> Nat] /\ Splits(o, q, FlattenSeq(q))

\* What FlattenSeq has put together after n + 1 sequences: the ones before are a
\* beginning of it, and every place of it is in one of them.
LEMMA FlattenSplitsTo ==
    ASSUME NEW U, NEW q \in Seq(Seq(U)), NEW f \in [1 .. Len(q) -> Seq(U)], Flattens(f, q, Len(q))
    PROVE  \A n \in Nat : n < Len(q) =>
             /\ \A i \in 1 .. n + 1 : /\ Len(f[i]) <= Len(f[n + 1])
                                     /\ \A x \in 1 .. Len(f[i]) : f[n + 1][x] = f[i][x]
             /\ \A x \in 1 .. Len(f[n + 1]) :
                  \E i \in 1 .. n + 1 : (i = 1 \/ Len(f[i - 1]) < x) /\ x <= Len(f[i])
<1> DEFINE Q(n) ==
             /\ \A i \in 1 .. n + 1 : /\ Len(f[i]) <= Len(f[n + 1])
                                     /\ \A x \in 1 .. Len(f[i]) : f[n + 1][x] = f[i][x]
             /\ \A x \in 1 .. Len(f[n + 1]) :
                  \E i \in 1 .. n + 1 : (i = 1 \/ Len(f[i - 1]) < x) /\ x <= Len(f[i])
           S == {n \in Nat : n < Len(q) => Q(n)}
<1>0. Len(q) \in Nat /\ \A i \in 1 .. Len(q) : f[i] \in Seq(U) /\ q[i] \in Seq(U)
  BY SMTT(30)
<1>1. 0 \in S
  <2>1. ASSUME 0 < Len(q) PROVE Q(0)
    <3>1. f[1] \in Seq(U) /\ Len(f[1]) \in Nat /\ \A i \in 1 .. 0 + 1 : i = 1
      BY <1>0, <2>1
    <3> QED BY <3>1
  <2> HIDE DEF Q
  <2> QED BY <2>1
<1>2. ASSUME NEW n \in Nat, n \in S PROVE n + 1 \in S
  <2>1. SUFFICES ASSUME n + 1 < Len(q) PROVE Q(n + 1)
    <3> HIDE DEF Q
    <3> QED OBVIOUS
  <2>2. Q(n)
    <3> HIDE DEF Q
    <3> QED BY <1>0, <1>2, <2>1
  <2> DEFINE a == f[n + 1]
             b == q[(n + 1) + 1]
             c == f[(n + 1) + 1]
  <2>3. n + 1 \in 1 .. Len(q) /\ (n + 1) + 1 \in 1 .. Len(q) /\ ((n + 1) + 1) - 1 = n + 1 /\ (n + 1) + 1 # 1
    BY <1>0, <2>1
  <2>4. a \in Seq(U) /\ b \in Seq(U) /\ c = a \o b
    BY <1>0, <2>3 DEF Flattens
  <2>5. /\ Len(a) \in Nat /\ Len(b) \in Nat /\ Len(c) = Len(a) + Len(b)
        /\ \A x \in 1 .. Len(a) : c[x] = a[x]
    <3> HIDE DEF a, b, c
    <3> QED BY <2>4
  <2>6. \A i \in 1 .. (n + 1) + 1 : i \in 1 .. n + 1 \/ i = (n + 1) + 1
    OBVIOUS
  <2>7. ASSUME NEW i \in 1 .. (n + 1) + 1
        PROVE  Len(f[i]) <= Len(c) /\ \A x \in 1 .. Len(f[i]) : c[x] = f[i][x]
    <3>1. CASE i = (n + 1) + 1
      <4>1. f[i] = c
        BY <3>1
      <4>2. Len(c) \in Nat
        BY <1>0, <2>3
      <4> HIDE DEF c
      <4> QED BY <4>1, <4>2
    <3>2. CASE i \in 1 .. n + 1
      <4>1. Len(f[i]) <= Len(a) /\ (\A x \in 1 .. Len(f[i]) : a[x] = f[i][x])
        BY <2>2, <3>2
      <4>2. f[i] \in Seq(U) /\ Len(f[i]) \in Nat
        BY <1>0, <2>3, <3>2
      <4> HIDE DEF a, b, c
      <4> QED BY <2>5, <4>1, <4>2
    <3> QED BY <2>6, <3>1, <3>2
  <2>8. ASSUME NEW x \in 1 .. Len(c)
        PROVE  \E i \in 1 .. (n + 1) + 1 : (i = 1 \/ Len(f[i - 1]) < x) /\ x <= Len(f[i])
    <3>1. CASE x <= Len(a)
      <4>1. x \in 1 .. Len(a)
        BY <2>5, <3>1
      <4>2. PICK i \in 1 .. n + 1 : (i = 1 \/ Len(f[i - 1]) < x) /\ x <= Len(f[i])
        BY <2>2, <4>1
      <4> QED BY <4>2
    <3>2. CASE Len(a) < x
      <4>1. (n + 1) + 1 \in 1 .. (n + 1) + 1 /\ x <= Len(f[(n + 1) + 1])
        OBVIOUS
      <4> QED BY <2>3, <3>2, <4>1
    <3> QED BY <2>5, <3>1, <3>2
  <2> QED BY <2>7, <2>8
<1>3. \A n \in Nat : n \in S
  <2> HIDE DEF S
  <2> QED BY <1>1, <1>2, SetInduction
<1> HIDE DEF Q
<1>4. \A n \in Nat : n < Len(q) => Q(n)
  BY <1>3
<1> QED BY <1>4 DEF Q

\* FlattenSeq puts its sequences one after the other.
LEMMA FlattenSplits ==
    ASSUME NEW U, NEW q \in Seq(Seq(U))
    PROVE  Offsets(q) \in [0 .. Len(q) -> Nat] /\ Splits(Offsets(q), q, FlattenSeq(q))
<1>1. SUFFICES \E o : o \in [0 .. Len(q) -> Nat] /\ Splits(o, q, FlattenSeq(q))
  BY DEF Offsets
<1>2. CASE q = <<>>
  <2> DEFINE o == [i \in 0 .. 0 |-> 0]
  <2>1. FlattenSeq(q) = <<>> /\ Len(q) = 0 /\ Len(FlattenSeq(q)) = 0
    BY <1>2 DEF FlattenSeq
  <2>2. o \in [0 .. 0 -> Nat] /\ o[0] = 0 /\ \A i \in 0 .. 0 : i = 0
    OBVIOUS
  <2> HIDE DEF o
  <2>3. Splits(o, q, FlattenSeq(q))
    BY <2>1, <2>2 DEF Splits
  <2> QED BY <2>1, <2>2, <2>3
<1>3. CASE q # <<>>
  <2>1. PICK f \in [1 .. Len(q) -> Seq(U)] : Flattens(f, q, Len(q)) /\ FlattenSeq(q) = f[Len(q)]
    BY <1>3, FlattenIs
  <2> DEFINE m == Len(q)
             w == FlattenSeq(q)
             o == [i \in 0 .. m |-> IF i = 0 THEN 0 ELSE Len(f[i])]
  <2>2. m \in Nat /\ m # 0 /\ \A i \in 1 .. m : f[i] \in Seq(U) /\ q[i] \in Seq(U) /\ Len(f[i]) \in Nat /\ Len(q[i]) \in Nat
    BY <1>3, SMTT(30)
  <2>3. /\ o[0] = 0 /\ \A i \in 1 .. m : o[i] = Len(f[i])
        /\ o \in [0 .. m -> Nat]
    BY <2>2
  <2>4. /\ \A i \in 1 .. m : Len(f[i]) <= Len(w) /\ \A x \in 1 .. Len(f[i]) : w[x] = f[i][x]
        /\ \A x \in 1 .. Len(w) : \E i \in 1 .. m : (i = 1 \/ Len(f[i - 1]) < x) /\ x <= Len(f[i])
    <3>1. PICK n \in Nat : n < Len(q) /\ n + 1 = Len(q)
      <4>1. m - 1 \in Nat /\ m - 1 < m /\ (m - 1) + 1 = m
        BY <2>2
      <4> QED BY <4>1
    <3>2. /\ \A i \in 1 .. n + 1 : /\ Len(f[i]) <= Len(f[n + 1])
                                  /\ \A x \in 1 .. Len(f[i]) : f[n + 1][x] = f[i][x]
          /\ \A x \in 1 .. Len(f[n + 1]) :
               \E i \in 1 .. n + 1 : (i = 1 \/ Len(f[i - 1]) < x) /\ x <= Len(f[i])
      BY <2>1, <3>1, FlattenSplitsTo
    <3> QED BY <2>1, <3>1, <3>2
  <2>5. ASSUME NEW i \in 1 .. m, NEW j \in 1 .. m, i <= j PROVE Len(f[i]) <= Len(f[j])
    <3>1. j - 1 \in Nat /\ j - 1 < Len(q) /\ (j - 1) + 1 = j /\ i \in 1 .. j
      BY <2>2, <2>5
    <3> QED BY <2>1, <3>1, FlattenSplitsTo
  <2>6. Len(w) = o[m] /\ m \in 1 .. m
    BY <2>1, <2>2, <2>3
  <2> HIDE DEF o, m, w
  <2>7. ASSUME NEW i \in 1 .. m
        PROVE  o[i] = o[i - 1] + Len(q[i]) /\ \A j \in 1 .. Len(q[i]) : w[o[i - 1] + j] = q[i][j]
    <3>1. CASE i = 1
      <4>0. 1 \in 1 .. m /\ 1 \in 1 .. Len(q) /\ 1 - 1 = 0
        BY <2>2 DEF m
      <4>1. f[1] = q[1] /\ o[i - 1] = 0 /\ o[i] = Len(f[1])
        BY <2>1, <2>3, <3>1, <4>0 DEF Flattens
      <4>2. Len(q[1]) \in Nat /\ \A j \in 1 .. Len(q[1]) : w[j] = q[1][j]
        BY <2>2, <2>4, <4>0, <4>1
      <4>3. \A j \in 1 .. Len(q[1]) : 0 + j = j
        BY <4>2
      <4> QED BY <3>1, <4>1, <4>2, <4>3
    <3>2. CASE i # 1
      <4>1. i - 1 \in 1 .. m
        BY <2>2, <3>2
      <4>2. f[i] = f[i - 1] \o q[i]
        BY <2>1, <3>2 DEF Flattens, m
      <4> DEFINE a == f[i - 1]
                 b == q[i]
      <4>3. a \in Seq(U) /\ b \in Seq(U) /\ f[i] = a \o b /\ o[i - 1] = Len(a) /\ o[i] = Len(f[i])
        BY <2>2, <2>3, <4>1, <4>2
      <4> HIDE DEF a
      <4>4. /\ Len(f[i]) = Len(a) + Len(b) /\ Len(a) \in Nat /\ Len(b) \in Nat
            /\ \A j \in 1 .. Len(b) : f[i][Len(a) + j] = b[j] /\ Len(a) + j \in 1 .. Len(f[i])
        BY <4>3
      <4> QED BY <2>4, <4>3, <4>4
    <3> QED BY <3>1, <3>2
  <2>8. ASSUME NEW i \in 0 .. m, NEW j \in 0 .. m, i <= j PROVE o[i] <= o[j]
    <3>1. CASE i = 0
      BY <2>2, <2>3, <3>1
    <3>2. CASE i # 0
      <4>1. i \in 1 .. m /\ j \in 1 .. m
        BY <2>2, <2>8, <3>2
      <4> QED BY <2>3, <2>5, <2>8, <4>1
    <3> QED BY <3>1, <3>2
  <2>9. ASSUME NEW x \in 1 .. Len(w) PROVE \E i \in 1 .. m : o[i - 1] < x /\ x <= o[i]
    <3>1. PICK i \in 1 .. m : (i = 1 \/ Len(f[i - 1]) < x) /\ x <= Len(f[i])
      BY <2>4
    <3>2. CASE i = 1
      <4>1. o[i - 1] = 0 /\ o[i] = Len(f[i]) /\ 0 < x
        BY <2>3, <3>2
      <4> QED BY <3>1, <4>1
    <3>3. CASE i # 1
      <4>1. i - 1 \in 1 .. m
        BY <2>2, <3>3
      <4>2. o[i - 1] = Len(f[i - 1]) /\ o[i] = Len(f[i])
        BY <2>3, <4>1
      <4> QED BY <3>1, <3>3, <4>2
    <3> QED BY <3>2, <3>3
  <2>10. Splits(o, q, w)
    BY <2>3, <2>6, <2>7, <2>8, <2>9 DEF Splits, m
  <2> QED BY <2>3, <2>10 DEF m, w
<1> QED BY <1>2, <1>3
=============================================================================
