--------------------------- MODULE KeySpaceProofs ---------------------------
(***************************************************************************)
(* Proofs about the etcd key layout of the schema registry (KeyCodec and   *)
(* KeySpace).  The layout keeps identities apart, and its ranges and       *)
(* suffix filter select exactly what List, ListGroup and DeleteGroup mean  *)
(* to select, for every set of names in which group names hold no "/"     *)
(* (and, for ListGroup, entity names hold no "/" and none is the metadata  *)
(* key's name "__meta_group__").  Nothing in the code enforces these       *)
(* conditions; the runs key_nested, key_collision and key_meta_name show   *)
(* what goes wrong without them.                                           *)
(***************************************************************************)
EXTENDS KeySpace, TLAPS

\* No byte of b is "/" (47).
NoSlash(b) == \A i \in 1..Len(b) : b[i] # 47

\* The two conditions on names under which the layout is exact.
PlainGroupNames == \A g \in GroupNames : NoSlash(g)

PlainEntityNames ==
    \A n \in EntityNames : NoSlash(n) /\ n # Tail(GroupMetadataKey)



-----------------------------------------------------------------------------
(* Prefixes and suffixes of byte sequences.                                *)


LEMMA HasPrefixPointwise ==
    ASSUME NEW s \in Seq(Nat), NEW p \in Seq(Nat)
    PROVE  HasPrefix(s, p) <=> Len(p) <= Len(s) /\ \A i \in 1..Len(p) : s[i] = p[i]
BY DEF HasPrefix

LEMMA HasSuffixPointwise ==
    ASSUME NEW s \in Seq(Nat), NEW q \in Seq(Nat)
    PROVE  HasSuffix(s, q) <=>
               Len(q) <= Len(s) /\ \A i \in 1..Len(q) : s[Len(s) - Len(q) + i] = q[i]
<1> DEFINE k == Len(s) - Len(q)
           t == SubSeq(s, k + 1, Len(s))
<1>1. ASSUME Len(q) <= Len(s)
      PROVE  /\ t \in Seq(Nat) /\ Len(t) = Len(q)
             /\ \A i \in 1..Len(q) : t[i] = s[k + i]
  BY <1>1
<1>2. ASSUME Len(q) <= Len(s)
      PROVE  t = q <=> \A i \in 1..Len(q) : s[k + i] = q[i]
  <2>1. DOMAIN t = 1..Len(q) /\ DOMAIN q = 1..Len(q)
    BY <1>1, <1>2
  <2>2. ASSUME \A i \in 1..Len(q) : s[k + i] = q[i] PROVE t = q
    <3>1. \A i \in 1..Len(q) : t[i] = q[i]
      BY <1>1, <1>2, <2>2
    <3>. QED
      BY <1>1, <2>1, <3>1
  <2>. QED
    BY <1>1, <1>2, <2>2
<1>. QED
  BY <1>2 DEF HasSuffix

LEMMA PrefixOfCat ==
    ASSUME NEW s \in Seq(Nat), NEW t \in Seq(Nat)
    PROVE  HasPrefix(s \o t, s)
<1>1. /\ s \o t \in Seq(Nat)
      /\ Len(s) <= Len(s \o t)
      /\ \A i \in 1..Len(s) : (s \o t)[i] = s[i]
  OBVIOUS
<1>. QED
  BY <1>1, HasPrefixPointwise

LEMMA SuffixOfCat ==
    ASSUME NEW s \in Seq(Nat), NEW t \in Seq(Nat)
    PROVE  HasSuffix(s \o t, t)
<1>1. /\ s \o t \in Seq(Nat)
      /\ Len(t) <= Len(s \o t)
      /\ \A i \in 1..Len(t) : (s \o t)[Len(s \o t) - Len(t) + i] = t[i]
  OBVIOUS
<1>. QED
  BY <1>1, HasSuffixPointwise

LEMMA CatAssoc ==
    ASSUME NEW s \in Seq(Nat), NEW t \in Seq(Nat), NEW u \in Seq(Nat)
    PROVE  (s \o t) \o u = s \o (t \o u)
OBVIOUS

\* A concatenation starts with the first byte of its head.
LEMMA CatHead ==
    ASSUME NEW s \in Seq(Nat), NEW t \in Seq(Nat), Len(s) > 0
    PROVE  s \o t \in Seq(Nat) /\ Len(s \o t) > 0 /\ (s \o t)[1] = s[1]
OBVIOUS

\* Concatenations with a common head are equal only when the tails are.
LEMMA CatCancel ==
    ASSUME NEW s \in Seq(Nat), NEW t \in Seq(Nat), NEW u \in Seq(Nat),
           s \o t = s \o u
    PROVE  t = u
<1>1. Len(t) = Len(u)
  OBVIOUS
<1>2. \A i \in 1..Len(t) : t[i] = (s \o t)[Len(s) + i] /\ u[i] = (s \o u)[Len(s) + i]
  OBVIOUS
<1>. QED
  BY <1>1, <1>2

-----------------------------------------------------------------------------
(* The range [p, incrementLastByte(p)) that listWithPrefix and DeleteGroup *)
(* read or delete holds exactly the keys that start with p, as long as the *)
(* last byte of p is not 0xFF (where the increment wraps to 0x00 and the    *)
(* range is empty).  Every prefix the registry uses ends in "/".           *)

\* Below 0xFF, incrementLastByte adds one to the last byte and keeps the rest.
LEMMA IncrementLast ==
    ASSUME NEW p \in Seq(Nat), p # <<>>, p[Len(p)] < 255
    PROVE  LET n == Len(p)
               q == incrementLastByte(p)
           IN  /\ q \in Seq(Nat) /\ Len(q) = n /\ q[n] = p[n] + 1
               /\ \A i \in 1..n - 1 : q[i] = p[i]
<1> DEFINE n == Len(p)
           q == incrementLastByte(p)
<1>1. n \in Nat \ {0} /\ p[n] \in Nat /\ p[n] < 255
  OBVIOUS
<1>2. (p[n] + 1) % 256 = p[n] + 1
  BY <1>1
<1>3. q = [p EXCEPT ![n] = p[n] + 1]
  BY <1>2 DEF incrementLastByte
<1>4. p[n] + 1 \in Nat
  BY <1>1
<1>. QED
  BY <1>1, <1>3, <1>4

\* The range of a prefix is its set of extensions, when its last byte is
\* below 0xFF (etcd.go:499 and :583-587).
THEOREM RangePrefix ==
    ASSUME NEW p \in Seq(Nat), p # <<>>, p[Len(p)] < 255, NEW x \in Seq(Nat)
    PROVE  InRange(x, p, incrementLastByte(p)) <=> HasPrefix(x, p)
<1> DEFINE n == Len(p)
           q == incrementLastByte(p)
<1>1. /\ q \in Seq(Nat) /\ Len(q) = n /\ q[n] = p[n] + 1
      /\ \A i \in 1..n - 1 : q[i] = p[i]
  BY IncrementLast
<1>2. ASSUME HasPrefix(x, p) PROVE ~KeyLess(x, p)
  <2>1. n <= Len(x) /\ \A i \in 1..n : x[i] = p[i]
    BY <1>2, HasPrefixPointwise
  <2>2. ~(Len(x) < Len(p))
    BY <2>1
  <2>3. ~\E i \in 1..Len(x) : i <= Len(p) /\ x[i] < p[i]
    BY <2>1
  <2>. QED
    BY <2>2, <2>3 DEF KeyLess
<1>3. ASSUME HasPrefix(x, p) PROVE KeyLess(x, q)
  <2>0. n <= Len(x) /\ \A i \in 1..n : x[i] = p[i]
    BY <1>3, HasPrefixPointwise
  <2>1. /\ n \in 1..Len(x) /\ n <= Len(q)
        /\ SubSeq(x, 1, n - 1) = SubSeq(q, 1, n - 1)
        /\ x[n] < q[n]
    BY <1>1, <2>0
  <2>. QED
    BY <2>1 DEF KeyLess
<1>4. ASSUME ~KeyLess(x, p), KeyLess(x, q) PROVE HasPrefix(x, p)
  <2>1. CASE Len(x) < Len(q) /\ HasPrefix(q, x)
    <3>0. \A i \in 1..Len(x) : q[i] = x[i]
      BY <2>1, <1>1, HasPrefixPointwise
    <3>1. Len(x) < Len(p) /\ \A i \in 1..Len(x) : p[i] = x[i]
      BY <2>1, <3>0, <1>1
    <3>2. HasPrefix(p, x)
      BY <3>1, HasPrefixPointwise
    <3>. QED
      BY <3>1, <3>2, <1>4 DEF KeyLess
  <2>2. CASE \E i \in 1..Len(x) :
               /\ i <= Len(q)
               /\ SubSeq(x, 1, i - 1) = SubSeq(q, 1, i - 1)
               /\ x[i] < q[i]
    <3>1. PICK i \in 1..Len(x) :
               /\ i <= Len(q)
               /\ SubSeq(x, 1, i - 1) = SubSeq(q, 1, i - 1)
               /\ x[i] < q[i]
      BY <2>2
    <3>2. SubSeq(x, 1, i - 1) = SubSeq(p, 1, i - 1)
      BY <3>1, <1>1
    <3>3. CASE i < n
      <4>1. i \in 1..Len(x) /\ i <= Len(p) /\ SubSeq(x, 1, i - 1) = SubSeq(p, 1, i - 1)
            /\ x[i] < p[i]
        BY <3>1, <3>2, <3>3, <1>1, SMTT(30)
      <4>. QED
        BY <4>1, <1>4 DEF KeyLess
    <3>4. CASE i = n
      <4>1. ~(x[n] < p[n])
        <5>1. SUFFICES ASSUME x[n] < p[n] PROVE FALSE
          OBVIOUS
        <5>2. /\ i \in 1..Len(x) /\ i <= Len(p)
              /\ SubSeq(x, 1, i - 1) = SubSeq(p, 1, i - 1) /\ x[i] < p[i]
          BY <3>1, <3>2, <3>4, <5>1
        <5>. QED
          BY <5>2, <1>4 DEF KeyLess
      <4>2. x[n] = p[n]
        BY <4>1, <3>1, <3>4, <1>1
      <4>3. n <= Len(x) /\ \A j \in 1..n : x[j] = p[j]
        <5>1. \A j \in 1..n - 1 : x[j] = p[j]
          BY <3>2, <3>4
        <5>. QED
          BY <5>1, <4>2, <3>4
      <4>. QED
        BY <4>3, HasPrefixPointwise
    <3>. QED
      BY <3>1, <3>3, <3>4, <1>1
  <2>. QED
    BY <1>4, <2>1, <2>2 DEF KeyLess
<1>. QED
  BY <1>2, <1>3, <1>4 DEF InRange

-----------------------------------------------------------------------------
(* A name that holds no "/" and is followed by "/" is read back exactly:   *)
(* X + h + r starts with X + g + u, where r and u start with "/", only     *)
(* when h is g and r starts with u.                                        *)

\* The bytes of X + h + r, position by position.
LEMMA CatIndex ==
    ASSUME NEW X \in Seq(Nat), NEW h \in Seq(Nat), NEW r \in Seq(Nat)
    PROVE  /\ X \o h \o r \in Seq(Nat)
           /\ Len(X \o h \o r) = Len(X) + Len(h) + Len(r)
           /\ \A j \in 1..Len(X) : (X \o h \o r)[j] = X[j]
           /\ \A j \in 1..Len(h) : (X \o h \o r)[Len(X) + j] = h[j]
           /\ \A j \in 1..Len(r) : (X \o h \o r)[Len(X) + Len(h) + j] = r[j]
OBVIOUS

\* Two byte sequences of one length that agree everywhere are equal.
LEMMA SeqEqual ==
    ASSUME NEW s \in Seq(Nat), NEW t \in Seq(Nat),
           Len(s) = Len(t), \A j \in 1..Len(s) : s[j] = t[j]
    PROVE  s = t
OBVIOUS

\* K = X + h + r and P = X + g + u, where |X| = a, |g| = lg, |h| = lh,
\* |r| = lr, |u| = lu, g and h hold no "/", and r and u start with "/".
DirLayout(a, lg, lh, lr, lu, K, P, g, h, r, u) ==
    /\ {a, lg, lh, lr, lu} \subseteq Nat
    /\ lr > 0 /\ lu > 0 /\ r[1] = 47 /\ u[1] = 47
    /\ \A j \in 1..lg : g[j] # 47
    /\ \A j \in 1..lh : h[j] # 47
    /\ \A j \in 1..lh : K[a + j] = h[j]
    /\ \A j \in 1..lr : K[a + lh + j] = r[j]
    /\ \A j \in 1..lg : P[a + j] = g[j]
    /\ \A j \in 1..lu : P[a + lg + j] = u[j]

\* K starts with P, position by position.
DirMatch(a, lg, lh, lr, lu, K, P) ==
    a + lg + lu <= a + lh + lr /\ \A j \in 1..a + lg + lu : K[j] = P[j]

\* Then g is h and r starts with u.
DirSame(lg, lh, lr, lu, g, h, r, u) ==
    /\ lg = lh /\ \A j \in 1..lg : g[j] = h[j]
    /\ lu <= lr /\ \A j \in 1..lu : r[j] = u[j]

\* The heart of DirPrefix, over lengths and positions only: when K starts
\* with P, a byte that is "/" on one side and not on the other stops a
\* shorter name from matching.
LEMMA DirCore ==
    \A a, lg, lh, lr, lu, K, P, g, h, r, u :
        (DirLayout(a, lg, lh, lr, lu, K, P, g, h, r, u) /\ DirMatch(a, lg, lh, lr, lu, K, P))
            => DirSame(lg, lh, lr, lu, g, h, r, u)
<1> SUFFICES ASSUME NEW a, NEW lg, NEW lh, NEW lr, NEW lu,
                    NEW K, NEW P, NEW g, NEW h, NEW r, NEW u,
                    DirLayout(a, lg, lh, lr, lu, K, P, g, h, r, u),
                    DirMatch(a, lg, lh, lr, lu, K, P)
             PROVE  DirSame(lg, lh, lr, lu, g, h, r, u)
  OBVIOUS
<1> USE DEF DirLayout, DirMatch, DirSame
<1>1. ~(lg < lh)
  <2>1. SUFFICES ASSUME lg < lh PROVE FALSE
    OBVIOUS
  <2>2. lg + 1 \in 1..lh /\ 1 \in 1..lu /\ a + lg + 1 \in 1..a + lg + lu
    BY <2>1
  <2>. QED
    BY <2>2
<1>2. ~(lh < lg)
  <2>1. SUFFICES ASSUME lh < lg PROVE FALSE
    OBVIOUS
  <2>2. lh + 1 \in 1..lg /\ 1 \in 1..lr /\ a + lh + 1 \in 1..a + lg + lu
    BY <2>1
  <2>. QED
    BY <2>2
<1>3. \A j \in 1..lg : g[j] = h[j]
  BY <1>1, <1>2
<1>4. \A j \in 1..lu : r[j] = u[j]
  BY <1>1, <1>2
<1>. QED
  BY <1>1, <1>2, <1>3, <1>4

\* P and K agree on X.
DirHead(a, K, P) == \A j \in 1..a : K[j] = P[j]

LEMMA DirCoreBack ==
    \A a, lg, lh, lr, lu, K, P, g, h, r, u :
        (/\ DirLayout(a, lg, lh, lr, lu, K, P, g, h, r, u)
         /\ DirHead(a, K, P)
         /\ DirSame(lg, lh, lr, lu, g, h, r, u))
            => DirMatch(a, lg, lh, lr, lu, K, P)
<1> SUFFICES ASSUME NEW a, NEW lg, NEW lh, NEW lr, NEW lu,
                    NEW K, NEW P, NEW g, NEW h, NEW r, NEW u,
                    DirLayout(a, lg, lh, lr, lu, K, P, g, h, r, u),
                    DirHead(a, K, P),
                    DirSame(lg, lh, lr, lu, g, h, r, u)
             PROVE  DirMatch(a, lg, lh, lr, lu, K, P)
  OBVIOUS
<1> USE DEF DirLayout, DirHead, DirSame, DirMatch
<1>1. a + lg + lu <= a + lh + lr
  OBVIOUS
<1>2. ASSUME NEW j \in 1..a + lg + lu PROVE K[j] = P[j]
  <2>1. CASE j <= a
    BY <2>1
  <2>2. CASE j > a /\ j <= a + lg
    <3>1. j - a \in 1..lg /\ j - a \in 1..lh /\ j = a + (j - a)
      BY <2>2
    <3>. QED
      BY <3>1
  <2>3. CASE j > a + lg
    <3>1. j - a - lg \in 1..lu /\ j - a - lg \in 1..lr /\ j = a + lg + (j - a - lg)
          /\ j = a + lh + (j - a - lg)
      BY <2>3
    <3>. QED
      BY <3>1
  <2>. QED
    BY <2>1, <2>2, <2>3
<1>. QED
  BY <1>1, <1>2

LEMMA DirPrefix ==
    ASSUME NEW X \in Seq(Nat), NEW g \in Seq(Nat), NEW h \in Seq(Nat),
           NEW r \in Seq(Nat), NEW u \in Seq(Nat),
           NoSlash(g), NoSlash(h), r # <<>>, r[1] = 47, u # <<>>, u[1] = 47
    PROVE  HasPrefix(X \o h \o r, X \o g \o u) <=> g = h /\ HasPrefix(r, u)
<1> DEFINE K == X \o h \o r
           P == X \o g \o u
<1>0. PICK a, lg, lh, lr, lu \in Nat :
          a = Len(X) /\ lg = Len(g) /\ lh = Len(h) /\ lr = Len(r) /\ lu = Len(u)
  OBVIOUS
<1>1. /\ K \in Seq(Nat) /\ Len(K) = a + lh + lr
      /\ \A j \in 1..a : K[j] = X[j]
      /\ \A j \in 1..lh : K[a + j] = h[j]
      /\ \A j \in 1..lr : K[a + lh + j] = r[j]
  <2>1. /\ K \in Seq(Nat) /\ Len(K) = Len(X) + Len(h) + Len(r)
        /\ \A j \in 1..Len(X) : K[j] = X[j]
        /\ \A j \in 1..Len(h) : K[Len(X) + j] = h[j]
        /\ \A j \in 1..Len(r) : K[Len(X) + Len(h) + j] = r[j]
    OBVIOUS
  <2>. QED
    BY <2>1, <1>0, Zenon
<1>2. /\ P \in Seq(Nat) /\ Len(P) = a + lg + lu
      /\ \A j \in 1..a : P[j] = X[j]
      /\ \A j \in 1..lg : P[a + j] = g[j]
      /\ \A j \in 1..lu : P[a + lg + j] = u[j]
  <2>1. /\ P \in Seq(Nat) /\ Len(P) = Len(X) + Len(g) + Len(u)
        /\ \A j \in 1..Len(X) : P[j] = X[j]
        /\ \A j \in 1..Len(g) : P[Len(X) + j] = g[j]
        /\ \A j \in 1..Len(u) : P[Len(X) + Len(g) + j] = u[j]
    OBVIOUS
  <2>. QED
    BY <2>1, <1>0, Zenon
<1>3. /\ lr > 0 /\ lu > 0
      /\ \A j \in 1..lg : g[j] # 47
      /\ \A j \in 1..lh : h[j] # 47
  BY <1>0 DEF NoSlash
<1> HIDE DEF K, P
<1>4. ASSUME HasPrefix(K, P) PROVE g = h /\ HasPrefix(r, u)
  <2>0. K \in Seq(Nat) /\ P \in Seq(Nat)
    BY <1>1, <1>2
  <2>1. Len(P) <= Len(K) /\ \A j \in 1..Len(P) : K[j] = P[j]
    BY <2>0, <1>4, HasPrefixPointwise, Zenon
  <2>2. /\ lg = lh /\ \A j \in 1..lg : g[j] = h[j]
        /\ lu <= lr /\ \A j \in 1..lu : r[j] = u[j]
    <3>1. DirMatch(a, lg, lh, lr, lu, K, P)
      BY <2>1, <1>1, <1>2 DEF DirMatch
    <3>2. DirLayout(a, lg, lh, lr, lu, K, P, g, h, r, u)
      BY <1>0, <1>1, <1>2, <1>3 DEF DirLayout
    <3>3. DirSame(lg, lh, lr, lu, g, h, r, u)
      BY ONLY <3>1, <3>2, DirCore
    <3>. QED
      BY <3>3 DEF DirSame
  <2>. QED
    BY <2>2, <1>0, SeqEqual, HasPrefixPointwise
<1>5. ASSUME g = h, HasPrefix(r, u) PROVE HasPrefix(K, P)
  <2>1. lu <= lr /\ \A j \in 1..lu : r[j] = u[j]
    BY <1>0, <1>5, HasPrefixPointwise
  <2>2. DirSame(lg, lh, lr, lu, g, h, r, u)
    BY <2>1, <1>0, <1>5 DEF DirSame
  <2>3. DirLayout(a, lg, lh, lr, lu, K, P, g, h, r, u) /\ DirHead(a, K, P)
    BY <1>0, <1>1, <1>2, <1>3 DEF DirLayout, DirHead
  <2>4. DirMatch(a, lg, lh, lr, lu, K, P)
    BY ONLY <2>2, <2>3, DirCoreBack
  <2>5. Len(P) <= Len(K) /\ \A j \in 1..Len(P) : K[j] = P[j]
    BY <2>4, <1>1, <1>2 DEF DirMatch
  <2>6. K \in Seq(Nat) /\ P \in Seq(Nat)
    BY <1>1, <1>2
  <2>. QED
    BY <2>5, <2>6, HasPrefixPointwise, Zenon
<1>. QED
  BY <1>4, <1>5 DEF K, P

-----------------------------------------------------------------------------
(* The literals of etcd.go:52-57.                                          *)

Kinds == {"stream", "measure", "indexRule", "indexRuleBinding"}

\* Every prefix starts and ends with "/"; the metadata key starts with "/"
\* and holds no other.
LEMMA Literals ==
    /\ GroupsKeyPrefix \in Seq(Nat) /\ Len(GroupsKeyPrefix) = 8
    /\ GroupsKeyPrefix[8] = 47
    /\ GroupMetadataKey \in Seq(Nat) /\ Len(GroupMetadataKey) = 15
    /\ GroupMetadataKey[1] = 47 /\ GroupMetadataKey[2] = 95
    /\ \A j \in 2..15 : GroupMetadataKey[j] # 47
    /\ \A k \in Kinds :
          /\ EntityPrefix(k) \in Seq(Nat) /\ Len(EntityPrefix(k)) >= 9
          /\ EntityPrefix(k)[1] = 47 /\ EntityPrefix(k)[2] # 95
          /\ EntityPrefix(k)[Len(EntityPrefix(k))] = 47
<1>1. /\ GroupsKeyPrefix \in Seq(Nat) /\ Len(GroupsKeyPrefix) = 8
      /\ GroupsKeyPrefix[8] = 47
  BY DEF GroupsKeyPrefix
<1>2. /\ GroupMetadataKey \in Seq(Nat) /\ Len(GroupMetadataKey) = 15
      /\ GroupMetadataKey[1] = 47 /\ GroupMetadataKey[2] = 95
      /\ \A j \in 2..15 : GroupMetadataKey[j] # 47
  BY DEF GroupMetadataKey
<1>3. ASSUME NEW k \in Kinds
      PROVE  /\ EntityPrefix(k) \in Seq(Nat) /\ Len(EntityPrefix(k)) >= 9
             /\ EntityPrefix(k)[1] = 47 /\ EntityPrefix(k)[2] # 95
             /\ EntityPrefix(k)[Len(EntityPrefix(k))] = 47
  <2>1. CASE k = "stream"
    BY <2>1 DEF EntityPrefix, StreamKeyPrefix
  <2>2. CASE k = "measure"
    BY <2>2 DEF EntityPrefix, MeasureKeyPrefix
  <2>3. CASE k = "indexRule"
    BY <2>3 DEF EntityPrefix, IndexRuleKeyPrefix
  <2>4. CASE k = "indexRuleBinding"
    BY <2>4 DEF EntityPrefix, IndexRuleBindingKeyPrefix
  <2>. QED
    BY <2>1, <2>2, <2>3, <2>4 DEF Kinds
<1>. QED
  BY <1>1, <1>2, <1>3

\* Two kinds' prefixes differ at a byte both have: "/streams/",
\* "/measures/" and "/index-..." at their second byte, "/index-rules/" and
\* "/index-rule-bindings/" at their twelfth.
LEMMA KindsDiffer ==
    ASSUME NEW k \in Kinds, NEW l \in Kinds, k # l
    PROVE  \E i \in 1..Len(EntityPrefix(k)) :
               i <= Len(EntityPrefix(l)) /\ EntityPrefix(k)[i] # EntityPrefix(l)[i]
<1> DEFINE Pos(m, i) == EntityPrefix(m)[i]
<1>1. /\ Pos("stream", 2) = 115 /\ Pos("measure", 2) = 109
      /\ Pos("indexRule", 2) = 105 /\ Pos("indexRuleBinding", 2) = 105
      /\ Pos("indexRule", 12) = 115 /\ Pos("indexRuleBinding", 12) = 45
      /\ Len(EntityPrefix("stream")) = 9 /\ Len(EntityPrefix("measure")) = 10
      /\ Len(EntityPrefix("indexRule")) = 13 /\ Len(EntityPrefix("indexRuleBinding")) = 21
  BY DEF EntityPrefix, StreamKeyPrefix, MeasureKeyPrefix, IndexRuleKeyPrefix,
         IndexRuleBindingKeyPrefix
<1> HIDE DEF EntityPrefix
<1>2. CASE {k, l} = {"indexRule", "indexRuleBinding"}
  <2>1. \/ k = "indexRule" /\ l = "indexRuleBinding"
        \/ k = "indexRuleBinding" /\ l = "indexRule"
    BY <1>2, Zenon
  <2>2. /\ 12 \in 1..Len(EntityPrefix(k)) /\ 12 <= Len(EntityPrefix(l))
        /\ EntityPrefix(k)[12] # EntityPrefix(l)[12]
    BY <1>1, <2>1
  <2>. QED
    BY <2>2
<1>3. CASE {k, l} # {"indexRule", "indexRuleBinding"}
  <2>1. /\ 2 \in 1..Len(EntityPrefix(k)) /\ 2 <= Len(EntityPrefix(l))
        /\ EntityPrefix(k)[2] # EntityPrefix(l)[2]
    BY <1>1, <1>3 DEF Kinds
  <2>. QED
    BY <2>1
<1>. QED
  BY <1>2, <1>3

-----------------------------------------------------------------------------
(* The shape of a key: "/groups/" + group + the rest, where the rest       *)
(* starts with "/".                                                        *)

\* What follows the group name in Metadata.Key().
Rest(id) == IF id.kind = "group" THEN GroupMetadataKey ELSE EntityPrefix(id.kind) \o id.name

LEMMA NamesAreBytes ==
    \A s \in GroupNames \cup EntityNames : s \in Seq(Nat) /\ Len(s) > 0
<1> TAKE s \in GroupNames \cup EntityNames
<1>1. s \in Seq(Nat) /\ s # <<>>
  BY KeySpaceAssumption
<1>. QED
  BY <1>1

LEMMA IdentityFields ==
    ASSUME NEW id \in Identities
    PROVE  /\ id.group \in GroupNames
           /\ id.kind = "group" => id = GroupId(id.group)
           /\ id.kind # "group" =>
                 /\ id.kind \in Kinds /\ id.name \in EntityNames
                 /\ id = EntityId(id.kind, id.group, id.name)
<1>1. CASE \E g \in GroupNames : id = GroupId(g)
  <2>1. PICK g \in GroupNames : id = GroupId(g)
    BY <1>1
  <2>. QED
    BY <2>1 DEF GroupId
<1>2. CASE \E k \in EntityKinds, g \in GroupNames, n \in EntityNames : id = EntityId(k, g, n)
  <2>1. PICK k \in EntityKinds, g \in GroupNames, n \in EntityNames : id = EntityId(k, g, n)
    BY <1>2
  <2>2. k \in Kinds
    BY KeySpaceAssumption DEF Kinds
  <2>. QED
    BY <2>1, <2>2 DEF EntityId, Kinds
<1>. QED
  BY <1>1, <1>2 DEF Identities

LEMMA KeyShape ==
    ASSUME NEW id \in Identities
    PROVE  /\ id.group \in Seq(Nat) /\ Len(id.group) > 0
           /\ Rest(id) \in Seq(Nat) /\ Len(Rest(id)) > 0 /\ Rest(id)[1] = 47
           /\ KeyOf(id) = GroupsKeyPrefix \o id.group \o Rest(id)
<1>1. id.group \in Seq(Nat) /\ Len(id.group) > 0
  BY IdentityFields, NamesAreBytes
<1>2. CASE id.kind = "group"
  <2>1. Rest(id) = GroupMetadataKey
    BY <1>2 DEF Rest
  <2>2. KeyOf(id) = GroupsKeyPrefix \o id.group \o GroupMetadataKey
    BY <1>2 DEF KeyOf, formatGroupKey
  <2>. QED
    BY <1>1, <2>1, <2>2, Literals
<1>3. CASE id.kind # "group"
  <2>1. id.kind \in Kinds /\ id.name \in Seq(Nat) /\ Len(id.name) > 0
    BY <1>3, IdentityFields, NamesAreBytes
  <2>2. /\ EntityPrefix(id.kind) \in Seq(Nat) /\ Len(EntityPrefix(id.kind)) >= 9
        /\ EntityPrefix(id.kind)[1] = 47
    BY <2>1, Literals
  <2>3. Rest(id) = EntityPrefix(id.kind) \o id.name
    BY <1>3 DEF Rest
  <2>4. KeyOf(id) = GroupsKeyPrefix \o id.group \o EntityPrefix(id.kind) \o id.name
    BY <1>3 DEF KeyOf, formatKey
  <2>5. GroupsKeyPrefix \o id.group \in Seq(Nat)
    BY <1>1, Literals
  <2>6. (GroupsKeyPrefix \o id.group) \o EntityPrefix(id.kind) \o id.name
        = (GroupsKeyPrefix \o id.group) \o (EntityPrefix(id.kind) \o id.name)
    BY <2>1, <2>2, <2>5, CatAssoc
  <2>7. /\ EntityPrefix(id.kind) \o id.name \in Seq(Nat)
        /\ Len(EntityPrefix(id.kind) \o id.name) > 0
        /\ (EntityPrefix(id.kind) \o id.name)[1] = 47
    <3> DEFINE E == EntityPrefix(id.kind)
               n == id.name
    <3>1. E \in Seq(Nat) /\ n \in Seq(Nat) /\ Len(E) > 0 /\ E[1] = 47
      BY <2>1, <2>2
    <3> HIDE DEF E, n
    <3>2. E \o n \in Seq(Nat) /\ Len(E \o n) > 0 /\ (E \o n)[1] = E[1]
      BY <3>1, CatHead
    <3>. QED
      BY <3>1, <3>2 DEF E, n
  <2>8. Rest(id) \in Seq(Nat) /\ Len(Rest(id)) > 0 /\ Rest(id)[1] = 47
    BY <2>3, <2>7
  <2>. QED
    BY <1>1, <2>3, <2>4, <2>6, <2>8
<1>. QED
  BY <1>2, <1>3

\* A sequence is a prefix of itself.
LEMMA HasPrefixSelf ==
    ASSUME NEW s \in Seq(Nat)
    PROVE  HasPrefix(s, s)
<1>1. SubSeq(s, 1, Len(s)) = s
  OBVIOUS
<1>. QED
  BY <1>1 DEF HasPrefix

\* The positions of the head of a concatenation are the head's.
LEMMA CatLeft ==
    ASSUME NEW s \in Seq(Nat), NEW t \in Seq(Nat), NEW i \in 1..Len(s)
    PROVE  (s \o t)[i] = s[i]
OBVIOUS

\* Under PlainGroupNames, Metadata.Key() is injective: two identities with
\* the same etcd key are the same group or the same entity (etcd.go:559-581
\* and the key formats Metadata.Key() uses).
LEMMA KeyOfInjective ==
    ASSUME PlainGroupNames, NEW a \in Identities, NEW b \in Identities,
           KeyOf(a) = KeyOf(b)
    PROVE  a = b
<1> DEFINE X == GroupsKeyPrefix
           ga == a.group  gb == b.group
           ra == Rest(a)  rb == Rest(b)
<1>1. /\ X \in Seq(Nat) /\ ga \in Seq(Nat) /\ gb \in Seq(Nat)
      /\ ra \in Seq(Nat) /\ rb \in Seq(Nat)
      /\ ra # <<>> /\ ra[1] = 47 /\ rb # <<>> /\ rb[1] = 47
      /\ KeyOf(a) = X \o ga \o ra /\ KeyOf(b) = X \o gb \o rb
  <2>1. /\ a.group \in Seq(Nat) /\ Len(a.group) > 0
        /\ Rest(a) \in Seq(Nat) /\ Len(Rest(a)) > 0 /\ Rest(a)[1] = 47
        /\ KeyOf(a) = GroupsKeyPrefix \o a.group \o Rest(a)
    BY KeyShape
  <2>2. /\ b.group \in Seq(Nat) /\ Len(b.group) > 0
        /\ Rest(b) \in Seq(Nat) /\ Len(Rest(b)) > 0 /\ Rest(b)[1] = 47
        /\ KeyOf(b) = GroupsKeyPrefix \o b.group \o Rest(b)
    BY KeyShape
  <2>3. GroupsKeyPrefix \in Seq(Nat)
    BY Literals
  <2>4. Rest(a) # <<>> /\ Rest(b) # <<>>
    BY <2>1, <2>2
  <2>. QED
    BY <2>1, <2>2, <2>3, <2>4
<1>2. NoSlash(ga) /\ NoSlash(gb)
  BY IdentityFields DEF PlainGroupNames
<1>3. X \o ga \o ra = X \o gb \o rb
  BY <1>1
<1> HIDE DEF X, ga, gb, ra, rb
<1>4. ga = gb
  <2>0. X \o gb \o rb \in Seq(Nat)
    BY <1>1
  <2>1. HasPrefix(X \o gb \o rb, X \o ga \o ra)
    BY <1>3, <2>0, HasPrefixSelf
  <2>. QED
    BY <1>1, <1>2, <2>1, DirPrefix
<1>5. ra = rb
  <2>1. X \o ga \in Seq(Nat)
    BY <1>1
  <2>. QED
    BY <1>1, <1>3, <1>4, <2>1, CatCancel
<1>6. a.group = b.group
  BY <1>4 DEF ga, gb
<1>7. Rest(a) = Rest(b)
  BY <1>5 DEF ra, rb
<1>8. CASE a.kind = "group" /\ b.kind = "group"
  BY <1>6, <1>8, IdentityFields
<1>9. CASE a.kind = "group" /\ b.kind # "group"
  <2>1. Rest(a)[2] = 95
    BY <1>9, Literals DEF Rest
  <2>2. Rest(b)[2] # 95
    <3> DEFINE E == EntityPrefix(b.kind)
               n == b.name
    <3>1. E \in Seq(Nat) /\ n \in Seq(Nat) /\ Len(E) >= 9 /\ E[2] # 95
      BY <1>9, IdentityFields, NamesAreBytes, Literals
    <3>2. Rest(b) = E \o n
      BY <1>9 DEF Rest
    <3> HIDE DEF E, n
    <3>3. (E \o n)[2] = E[2]
      BY <3>1, CatLeft
    <3>. QED
      BY <3>1, <3>2, <3>3
  <2>. QED
    BY <1>7, <2>1, <2>2
<1>10. CASE a.kind # "group" /\ b.kind = "group"
  <2>1. Rest(b)[2] = 95
    BY <1>10, Literals DEF Rest
  <2>2. Rest(a)[2] # 95
    <3> DEFINE E == EntityPrefix(a.kind)
               n == a.name
    <3>1. E \in Seq(Nat) /\ n \in Seq(Nat) /\ Len(E) >= 9 /\ E[2] # 95
      BY <1>10, IdentityFields, NamesAreBytes, Literals
    <3>2. Rest(a) = E \o n
      BY <1>10 DEF Rest
    <3> HIDE DEF E, n
    <3>3. (E \o n)[2] = E[2]
      BY <3>1, CatLeft
    <3>. QED
      BY <3>1, <3>2, <3>3
  <2>. QED
    BY <1>7, <2>1, <2>2
<1>11. CASE a.kind # "group" /\ b.kind # "group"
  <2> DEFINE Ea == EntityPrefix(a.kind)  Eb == EntityPrefix(b.kind)
             na == a.name  nb == b.name
  <2>1. /\ a.kind \in Kinds /\ b.kind \in Kinds
        /\ Ea \in Seq(Nat) /\ Eb \in Seq(Nat) /\ na \in Seq(Nat) /\ nb \in Seq(Nat)
        /\ a = EntityId(a.kind, a.group, a.name) /\ b = EntityId(b.kind, b.group, b.name)
    BY <1>11, IdentityFields, NamesAreBytes, Literals
  <2>2. Ea \o na = Eb \o nb
    BY <1>7, <1>11 DEF Rest
  <2>3. a.kind = b.kind
    <3> SUFFICES ASSUME a.kind # b.kind PROVE FALSE
      OBVIOUS
    <3>1. PICK i \in 1..Len(Ea) : i <= Len(Eb) /\ Ea[i] # Eb[i]
      BY <2>1, KindsDiffer
    <3> HIDE DEF Ea, Eb, na, nb
    <3>2. (Ea \o na)[i] = Ea[i] /\ (Eb \o nb)[i] = Eb[i]
      BY <2>1, <3>1, CatLeft
    <3>. QED
      BY <2>2, <3>1, <3>2
  <2>4. a.name = b.name
    <3>1. Ea = Eb
      BY <2>3
    <3> HIDE DEF Ea, Eb, na, nb
    <3>2. na = nb
      BY <2>1, <2>2, <3>1, CatCancel
    <3>. QED
      BY <3>2 DEF na, nb
  <2>. QED
    BY <1>6, <2>1, <2>3, <2>4 DEF EntityId
<1>. QED
  BY <1>8, <1>9, <1>10, <1>11

-----------------------------------------------------------------------------
(* The store                                                               *)

\* Every body etcd holds is a group or an entity of the declared names,
\* stored at its own Metadata.Key(): update() writes a body only at
\* KeyOf of its identity, and delete and DeleteGroup only remove keys.
StoredAtKey == \A x \in DOMAIN kv : kv[x] \in Identities /\ x = KeyOf(kv[x])

\* The identities Next writes are identities.
LEMMA NextIds ==
    /\ \A g \in GroupNames : GroupId(g) \in Identities
    /\ \A k \in EntityKinds, g \in GroupNames, n \in EntityNames :
          EntityId(k, g, n) \in Identities
BY DEF Identities

\* Each body stays at the key Metadata.Key() gives its identity, whatever
\* the order of updates, deletes and group deletes (etcd.go:450-496 update,
\* :523-531 delete, :164-185 DeleteGroup).
THEOREM StoredAtKeyInv == Spec => []StoredAtKey
<1>1. Init => StoredAtKey
  BY DEF Init, StoredAtKey
<1>2. ASSUME NEW id \in Identities, StoredAtKey, Update(id)
      PROVE  StoredAtKey'
  <2>1. DOMAIN kv' = DOMAIN kv \cup {KeyOf(id)}
    BY <1>2 DEF Update, PutKey
  <2>2. \A x \in DOMAIN kv' : kv'[x] = IF x = KeyOf(id) THEN id ELSE kv[x]
    BY <1>2 DEF Update, PutKey
  <2>. QED
    BY <1>2, <2>1, <2>2 DEF StoredAtKey
<1>3. ASSUME NEW K, StoredAtKey, kv' = Without(K)
      PROVE  StoredAtKey'
  <2>1. DOMAIN kv' \subseteq DOMAIN kv /\ \A x \in DOMAIN kv' : kv'[x] = kv[x]
    BY <1>3 DEF Without
  <2>. QED
    BY <1>3, <2>1 DEF StoredAtKey
<1>4. StoredAtKey /\ [Next]_vars => StoredAtKey'
  <2> SUFFICES ASSUME StoredAtKey, [Next]_vars PROVE StoredAtKey'
    OBVIOUS
  <2>1. CASE \E g \in GroupNames : Update(GroupId(g))
    BY <2>1, <1>2, NextIds
  <2>2. CASE \E g \in GroupNames : DeleteGroup(g)
    BY <2>2, <1>3 DEF DeleteGroup
  <2>3. CASE \E k \in EntityKinds, g \in GroupNames, n \in EntityNames :
                Update(EntityId(k, g, n))
    BY <2>3, <1>2, NextIds
  <2>4. CASE \E k \in EntityKinds, g \in GroupNames, n \in EntityNames :
                Delete(EntityId(k, g, n))
    BY <2>4, <1>3 DEF Delete
  <2>5. CASE UNCHANGED vars
    BY <2>5 DEF vars, StoredAtKey
  <2>. QED
    BY <2>1, <2>2, <2>3, <2>4, <2>5 DEF Next
<1>. QED
  BY <1>1, <1>4, PTL DEF Spec

\* Under PlainGroupNames, an update never overwrites the body of another
\* group or entity: the key update() puts is the key of no other identity
\* (etcd.go update, the Put of Metadata.Key()).  MC_KeyCollision shows the
\* hypothesis is needed.
THEOREM UpdateKeepsOthersHolds ==
    ASSUME PlainGroupNames
    PROVE  Spec => UpdateKeepsOthers
<1> DEFINE A == last'.op = "update" => Bodies \ {last'.id} \subseteq Bodies'
<1>1. ASSUME NEW id \in Identities, StoredAtKey, Update(id)
      PROVE  A
  <2> SUFFICES ASSUME NEW y \in Bodies, y # id PROVE y \in Bodies'
    BY <1>1 DEF Update
  <2>1. PICK x \in DOMAIN kv : kv[x] = y
    BY DEF Bodies
  <2>2. y \in Identities /\ x = KeyOf(y)
    BY <1>1, <2>1 DEF StoredAtKey
  <2>3. x # KeyOf(id)
    BY <2>2, KeyOfInjective
  <2>4. x \in DOMAIN kv' /\ kv'[x] = y
    BY <1>1, <2>1, <2>3 DEF Update, PutKey
  <2>. QED
    BY <2>4 DEF Bodies
<1>2. StoredAtKey /\ [Next]_vars => [A]_vars
  <2> SUFFICES ASSUME StoredAtKey, [Next]_vars PROVE [A]_vars
    OBVIOUS
  <2>1. CASE \E g \in GroupNames : Update(GroupId(g))
    BY <2>1, <1>1, NextIds
  <2>2. CASE \E g \in GroupNames : DeleteGroup(g)
    BY <2>2 DEF DeleteGroup
  <2>3. CASE \E k \in EntityKinds, g \in GroupNames, n \in EntityNames :
                Update(EntityId(k, g, n))
    BY <2>3, <1>1, NextIds
  <2>4. CASE \E k \in EntityKinds, g \in GroupNames, n \in EntityNames :
                Delete(EntityId(k, g, n))
    BY <2>4 DEF Delete
  <2>5. CASE UNCHANGED vars
    BY <2>5
  <2>. QED
    BY <2>1, <2>2, <2>3, <2>4, <2>5 DEF Next
<1>. QED
  BY <1>2, StoredAtKeyInv, PTL DEF Spec, UpdateKeepsOthers

\* The range "/groups/<g>/" that DeleteGroup(g) deletes, as a byte sequence.
GroupRange(g) == GroupsKeyPrefix \o g \o <<47>>

\* Under PlainGroupNames, the key of an identity lies in the range of group
\* g exactly when the identity belongs to g.
LEMMA KeyInGroupRange ==
    ASSUME PlainGroupNames, NEW id \in Identities, NEW g \in GroupNames
    PROVE  /\ KeyOf(id) \in Seq(Nat)
           /\ InRange(KeyOf(id), GroupRange(g), incrementLastByte(GroupRange(g)))
                <=> id.group = g
<1> DEFINE X == GroupsKeyPrefix  h == id.group  r == Rest(id)  u == <<47>>
           P == X \o g \o u
<1>1. /\ X \in Seq(Nat) /\ g \in Seq(Nat) /\ h \in Seq(Nat) /\ r \in Seq(Nat)
      /\ u \in Seq(Nat) /\ u # <<>> /\ u[1] = 47 /\ Len(u) = 1
      /\ r # <<>> /\ Len(r) > 0 /\ r[1] = 47 /\ KeyOf(id) = X \o h \o r
  <2>1. /\ id.group \in Seq(Nat) /\ Len(id.group) > 0
        /\ Rest(id) \in Seq(Nat) /\ Len(Rest(id)) > 0 /\ Rest(id)[1] = 47
        /\ KeyOf(id) = GroupsKeyPrefix \o id.group \o Rest(id)
    BY KeyShape
  <2>2. GroupsKeyPrefix \in Seq(Nat) /\ g \in Seq(Nat)
    BY Literals, NamesAreBytes
  <2>. QED
    BY <2>1, <2>2
<1>2. NoSlash(g) /\ NoSlash(h)
  BY IdentityFields DEF PlainGroupNames
<1>3. P \in Seq(Nat) /\ P # <<>> /\ P[Len(P)] < 255 /\ KeyOf(id) \in Seq(Nat)
  BY <1>1
<1>4. GroupRange(g) = P
  BY DEF GroupRange
<1> HIDE DEF X, h, r, u, P
<1>5. HasPrefix(r, u)
  <2>1. Len(u) <= Len(r) /\ \A i \in 1..Len(u) : r[i] = u[i]
    BY <1>1
  <2>2. r \in Seq(Nat) /\ u \in Seq(Nat)
    BY <1>1
  <2>. QED
    BY <2>1, <2>2, HasPrefixPointwise, Zenon
<1>6. HasPrefix(X \o h \o r, P) <=> g = h
  BY <1>1, <1>2, <1>5, DirPrefix DEF P
<1>7. InRange(KeyOf(id), P, incrementLastByte(P)) <=> HasPrefix(KeyOf(id), P)
  BY <1>3, RangePrefix
<1>. QED
  BY <1>1, <1>3, <1>4, <1>6, <1>7 DEF h

\* Under PlainGroupNames, DeleteGroup(g) removes exactly the bodies of group
\* g: the group key found by GetGroup holds group g itself, and the range
\* "/groups/<g>/" it then deletes holds the keys of g's group and entities
\* and no others (etcd.go DeleteGroup).  MC_KeyNested shows the hypothesis
\* is needed.
THEOREM DeleteGroupExactHolds ==
    ASSUME PlainGroupNames
    PROVE  Spec => DeleteGroupExact
<1> DEFINE A == last'.op = "deleteGroup" =>
                    Bodies' = {id \in Bodies : id.group # last'.id.group}
<1>1. ASSUME NEW g \in GroupNames, StoredAtKey, DeleteGroup(g)
      PROVE  A
  <2> DEFINE gk == formatGroupKey(g)
  <2>1. gk \in DOMAIN kv /\ last'.id.group = g
    BY <1>1 DEF DeleteGroup, GroupId
  <2>2. kv[gk] = GroupId(g)
    <3>1. kv[gk] \in Identities /\ gk = KeyOf(kv[gk])
      BY <1>1, <2>1 DEF StoredAtKey
    <3>2. GroupId(g) \in Identities /\ gk = KeyOf(GroupId(g))
      BY NextIds DEF KeyOf, GroupId
    <3>. QED
      BY <3>1, <3>2, <1>1, KeyOfInjective
  <2>3. kv' = Without(KeysWithPrefix(GroupRange(g)))
    BY <1>1, <2>2 DEF DeleteGroup, GroupId, GroupRange
  <2>4. \A x \in DOMAIN kv : x \in KeysWithPrefix(GroupRange(g)) <=> kv[x].group = g
    <3> TAKE x \in DOMAIN kv
    <3>1. kv[x] \in Identities /\ x = KeyOf(kv[x])
      BY <1>1 DEF StoredAtKey
    <3>. QED
      BY <3>1, <1>1, KeyInGroupRange DEF KeysWithPrefix
  <2>5. /\ DOMAIN kv' = {x \in DOMAIN kv : kv[x].group # g}
        /\ \A x \in DOMAIN kv' : kv'[x] = kv[x]
    BY <2>3, <2>4 DEF Without
  <2>. QED
    BY <2>1, <2>5 DEF Bodies
<1>2. StoredAtKey /\ [Next]_vars => [A]_vars
  <2> SUFFICES ASSUME StoredAtKey, [Next]_vars PROVE [A]_vars
    OBVIOUS
  <2>1. CASE \E g \in GroupNames : Update(GroupId(g))
    BY <2>1 DEF Update
  <2>2. CASE \E g \in GroupNames : DeleteGroup(g)
    BY <2>2, <1>1
  <2>3. CASE \E k \in EntityKinds, g \in GroupNames, n \in EntityNames :
                Update(EntityId(k, g, n))
    BY <2>3 DEF Update
  <2>4. CASE \E k \in EntityKinds, g \in GroupNames, n \in EntityNames :
                Delete(EntityId(k, g, n))
    BY <2>4 DEF Delete
  <2>5. CASE UNCHANGED vars
    BY <2>5
  <2>. QED
    BY <2>1, <2>2, <2>3, <2>4, <2>5 DEF Next
<1>. QED
  BY <1>2, StoredAtKeyInv, PTL DEF Spec, DeleteGroupExact

\* The last byte of a concatenation is its tail's.
LEMMA CatLast ==
    ASSUME NEW s \in Seq(Nat), NEW t \in Seq(Nat), t # <<>>
    PROVE  (s \o t)[Len(s \o t)] = t[Len(t)]
OBVIOUS

\* What follows the group name in a key starts with the prefix of kind k
\* exactly when the key is of an entity of kind k: the group metadata key
\* and the other kinds' prefixes part from it within its length.
LEMMA KindPrefix ==
    ASSUME NEW id \in Identities, NEW k \in Kinds
    PROVE  HasPrefix(Rest(id), EntityPrefix(k)) <=> id.kind = k
<1> DEFINE Ek == EntityPrefix(k)
<1>1. Ek \in Seq(Nat) /\ Len(Ek) >= 9 /\ Ek[2] # 95
  BY Literals
<1>2. CASE id.kind = "group"
  <2>1. Rest(id) = GroupMetadataKey /\ id.kind # k
    BY <1>2 DEF Rest, Kinds
  <2>2. GroupMetadataKey \in Seq(Nat) /\ GroupMetadataKey[2] = 95
    BY Literals
  <2> HIDE DEF Ek
  <2>3. ~(\A i \in 1..Len(Ek) : GroupMetadataKey[i] = Ek[i])
    <3>1. 2 \in 1..Len(Ek)
      BY <1>1
    <3>. QED
      BY <1>1, <2>2, <3>1, Zenon
  <2>4. HasPrefix(GroupMetadataKey, Ek) <=>
          Len(Ek) <= Len(GroupMetadataKey) /\ \A i \in 1..Len(Ek) : GroupMetadataKey[i] = Ek[i]
    BY <1>1, <2>2, HasPrefixPointwise
  <2>. QED
    BY <2>1, <2>3, <2>4 DEF Ek
<1>3. CASE id.kind # "group"
  <2> DEFINE El == EntityPrefix(id.kind)
             n == id.name
  <2>1. /\ id.kind \in Kinds /\ El \in Seq(Nat) /\ n \in Seq(Nat)
        /\ Rest(id) = El \o n
    BY <1>3, IdentityFields, NamesAreBytes, Literals DEF Rest
  <2>2. CASE id.kind = k
    <3>1. El = Ek
      BY <2>2
    <3> HIDE DEF El, Ek, n
    <3>2. HasPrefix(El \o n, El)
      BY <2>1, PrefixOfCat, Zenon
    <3>. QED
      BY <2>1, <2>2, <3>1, <3>2 DEF Ek
  <2>3. CASE id.kind # k
    <3>1. PICK i \in 1..Len(El) : i <= Len(Ek) /\ El[i] # Ek[i]
      BY <2>1, <2>3, KindsDiffer
    <3> HIDE DEF El, Ek, n
    <3>2. (El \o n)[i] = El[i]
      BY <2>1, <3>1, CatLeft
    <3>3. ~(\A j \in 1..Len(Ek) : (El \o n)[j] = Ek[j])
      BY <3>1, <3>2
    <3>4. El \o n \in Seq(Nat)
      BY <2>1
    <3>5. HasPrefix(El \o n, Ek) <=>
            Len(Ek) <= Len(El \o n) /\ \A j \in 1..Len(Ek) : (El \o n)[j] = Ek[j]
      BY <1>1, <3>4, HasPrefixPointwise
    <3>. QED
      BY <2>1, <2>3, <3>3, <3>5 DEF Ek
  <2>. QED
    BY <2>2, <2>3
<1>. QED
  BY <1>2, <1>3

\* Under PlainGroupNames, the key of an identity lies in the range a List
\* of kind k in group g scans exactly when it is an entity of that kind and
\* group.
LEMMA KeyInEntityRange ==
    ASSUME PlainGroupNames, NEW id \in Identities, NEW g \in GroupNames,
           NEW k \in EntityKinds
    PROVE  LET P == listPrefixesForEntity(g, EntityPrefix(k))
           IN  InRange(KeyOf(id), P, incrementLastByte(P)) <=> id.kind = k /\ id.group = g
<1> DEFINE X == GroupsKeyPrefix  h == id.group  r == Rest(id)  u == EntityPrefix(k)
           P == X \o g \o u
<1>1. /\ X \in Seq(Nat) /\ g \in Seq(Nat) /\ h \in Seq(Nat) /\ r \in Seq(Nat)
      /\ u \in Seq(Nat) /\ u # <<>> /\ u[1] = 47 /\ u[Len(u)] = 47
      /\ r # <<>> /\ r[1] = 47 /\ KeyOf(id) = X \o h \o r
      /\ k \in Kinds
  <2>1. /\ id.group \in Seq(Nat) /\ Len(id.group) > 0
        /\ Rest(id) \in Seq(Nat) /\ Len(Rest(id)) > 0 /\ Rest(id)[1] = 47
        /\ KeyOf(id) = GroupsKeyPrefix \o id.group \o Rest(id)
    BY KeyShape
  <2>2. GroupsKeyPrefix \in Seq(Nat) /\ g \in Seq(Nat) /\ k \in Kinds
    BY Literals, NamesAreBytes, KeySpaceAssumption DEF Kinds
  <2>3. u \in Seq(Nat) /\ Len(u) >= 9 /\ u[1] = 47 /\ u[Len(u)] = 47
    BY <2>2, Literals
  <2>. QED
    BY <2>1, <2>2, <2>3
<1>2. NoSlash(g) /\ NoSlash(h)
  BY IdentityFields DEF PlainGroupNames
<1>3. listPrefixesForEntity(g, EntityPrefix(k)) = P
  BY DEF listPrefixesForEntity
<1> HIDE DEF X, h, r, u, P
<1>4. P \in Seq(Nat) /\ P # <<>> /\ P[Len(P)] = 47
  <2>1. X \o g \in Seq(Nat)
    BY <1>1
  <2>2. (X \o g \o u)[Len(X \o g \o u)] = u[Len(u)]
    BY <1>1, <2>1, CatLast
  <2>. QED
    BY <1>1, <2>2 DEF P
<1>5. HasPrefix(X \o h \o r, P) <=> g = h /\ HasPrefix(r, u)
  BY <1>1, <1>2, DirPrefix DEF P
<1>6. HasPrefix(r, u) <=> id.kind = k
  BY <1>1, KindPrefix DEF r, u
<1>7. InRange(KeyOf(id), P, incrementLastByte(P)) <=> HasPrefix(KeyOf(id), P)
  <2>1. KeyOf(id) \in Seq(Nat) /\ P[Len(P)] < 255
    BY <1>1, <1>4
  <2>. QED
    BY <1>4, <2>1, RangePrefix
<1>. QED
  BY <1>1, <1>3, <1>5, <1>6, <1>7 DEF h

\* Under PlainGroupNames, a List of a kind in a group (ListStream,
\* ListMeasure, ListIndexRule, ListIndexRuleBinding, through listWithPrefix
\* and listPrefixesForEntity) returns exactly the stored entities of that
\* kind and group, in every reachable state.
THEOREM ListEntityHolds ==
    ASSUME PlainGroupNames
    PROVE  Spec => []ListEntityExact
<1>1. StoredAtKey => ListEntityExact
  <2> SUFFICES ASSUME StoredAtKey, NEW k \in EntityKinds, NEW g \in GroupNames
               PROVE  ListEntity(k, g) = {id \in Bodies : id.kind = k /\ id.group = g}
    BY DEF ListEntityExact
  <2> DEFINE P == listPrefixesForEntity(g, EntityPrefix(k))
  <2>1. \A x \in DOMAIN kv : x \in KeysWithPrefix(P) <=> kv[x].kind = k /\ kv[x].group = g
    <3> TAKE x \in DOMAIN kv
    <3>1. kv[x] \in Identities /\ x = KeyOf(kv[x])
      BY DEF StoredAtKey
    <3>. QED
      BY <3>1, KeyInEntityRange DEF KeysWithPrefix
  <2>. QED
    BY <2>1 DEF ListEntity, listWithPrefix, Bodies, KeysWithPrefix
<1>. QED
  BY <1>1, StoredAtKeyInv, PTL

\* Z = Y + n, where |Y| = ly ends in "/", n (of length ln) holds no "/"
\* and is not M without its first byte, and M is "/__meta_group__": a "/"
\* and then fourteen bytes that are not "/".
MetaLayout(ly, ln, Z, Y, n, M) ==
    /\ ly \in Nat /\ ln \in Nat /\ ly > 0 /\ ln > 0
    /\ Y[ly] = 47 /\ Z[ly] = Y[ly]
    /\ \A j \in 1..ln : n[j] # 47 /\ Z[ly + j] = n[j]
    /\ ~(ln = 14 /\ \A j \in 1..14 : n[j] = M[j + 1])
    /\ M[1] = 47 /\ \A j \in 2..15 : M[j] # 47

\* Z ends with the fifteen bytes of M, position by position.
MetaMatch(ly, ln, Z, M) ==
    15 <= ly + ln /\ \A i \in 1..15 : Z[ly + ln - 15 + i] = M[i]

\* The heart of NotMetaSuffix, over lengths and positions only.
LEMMA MetaCore ==
    \A ly, ln, Z, Y, n, M : ~(MetaLayout(ly, ln, Z, Y, n, M) /\ MetaMatch(ly, ln, Z, M))
<1> SUFFICES ASSUME NEW ly, NEW ln, NEW Z, NEW Y, NEW n, NEW M,
                    MetaLayout(ly, ln, Z, Y, n, M), MetaMatch(ly, ln, Z, M)
             PROVE  FALSE
  OBVIOUS
<1> USE DEF MetaLayout, MetaMatch
<1>1. CASE ln >= 15
  <2>1. Z[ly + (ln - 14)] = M[1]
    BY <1>1
  <2>2. Z[ly + (ln - 14)] = n[ln - 14] /\ n[ln - 14] # 47
    BY <1>1
  <2>. QED
    BY <2>1, <2>2
<1>2. CASE ln = 14
  <2>1. \A j \in 1..14 : n[j] = M[j + 1]
    <3> TAKE j \in 1..14
    <3>1. Z[ly + j] = M[j + 1]
      BY <1>2
    <3>. QED
      BY <1>2, <3>1
  <2>. QED
    BY <1>2, <2>1
<1>3. CASE ln <= 13
  <2>1. Z[ly] = M[15 - ln]
    BY <1>3
  <2>2. 15 - ln \in 2..15
    BY <1>3
  <2>. QED
    BY <2>1, <2>2
<1>. QED
  BY <1>1, <1>2, <1>3

\* The tail of a non-empty sequence, position by position.
LEMMA TailFacts ==
    ASSUME NEW s \in Seq(Nat), Len(s) > 0
    PROVE  /\ Tail(s) \in Seq(Nat) /\ Len(Tail(s)) = Len(s) - 1
           /\ \A j \in 1..Len(s) - 1 : Tail(s)[j] = s[j + 1]
OBVIOUS

\* "__meta_group__", the metadata key without its "/".
LEMMA MetaTail ==
    /\ Tail(GroupMetadataKey) \in Seq(Nat) /\ Len(Tail(GroupMetadataKey)) = 14
    /\ \A j \in 1..14 : Tail(GroupMetadataKey)[j] = GroupMetadataKey[j + 1]
<1> DEFINE M == GroupMetadataKey
<1>1. M \in Seq(Nat) /\ Len(M) = 15
  BY Literals
<1> HIDE DEF M
<1>2. M \in Seq(Nat) /\ Len(M) > 0 /\ Len(M) - 1 = 14
  BY <1>1
<1>3. /\ Tail(M) \in Seq(Nat) /\ Len(Tail(M)) = Len(M) - 1
      /\ \A j \in 1..Len(M) - 1 : Tail(M)[j] = M[j + 1]
  BY <1>2, TailFacts, Zenon
<1>. QED
  BY ONLY <1>2, <1>3 DEF M

\* A key that ends in a "/" followed by a name without "/" other than
\* "__meta_group__" does not end in "/__meta_group__": the "/" of the
\* metadata key would have to fall inside the name (a long name), the name
\* would have to be "__meta_group__" (a name of 14 bytes), or the "/"
\* before the name would have to fall on a byte of "__meta_group__".
LEMMA NotMetaSuffix ==
    ASSUME NEW Y \in Seq(Nat), Len(Y) > 0, Y[Len(Y)] = 47,
           NEW n \in Seq(Nat), Len(n) > 0, NoSlash(n), n # Tail(GroupMetadataKey)
    PROVE  ~HasSuffix(Y \o n, GroupMetadataKey)
<1> DEFINE M == GroupMetadataKey
           Z == Y \o n
<1>1. /\ M \in Seq(Nat) /\ Len(M) = 15 /\ M[1] = 47
      /\ \A j \in 2..15 : M[j] # 47
  BY Literals
<1>2. PICK ly, ln \in Nat : ly = Len(Y) /\ ln = Len(n)
  OBVIOUS
<1>3. /\ Z \in Seq(Nat) /\ Len(Z) = ly + ln
      /\ Z[ly] = Y[ly]
      /\ \A j \in 1..ln : Z[ly + j] = n[j]
  BY <1>2
<1>4. ~(ln = 14 /\ \A j \in 1..14 : n[j] = M[j + 1])
  <2> SUFFICES ASSUME ln = 14, \A j \in 1..14 : n[j] = M[j + 1]
               PROVE  FALSE
    OBVIOUS
  <2>1. Tail(M) \in Seq(Nat) /\ Len(Tail(M)) = 14
        /\ \A j \in 1..14 : Tail(M)[j] = M[j + 1]
    BY MetaTail
  <2>2. Len(n) = Len(Tail(M)) /\ \A j \in 1..Len(n) : n[j] = Tail(M)[j]
    BY <1>2, <2>1
  <2>3. n = Tail(M)
    BY <2>1, <2>2, SeqEqual, Zenon
  <2>. QED
    BY <2>3
<1>5. MetaLayout(ly, ln, Z, Y, n, M)
  BY <1>1, <1>2, <1>3, <1>4 DEF MetaLayout, NoSlash
<1> HIDE DEF M, Z
<1>6. HasSuffix(Z, M) => MetaMatch(ly, ln, Z, M)
  <2>0. Z \in Seq(Nat) /\ M \in Seq(Nat)
    BY <1>1, <1>3
  <2>1. HasSuffix(Z, M) <=>
           Len(M) <= Len(Z) /\ \A i \in 1..Len(M) : Z[Len(Z) - Len(M) + i] = M[i]
    BY <2>0, HasSuffixPointwise, Zenon
  <2>2. Len(M) = 15 /\ Len(Z) = ly + ln /\ ly \in Nat /\ ln \in Nat
    BY <1>1, <1>2, <1>3
  <2>. QED
    BY ONLY <2>1, <2>2 DEF MetaMatch
<1>. QED
  BY ONLY <1>5, <1>6, MetaCore DEF M, Z

\* Under PlainEntityNames, a key ends in "/__meta_group__" exactly when it
\* is the key of a group.
LEMMA KeySuffix ==
    ASSUME PlainEntityNames, NEW id \in Identities
    PROVE  HasSuffix(KeyOf(id), GroupMetadataKey) <=> id.kind = "group"
<1> DEFINE X == GroupsKeyPrefix  g == id.group  M == GroupMetadataKey
<1>1. X \in Seq(Nat) /\ g \in Seq(Nat) /\ M \in Seq(Nat) /\ X \o g \in Seq(Nat)
  BY IdentityFields, NamesAreBytes, Literals
<1>2. CASE id.kind = "group"
  <2>1. KeyOf(id) = (X \o g) \o M
    BY <1>2 DEF KeyOf, formatGroupKey
  <2> HIDE DEF X, g, M
  <2>2. HasSuffix((X \o g) \o M, M)
    BY <1>1, SuffixOfCat, Zenon
  <2>. QED
    BY <1>2, <2>1, <2>2 DEF M
<1>3. CASE id.kind # "group"
  <2> DEFINE E == EntityPrefix(id.kind)  n == id.name
  <2>1. /\ E \in Seq(Nat) /\ E # <<>> /\ E[Len(E)] = 47
        /\ n \in Seq(Nat) /\ Len(n) > 0 /\ NoSlash(n) /\ n # Tail(M)
        /\ KeyOf(id) = (X \o g \o E) \o n
    <3>1. id.kind \in Kinds /\ id.name \in EntityNames
      BY <1>3, IdentityFields
    <3>2. E \in Seq(Nat) /\ E # <<>> /\ E[Len(E)] = 47
      <4>1. E \in Seq(Nat) /\ Len(E) >= 9 /\ E[Len(E)] = 47
        BY <3>1, Literals
      <4>. QED
        BY <4>1
    <3>3. n \in Seq(Nat) /\ Len(n) > 0
      BY <3>1, NamesAreBytes
    <3>4. NoSlash(n) /\ n # Tail(M)
      BY <3>1 DEF PlainEntityNames
    <3>5. KeyOf(id) = (X \o g \o E) \o n
      BY <1>3 DEF KeyOf, formatKey
    <3>. QED
      BY <3>2, <3>3, <3>4, <3>5
  <2> HIDE DEF X, g, M, E, n
  <2>2. X \o g \o E \in Seq(Nat) /\ Len(X \o g \o E) > 0
    BY <1>1, <2>1
  <2>3. (X \o g \o E)[Len(X \o g \o E)] = E[Len(E)]
    BY <1>1, <2>1, CatLast, Zenon
  <2>4. ~HasSuffix((X \o g \o E) \o n, M)
    BY <2>1, <2>2, <2>3, NotMetaSuffix DEF M
  <2>. QED
    BY <1>3, <2>1, <2>4 DEF M
<1>. QED
  BY <1>2, <1>3

\* Every key of the layout lies in the "/groups/" scan of ListGroup.
LEMMA KeyInGroupsScan ==
    ASSUME NEW id \in Identities
    PROVE  /\ KeyOf(id) \in Seq(Nat)
           /\ InRange(KeyOf(id), GroupsKeyPrefix, incrementLastByte(GroupsKeyPrefix))
<1> DEFINE X == GroupsKeyPrefix  g == id.group  r == Rest(id)
<1>1. /\ X \in Seq(Nat) /\ X # <<>> /\ X[Len(X)] < 255
      /\ g \in Seq(Nat) /\ r \in Seq(Nat) /\ KeyOf(id) = X \o g \o r
  <2>1. /\ id.group \in Seq(Nat) /\ Rest(id) \in Seq(Nat)
        /\ KeyOf(id) = GroupsKeyPrefix \o id.group \o Rest(id)
    BY KeyShape
  <2>2. GroupsKeyPrefix \in Seq(Nat) /\ Len(GroupsKeyPrefix) = 8
        /\ GroupsKeyPrefix[8] = 47
    BY Literals
  <2>3. GroupsKeyPrefix[Len(GroupsKeyPrefix)] < 255
    BY <2>2
  <2>4. GroupsKeyPrefix # <<>>
    BY DEF GroupsKeyPrefix
  <2>. QED
    BY <2>1, <2>2, <2>3, <2>4
<1> HIDE DEF X, g, r
<1>2. g \o r \in Seq(Nat)
  BY <1>1
<1>3. X \o g \o r = X \o (g \o r)
  BY <1>1, CatAssoc, Zenon
<1>4. HasPrefix(X \o (g \o r), X)
  BY <1>1, <1>2, PrefixOfCat, Zenon
<1>5. KeyOf(id) \in Seq(Nat) /\ HasPrefix(KeyOf(id), X)
  BY <1>1, <1>3, <1>4
<1>6. InRange(KeyOf(id), X, incrementLastByte(X))
  BY <1>1, <1>5, RangePrefix
<1>. QED
  BY <1>5, <1>6 DEF X

\* Under PlainEntityNames, ListGroup (the "/groups/" scan kept to the keys
\* ending in "/__meta_group__") returns exactly the stored groups, in every
\* reachable state.  MC_KeyMetaName shows the hypothesis is needed.
THEOREM ListGroupHolds ==
    ASSUME PlainEntityNames
    PROVE  Spec => []ListGroupExact
<1>1. StoredAtKey => ListGroupExact
  <2> SUFFICES ASSUME StoredAtKey
               PROVE  ListGroup = {id \in Bodies : id.kind = "group"}
    BY DEF ListGroupExact
  <2>1. \A x \in DOMAIN kv :
           x \in KeysWithPrefix(GroupsKeyPrefix) /\ HasSuffix(x, GroupMetadataKey)
               <=> kv[x].kind = "group"
    <3> TAKE x \in DOMAIN kv
    <3>1. kv[x] \in Identities /\ x = KeyOf(kv[x])
      BY DEF StoredAtKey
    <3>2. x \in KeysWithPrefix(GroupsKeyPrefix)
      BY <3>1, KeyInGroupsScan DEF KeysWithPrefix
    <3>3. HasSuffix(x, GroupMetadataKey) <=> kv[x].kind = "group"
      BY <3>1, KeySuffix
    <3>. QED
      BY <3>2, <3>3
  <2>. QED
    BY <2>1 DEF ListGroup, Bodies, KeysWithPrefix
<1>. QED
  BY <1>1, StoredAtKeyInv, PTL

====
