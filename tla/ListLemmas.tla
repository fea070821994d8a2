----------------------------- MODULE ListLemmas -----------------------------
(***************************************************************************)
(* Lists on which everything is at most once, and the sets of what is on   *)
(* them: what the operations of the kernel's linked lists do to both.      *)
(***************************************************************************)
EXTENDS ListOps, TLAPS

\* Append().
LEMMA Appending ==
    ASSUME NEW S, NEW s \in Seq(S), NEW x \in S
    PROVE  /\ Append(s, x) \in Seq(S)
           /\ Range(Append(s, x)) = Range(s) \cup {x}
           /\ IsInjective(s) /\ x \notin Range(s) => IsInjective(Append(s, x))
<1> DEFINE t == Append(s, x)
<1>1. /\ t \in Seq(S) /\ DOMAIN t = 1 .. Len(s) + 1 /\ DOMAIN s = 1 .. Len(s)
      /\ Len(s) \in Nat
      /\ \A i \in 1 .. Len(s) : t[i] = s[i]
      /\ t[Len(s) + 1] = x
  OBVIOUS
<1> HIDE DEF t
<1>2. Range(t) = Range(s) \cup {x}
  <2>1. ASSUME NEW y \in Range(t) PROVE y \in Range(s) \cup {x}
    BY <1>1, <2>1 DEF Range
  <2>2. ASSUME NEW y \in Range(s) \cup {x} PROVE y \in Range(t)
    BY <1>1, <2>2 DEF Range
  <2>. QED
    BY <2>1, <2>2
<1>3. IsInjective(s) /\ x \notin Range(s) => IsInjective(t)
  BY <1>1 DEF Range, IsInjective
<1>. QED
  BY <1>1, <1>2, <1>3 DEF t

\* <<x>> \o s.
LEMMA Prepending ==
    ASSUME NEW S, NEW s \in Seq(S), NEW x \in S
    PROVE  /\ <<x>> \o s \in Seq(S)
           /\ Range(<<x>> \o s) = Range(s) \cup {x}
           /\ IsInjective(s) /\ x \notin Range(s) => IsInjective(<<x>> \o s)
<1> DEFINE t == <<x>> \o s
<1>1. /\ t \in Seq(S) /\ DOMAIN t = 1 .. Len(s) + 1 /\ DOMAIN s = 1 .. Len(s)
      /\ Len(s) \in Nat
      /\ \A i \in 2 .. Len(s) + 1 : t[i] = s[i - 1]
      /\ t[1] = x
  OBVIOUS
<1> HIDE DEF t
<1>2. Range(t) = Range(s) \cup {x}
  <2>1. ASSUME NEW y \in Range(t) PROVE y \in Range(s) \cup {x}
    BY <1>1, <2>1 DEF Range
  <2>2. ASSUME NEW i \in 1 .. Len(s) PROVE s[i] \in Range(t)
    <3>1. t[i + 1] = s[i] /\ i + 1 \in DOMAIN t
      BY <1>1, <2>2
    <3>. QED
      BY <3>1 DEF Range
  <2>3. x \in Range(t)
    BY <1>1 DEF Range
  <2>. QED
    BY <1>1, <2>1, <2>2, <2>3 DEF Range
<1>3. ASSUME IsInjective(s), x \notin Range(s) PROVE IsInjective(t)
  <2>1. ASSUME NEW i \in DOMAIN t, NEW m \in DOMAIN t, t[i] = t[m] PROVE i = m
    <3>0. ASSUME NEW h \in DOMAIN t, t[h] = x PROVE h = 1
      <4>1. CASE h # 1
        <5>1. h - 1 \in DOMAIN s /\ s[h - 1] = x
          BY <1>1, <3>0, <4>1
        <5>. QED
          BY <1>3, <5>1 DEF Range
      <4>. QED
        BY <4>1
    <3>1. CASE i = 1 \/ m = 1
      BY <1>1, <2>1, <3>0, <3>1
    <3>2. CASE i # 1 /\ m # 1
      <4>1. s[i - 1] = s[m - 1] /\ i - 1 \in DOMAIN s /\ m - 1 \in DOMAIN s
        BY <1>1, <2>1, <3>2
      <4>2. i - 1 = m - 1
        BY <1>3, <4>1 DEF IsInjective
      <4>. QED
        BY <1>1, <4>2
    <3>. QED
      BY <3>1, <3>2
  <2>. QED
    BY <2>1 DEF IsInjective
<1>. QED
  BY <1>1, <1>2, <1>3 DEF t

\* Head() and Tail().
LEMMA Popping ==
    ASSUME NEW S, NEW s \in Seq(S), s # <<>>, IsInjective(s)
    PROVE  /\ Head(s) \in S /\ Head(s) \in Range(s)
           /\ Tail(s) \in Seq(S) /\ IsInjective(Tail(s))
           /\ Range(Tail(s)) = Range(s) \ {Head(s)}
<1> DEFINE t == Tail(s)
<1>1. /\ t \in Seq(S) /\ DOMAIN t = 1 .. Len(s) - 1 /\ DOMAIN s = 1 .. Len(s)
      /\ Len(s) \in Nat \ {0}
      /\ \A i \in 1 .. Len(s) - 1 : t[i] = s[i + 1]
      /\ Head(s) = s[1] /\ Head(s) \in S
  OBVIOUS
<1> HIDE DEF t
<1>2. Head(s) \in Range(s)
  BY <1>1 DEF Range
<1>3. IsInjective(t)
  <2>1. ASSUME NEW i \in DOMAIN t, NEW m \in DOMAIN t, t[i] = t[m] PROVE i = m
    <3>1. s[i + 1] = s[m + 1] /\ i + 1 \in DOMAIN s /\ m + 1 \in DOMAIN s
      BY <1>1, <2>1
    <3>2. i + 1 = m + 1
      BY <3>1 DEF IsInjective
    <3>. QED
      BY <1>1, <3>2
  <2>. QED
    BY <2>1 DEF IsInjective
<1>4. Range(t) = Range(s) \ {Head(s)}
  <2>1. ASSUME NEW i \in DOMAIN t PROVE t[i] \in Range(s) /\ t[i] # Head(s)
    <3>1. t[i] = s[i + 1] /\ i + 1 \in DOMAIN s /\ i + 1 # 1 /\ 1 \in DOMAIN s
      BY <1>1, <2>1
    <3>. QED
      BY <1>1, <3>1 DEF Range, IsInjective
  <2>2. ASSUME NEW i \in DOMAIN s, s[i] # Head(s) PROVE s[i] \in Range(t)
    <3>1. t[i - 1] = s[i] /\ i - 1 \in DOMAIN t
      BY <1>1, <2>2
    <3>. QED
      BY <3>1 DEF Range
  <2>. QED
    BY <2>1, <2>2 DEF Range
<1>. QED
  BY <1>1, <1>2, <1>3, <1>4 DEF t

\* RemoveAt().
LEMMA Removing ==
    ASSUME NEW S, NEW s \in Seq(S), IsInjective(s), NEW d \in DOMAIN s
    PROVE  /\ RemoveAt(s, d) \in Seq(S) /\ IsInjective(RemoveAt(s, d))
           /\ Range(RemoveAt(s, d)) = Range(s) \ {s[d]}
           /\ Len(RemoveAt(s, d)) = Len(s) - 1
           /\ \A i \in 1 .. Len(s) - 1 : RemoveAt(s, d)[i] = s[IF i < d THEN i ELSE i + 1]
<1> DEFINE t == RemoveAt(s, d)
           u == SubSeq(s, 1, d - 1)
           v == SubSeq(s, d + 1, Len(s))
<1>1. Len(s) \in Nat /\ DOMAIN s = 1 .. Len(s) /\ d \in 1 .. Len(s)
  OBVIOUS
<1>2. u \in Seq(S) /\ Len(u) = d - 1 /\ \A i \in 1 .. d - 1 : u[i] = s[i]
  <2>1. u \in Seq(S)
    OBVIOUS
  <2>2. Len(u) = d - 1
    OBVIOUS
  <2>3. ASSUME NEW i \in 1 .. d - 1 PROVE u[i] = s[i]
    OBVIOUS
  <2>. QED
    BY <2>1, <2>2, <2>3
<1>3. v \in Seq(S) /\ Len(v) = Len(s) - d /\ \A i \in 1 .. Len(s) - d : v[i] = s[i + d]
  <2>1. v \in Seq(S)
    OBVIOUS
  <2>2. Len(v) = Len(s) - d
    OBVIOUS
  <2>3. ASSUME NEW i \in 1 .. Len(s) - d PROVE v[i] = s[i + d]
    OBVIOUS
  <2>. QED
    BY <2>1, <2>2, <2>3
<1>4. t = u \o v
  BY DEF RemoveAt
<1> HIDE DEF t, u, v
<1>5. t \in Seq(S) /\ Len(t) = Len(s) - 1 /\ DOMAIN t = 1 .. Len(s) - 1
  <2>1. t \in Seq(S)
    BY <1>2, <1>3, <1>4
  <2>2. Len(t) = Len(u) + Len(v)
    <3>1. u \in Seq(S) /\ v \in Seq(S)
      BY <1>2, <1>3
    <3>. QED
      BY <1>4, <3>1
  <2>3. Len(t) = Len(s) - 1
    <3>1. Len(u) = d - 1 /\ Len(v) = Len(s) - d
      BY <1>2, <1>3
    <3>. QED
      BY <1>1, <2>2, <3>1
  <2>4. DOMAIN t = 1 .. Len(t)
    BY <2>1
  <2>. QED
    BY <2>1, <2>3, <2>4
<1>6. \A i \in 1 .. Len(s) - 1 : t[i] = s[IF i < d THEN i ELSE i + 1]
  <2>0. u \in Seq(S) /\ v \in Seq(S)
    BY <1>2, <1>3
  <2>1. ASSUME NEW i \in 1 .. Len(u) PROVE t[i] = u[i]
    BY <1>4, <2>0
  <2>2. ASSUME NEW i \in Len(u) + 1 .. Len(u) + Len(v) PROVE t[i] = v[i - Len(u)]
    BY <1>4, <2>0
  <2>3. ASSUME NEW i \in d .. Len(s) - 1 PROVE t[i] = s[i + 1]
    <3>1. t[i] = v[i - (d - 1)]
      BY <1>1, <1>2, <1>3, <2>2
    <3>2. v[i - (d - 1)] = s[(i - (d - 1)) + d]
      BY <1>1, <1>3
    <3>. QED
      BY <1>1, <3>1, <3>2
  <2>. QED
    BY <1>1, <1>2, <2>1, <2>3
<1>7. IsInjective(t)
  <2>1. ASSUME NEW i \in DOMAIN t, NEW m \in DOMAIN t, t[i] = t[m] PROVE i = m
    <3> DEFINE ii == IF i < d THEN i ELSE i + 1
               mm == IF m < d THEN m ELSE m + 1
    <3>1. s[ii] = s[mm] /\ ii \in DOMAIN s /\ mm \in DOMAIN s
      BY <1>1, <1>5, <1>6, <2>1
    <3>2. ii = mm
      BY <3>1 DEF IsInjective
    <3>. QED
      BY <1>1, <1>5, <1>6, <3>2
  <2>. QED
    BY <2>1 DEF IsInjective
<1>8. Range(t) = Range(s) \ {s[d]}
  <2>1. ASSUME NEW i \in DOMAIN t PROVE t[i] \in Range(s) /\ t[i] # s[d]
    <3> DEFINE ii == IF i < d THEN i ELSE i + 1
    <3>1. t[i] = s[ii] /\ ii \in DOMAIN s /\ ii # d
      BY <1>1, <1>5, <1>6, <2>1
    <3>. QED
      BY <1>1, <3>1 DEF Range, IsInjective
  <2>2. ASSUME NEW i \in DOMAIN s, s[i] # s[d] PROVE s[i] \in Range(t)
    <3> DEFINE ii == IF i < d THEN i ELSE i - 1
    <3>1. t[ii] = s[i] /\ ii \in DOMAIN t
      BY <1>1, <1>5, <1>6, <2>2
    <3>. QED
      BY <3>1 DEF Range
  <2>. QED
    BY <2>1, <2>2 DEF Range
<1>. QED
  BY <1>5, <1>6, <1>7, <1>8 DEF t

=============================================================================
