---------------------------- MODULE SleepProofs ----------------------------
(***************************************************************************)
(* The linked lists of kernel/sleep.c, for any number of processes,        *)
(* channels and buckets: the run queue and the sleep table stay exact, and *)
(* what they do is the contract of module SleepSpec, which modules         *)
(* WaitChannel, Resource, BufferCache and Pipe build on.                   *)
(*                                                                         *)
(* The run queue and the sleep table are looked at apart: RunOK is about   *)
(* the fields the one is made of, SleepOK about those of the other.        *)
(***************************************************************************)
EXTENDS Sleep, ListLemmas, FiniteSetTheorems

\* l lists the processes of S, each once, from head along next, and prev leads
\* back.
Lists(l, S, head, next, prev) == /\ l \in Seq(Proc) /\ IsInjective(l) /\ Range(l) = S
                                 /\ IsList(l, head, next, prev)

RunOK(st, hd, nx, pv) ==
    /\ \E l \in Seq(Proc) : Lists(l, {p \in Proc : st[p] = "RUNNING"}, hd, nx, pv)
    /\ \A p \in Proc : st[p] # "RUNNING" => nx[p] = NULL /\ pv[p] = NULL

In(ad, b) == {p \in Proc : ad[p] # NULL /\ SLEEP_HASH[ad[p]] = b}

SleepOK(ad, tb, nx, pv) == \A b \in Bucket : \E l \in Seq(Proc) : Lists(l, In(ad, b), tb[b], nx, pv)

-----------------------------------------------------------------------------
(* Lists. *)

\* What is around an element of a list.
LEMMA Around ==
    ASSUME NEW l, NEW S, NEW hd, NEW nx, NEW pv, Lists(l, S, hd, nx, pv)
    PROVE  /\ Len(l) \in Nat /\ DOMAIN l = 1 .. Len(l) /\ S \subseteq Proc
           /\ hd \in S \cup {NULL} /\ hd = IF Len(l) = 0 THEN NULL ELSE l[1]
           /\ \A i \in 1 .. Len(l) : l[i] \in S /\ l[i] # NULL
           /\ \A i, j \in 1 .. Len(l) : l[i] = l[j] => i = j
           /\ \A p \in S : \E i \in 1 .. Len(l) : p = l[i]
           /\ \A i \in 1 .. Len(l) : /\ nx[l[i]] = IF i = Len(l) THEN NULL ELSE l[i + 1]
                                     /\ pv[l[i]] = IF i = 1 THEN NULL ELSE l[i - 1]
           /\ \A p \in S : nx[p] \in S \cup {NULL} /\ pv[p] \in S \cup {NULL}
<1>1. Len(l) \in Nat /\ DOMAIN l = 1 .. Len(l) /\ S \subseteq Proc /\ l \in Seq(Proc)
  BY DEF Lists, Range
<1>2. \A i \in 1 .. Len(l) : l[i] \in S /\ l[i] # NULL
  BY <1>1, ProcTable DEF Lists, Range
<1>3. \A i, j \in 1 .. Len(l) : l[i] = l[j] => i = j
  BY <1>1 DEF Lists, IsInjective
<1>4. \A p \in S : \E i \in 1 .. Len(l) : p = l[i]
  BY <1>1 DEF Lists, Range
<1>5. \A i \in 1 .. Len(l) : /\ nx[l[i]] = IF i = Len(l) THEN NULL ELSE l[i + 1]
                             /\ pv[l[i]] = IF i = 1 THEN NULL ELSE l[i - 1]
  BY <1>1 DEF Lists, IsList
<1>6. hd \in S \cup {NULL} /\ hd = IF Len(l) = 0 THEN NULL ELSE l[1]
  <2>1. l = <<>> <=> Len(l) = 0
    BY <1>1
  <2>. QED
    BY <1>1, <1>2, <2>1 DEF Lists, IsList
<1>7. \A p \in S : nx[p] \in S \cup {NULL} /\ pv[p] \in S \cup {NULL}
  <2> SUFFICES ASSUME NEW i \in 1 .. Len(l)
               PROVE  nx[l[i]] \in S \cup {NULL} /\ pv[l[i]] \in S \cup {NULL}
    BY <1>4
  <2> DEFINE n == Len(l)
  <2>0. n \in Nat /\ i \in 1 .. n
    BY <1>1
  <2> HIDE DEF n
  <2>1. i # n => i + 1 \in 1 .. n
    BY <2>0
  <2>2. i # 1 => i - 1 \in 1 .. n
    BY <2>0
  <2>. QED
    BY <1>2, <1>5, <2>1, <2>2 DEF n
<1>. QED
  BY <1>1, <1>2, <1>3, <1>4, <1>5, <1>6, <1>7

\* A list from its elements.
LEMMA ListFrom ==
    ASSUME NEW l \in Seq(Proc), IsInjective(l), NEW hd, NEW nx, NEW pv,
           hd = IF Len(l) = 0 THEN NULL ELSE l[1],
           \A i \in 1 .. Len(l) : /\ nx[l[i]] = IF i = Len(l) THEN NULL ELSE l[i + 1]
                                  /\ pv[l[i]] = IF i = 1 THEN NULL ELSE l[i - 1]
    PROVE  Lists(l, Range(l), hd, nx, pv)
<1>1. DOMAIN l = 1 .. Len(l) /\ (l = <<>> <=> Len(l) = 0)
  OBVIOUS
<1>. QED
  BY <1>1 DEF Lists, IsList

\* Links of others may change.
LEMMA Elsewhere ==
    ASSUME NEW l, NEW S, NEW hd, NEW nx, NEW pv, Lists(l, S, hd, nx, pv), NEW nx2, NEW pv2,
           \A p \in S : nx2[p] = nx[p] /\ pv2[p] = pv[p]
    PROVE  Lists(l, S, hd, nx2, pv2)
<1>1. \A i \in DOMAIN l : l[i] \in S
  BY DEF Lists, Range
<1>. QED
  BY <1>1, Zenon DEF Lists, IsList

\* p is put before the others.
LEMMA Pushing ==
    ASSUME NEW l, NEW S, NEW hd, NEW nx, NEW pv, Lists(l, S, hd, nx, pv), NEW nx2, NEW pv2,
           NEW p \in Proc \ S, nx2[p] = hd, pv2[p] = NULL,
           \A q \in S : nx2[q] = nx[q] /\ pv2[q] = IF q = hd THEN p ELSE pv[q]
    PROVE  Lists(<<p>> \o l, S \cup {p}, p, nx2, pv2)
<1> DEFINE t == <<p>> \o l
           n == Len(l)
<1>1. /\ n \in Nat /\ hd = (IF n = 0 THEN NULL ELSE l[1])
      /\ \A i \in 1 .. n : l[i] \in S
      /\ \A i, j \in 1 .. n : l[i] = l[j] => i = j
      /\ \A i \in 1 .. n : /\ nx[l[i]] = IF i = n THEN NULL ELSE l[i + 1]
                           /\ pv[l[i]] = IF i = 1 THEN NULL ELSE l[i - 1]
  BY Around
<1>2. l \in Seq(Proc) /\ IsInjective(l) /\ Range(l) = S
  BY DEF Lists
<1>3. t \in Seq(Proc) /\ IsInjective(t) /\ Range(t) = S \cup {p}
  BY <1>2, Prepending
<1>4. Len(t) = n + 1 /\ t[1] = p /\ \A i \in 2 .. n + 1 : t[i] = l[i - 1]
  BY <1>2
<1> HIDE DEF t, n
<1>5. ASSUME NEW i \in 1 .. n + 1
      PROVE  /\ nx2[t[i]] = IF i = n + 1 THEN NULL ELSE t[i + 1]
             /\ pv2[t[i]] = IF i = 1 THEN NULL ELSE t[i - 1]
  <2>1. CASE i = 1
    <3>1. n # 0 => t[2] = l[1]
      BY <1>1, <1>4
    <3>. QED
      BY <1>1, <1>4, <2>1, <3>1
  <2>2. CASE i # 1
    <3> DEFINE j == i - 1
    <3>1. j \in 1 .. n /\ i = j + 1 /\ t[i] = l[j] /\ l[j] \in S
      BY <1>1, <1>4, <2>2
    <3>2. nx2[t[i]] = nx[l[j]] /\ pv2[t[i]] = IF l[j] = hd THEN p ELSE pv[l[j]]
      BY <3>1
    <3>3. l[j] = hd <=> j = 1
      BY <1>1, <3>1
    <3>4. j # n => t[i + 1] = l[j + 1]
      BY <1>1, <1>4, <3>1
    <3>5. j # 1 => t[i - 1] = l[j - 1]
      BY <1>1, <1>4, <3>1
    <3>6. j = 1 => t[i - 1] = p
      BY <1>4, <3>1
    <3> HIDE DEF j
    <3>. QED
      BY <1>1, <2>2, <3>1, <3>2, <3>3, <3>4, <3>5, <3>6
  <2>. QED
    BY <2>1, <2>2
<1>6. Lists(t, Range(t), p, nx2, pv2)
  <2>1. p = IF Len(t) = 0 THEN NULL ELSE t[1]
    BY <1>1, <1>4
  <2>2. \A i \in 1 .. Len(t) : /\ nx2[t[i]] = IF i = Len(t) THEN NULL ELSE t[i + 1]
                               /\ pv2[t[i]] = IF i = 1 THEN NULL ELSE t[i - 1]
    BY <1>4, <1>5
  <2>. QED
    BY <1>3, <2>1, <2>2, ListFrom, Zenon
<1>. QED
  BY <1>3, <1>6 DEF t

\* The neighbours of p are joined, and the list begins past it.
Leaves(p, S, nx, pv, nx2, pv2) ==
    \A q \in S \ {p} : /\ nx2[q] = IF q = pv[p] THEN nx[p] ELSE nx[q]
                      /\ pv2[q] = IF q = nx[p] THEN pv[p] ELSE pv[q]

Past(p, hd, nx) == IF hd = p THEN nx[p] ELSE hd

\* The process at d leaves the list.
LEMMA Dropping ==
    ASSUME NEW l, NEW S, NEW hd, NEW nx, NEW pv, Lists(l, S, hd, nx, pv), NEW d \in 1 .. Len(l),
           NEW nx2, NEW pv2, Leaves(l[d], S, nx, pv, nx2, pv2)
    PROVE  Lists(RemoveAt(l, d), S \ {l[d]}, Past(l[d], hd, nx), nx2, pv2)
<1> DEFINE t == RemoveAt(l, d)
           n == Len(l)
           p == l[d]
           new == IF hd = p THEN nx[p] ELSE hd
<1>1. /\ n \in Nat /\ d \in 1 .. n /\ hd = (IF n = 0 THEN NULL ELSE l[1])
      /\ \A i \in 1 .. n : l[i] \in S /\ l[i] # NULL
      /\ \A i, j \in 1 .. n : l[i] = l[j] => i = j
      /\ \A i \in 1 .. n : /\ nx[l[i]] = IF i = n THEN NULL ELSE l[i + 1]
                           /\ pv[l[i]] = IF i = 1 THEN NULL ELSE l[i - 1]
  BY Around
<1>2. l \in Seq(Proc) /\ IsInjective(l) /\ Range(l) = S /\ d \in DOMAIN l
  BY DEF Lists
<1>3. /\ t \in Seq(Proc) /\ IsInjective(t) /\ Range(t) = S \ {p} /\ Len(t) = n - 1
      /\ \A i \in 1 .. n - 1 : t[i] = l[IF i < d THEN i ELSE i + 1]
  BY <1>2, Removing, SMTT(30)
<1> HIDE DEF t, n
<1>a. ASSUME NEW i \in 1 .. n - 1 PROVE (i < d => t[i] = l[i]) /\ (i >= d => t[i] = l[i + 1])
  <2>1. t[i] = l[IF i < d THEN i ELSE i + 1]
    BY <1>3
  <2>2. (i < d => (IF i < d THEN i ELSE i + 1) = i) /\ (i >= d => (IF i < d THEN i ELSE i + 1) = i + 1)
    BY <1>1
  <2>. QED
    BY <2>1, <2>2, Zenon
<1>4. ASSUME NEW i \in 1 .. n - 1
      PROVE  /\ nx2[t[i]] = IF i = n - 1 THEN NULL ELSE t[i + 1]
             /\ pv2[t[i]] = IF i = 1 THEN NULL ELSE t[i - 1]
  <2> DEFINE j == IF i < d THEN i ELSE i + 1
  <2>0. (i < d /\ j = i) \/ (i >= d /\ j = i + 1)
    BY <1>1
  <2>1. j \in 1 .. n /\ j # d /\ t[i] = l[j]
    <3>1. j \in 1 .. n /\ j # d
      BY <1>1, <2>0
    <3> HIDE DEF j
    <3>2. t[i] = l[j]
      BY <1>a, <2>0, Zenon
    <3>. QED
      BY <3>1, <3>2
  <2>2. l[j] \in S \ {p}
    BY <1>1, <2>1
  <2>3. /\ nx2[l[j]] = IF l[j] = pv[p] THEN nx[p] ELSE nx[l[j]]
        /\ pv2[l[j]] = IF l[j] = nx[p] THEN pv[p] ELSE pv[l[j]]
    BY <2>2 DEF Leaves
  <2>4. l[j] = pv[p] <=> j = d - 1
    <3>1. pv[p] = IF d = 1 THEN NULL ELSE l[d - 1]
      BY <1>1
    <3>2. CASE d = 1
      BY <1>1, <2>1, <3>1, <3>2
    <3>3. CASE d # 1
      <4>1. d - 1 \in 1 .. n
        BY <1>1, <3>3
      <4> HIDE DEF p, j
      <4>. QED
        BY <1>1, <2>1, <3>1, <3>3, <4>1
    <3>. QED
      BY <3>2, <3>3
  <2>5. l[j] = nx[p] <=> j = d + 1
    <3>1. nx[p] = IF d = n THEN NULL ELSE l[d + 1]
      BY <1>1
    <3>2. CASE d = n
      BY <1>1, <2>1, <3>1, <3>2
    <3>3. CASE d # n
      <4>1. d + 1 \in 1 .. n
        BY <1>1, <3>3
      <4> HIDE DEF p, j
      <4>. QED
        BY <1>1, <2>1, <3>1, <3>3, <4>1
    <3>. QED
      BY <3>2, <3>3
  <2>6. /\ i # n - 1 => (i + 1 < d => t[i + 1] = l[i + 1]) /\ (i + 1 >= d => t[i + 1] = l[i + 2])
        /\ i # 1 => (i - 1 < d => t[i - 1] = l[i - 1]) /\ (i - 1 >= d => t[i - 1] = l[i])
    <3>1. ASSUME i # n - 1
          PROVE  (i + 1 < d => t[i + 1] = l[i + 1]) /\ (i + 1 >= d => t[i + 1] = l[i + 2])
      <4>1. i + 1 \in 1 .. n - 1 /\ (i + 1) + 1 = i + 2
        BY <1>1, <3>1
      <4>. QED
        BY <1>a, <4>1
    <3>2. ASSUME i # 1
          PROVE  (i - 1 < d => t[i - 1] = l[i - 1]) /\ (i - 1 >= d => t[i - 1] = l[i])
      <4>1. i - 1 \in 1 .. n - 1 /\ (i - 1) + 1 = i
        BY <1>1, <3>2
      <4>. QED
        BY <1>a, <4>1
    <3>. QED
      BY <3>1, <3>2
  <2>7. /\ nx[p] = (IF d = n THEN NULL ELSE l[d + 1]) /\ pv[p] = (IF d = 1 THEN NULL ELSE l[d - 1])
        /\ nx[l[j]] = (IF j = n THEN NULL ELSE l[j + 1]) /\ pv[l[j]] = (IF j = 1 THEN NULL ELSE l[j - 1])
    BY <1>1, <2>1
  <2> HIDE DEF p, j
  <2>8. CASE i < d - 1
    BY <1>1, <2>0, <2>1, <2>3, <2>4, <2>5, <2>6, <2>7, <2>8
  <2>9. CASE i = d - 1
    BY <1>1, <2>0, <2>1, <2>3, <2>4, <2>5, <2>6, <2>7, <2>9
  <2>10. CASE i = d
    BY <1>1, <2>0, <2>1, <2>3, <2>4, <2>5, <2>6, <2>7, <2>10
  <2>11. CASE i > d
    <3>1. /\ j = i + 1 /\ j # d - 1 /\ j # d + 1 /\ j # 1 /\ i # 1 /\ i + 1 >= d /\ i - 1 >= d
          /\ j + 1 = i + 2 /\ j - 1 = i /\ (j = n <=> i = n - 1)
      <4>1. n \in Nat /\ d \in 1 .. n /\ j \in 1 .. n
        BY <1>1, <2>1
      <4>. QED
        BY <2>0, <2>11, <4>1
    <3>2. nx2[l[j]] = nx[l[j]] /\ pv2[l[j]] = pv[l[j]]
      BY <2>3, <2>4, <2>5, <3>1
    <3>. QED
      BY <2>1, <2>6, <2>7, <3>1, <3>2
  <2>. QED
    BY <1>1, <2>8, <2>9, <2>10, <2>11
<1>5. new = IF n - 1 = 0 THEN NULL ELSE t[1]
  <2>1. CASE d = 1
    <3>1. hd = p /\ nx[p] = IF n = 1 THEN NULL ELSE l[2]
      BY <1>1, <2>1
    <3>2. n # 1 => t[1] = l[2]
      BY <1>1, <1>a, <2>1
    <3>. QED
      BY <1>1, <3>1, <3>2
  <2>2. CASE d # 1
    <3>1. hd = l[1] /\ hd # p /\ n # 1
      BY <1>1, <2>2
    <3>2. t[1] = l[1]
      BY <1>1, <1>a, <2>2, <3>1
    <3>. QED
      BY <1>1, <3>1, <3>2
  <2>. QED
    BY <2>1, <2>2
<1> HIDE DEF new, p
<1>6. Lists(t, Range(t), new, nx2, pv2)
  <2>1. new = IF Len(t) = 0 THEN NULL ELSE t[1]
    BY <1>3, <1>5
  <2>2. \A i \in 1 .. Len(t) : /\ nx2[t[i]] = IF i = Len(t) THEN NULL ELSE t[i + 1]
                               /\ pv2[t[i]] = IF i = 1 THEN NULL ELSE t[i - 1]
    BY <1>3, <1>4
  <2>. QED
    BY <1>3, <2>1, <2>2, ListFrom, Zenon
<1>. QED
  BY <1>3, <1>6 DEF t, p, new, Past

-----------------------------------------------------------------------------
(* The run queue. *)

Links == [Proc -> Link]

\* runnable() of a process that is not.
LEMMA RunPush ==
    ASSUME NEW st \in [Proc -> {"RUNNING", "SLEEPING", "STOPPED"}], NEW hd \in Link,
           NEW nx \in Links, NEW pv \in Links, RunOK(st, hd, nx, pv),
           NEW p \in Proc, st[p] # "RUNNING"
    PROVE  RunOK([st EXCEPT ![p] = "RUNNING"], p,
                 [nx EXCEPT ![p] = IF hd # NULL THEN hd ELSE nx[p]],
                 [q \in Proc |-> IF q = hd THEN p ELSE pv[q]])
<1> DEFINE S == {q \in Proc : st[q] = "RUNNING"}
           st2 == [st EXCEPT ![p] = "RUNNING"]
           nx2 == [nx EXCEPT ![p] = IF hd # NULL THEN hd ELSE nx[p]]
           pv2 == [q \in Proc |-> IF q = hd THEN p ELSE pv[q]]
<1>1. PICK l \in Seq(Proc) : Lists(l, S, hd, nx, pv)
  BY DEF RunOK
<1>2. nx[p] = NULL /\ pv[p] = NULL
  BY DEF RunOK
<1>3. hd \in S \cup {NULL} /\ S \subseteq Proc /\ p \in Proc \ S
  BY <1>1, Around
<1>4. nx2[p] = hd /\ pv2[p] = NULL
  BY <1>2, <1>3 DEF Links
<1>5. \A q \in S : nx2[q] = nx[q] /\ pv2[q] = IF q = hd THEN p ELSE pv[q]
  BY DEF Links
<1>6. {q \in Proc : st2[q] = "RUNNING"} = S \cup {p}
  OBVIOUS
<1>7. ASSUME NEW q \in Proc, st2[q] # "RUNNING" PROVE nx2[q] = NULL /\ pv2[q] = NULL
  <2>1. st[q] # "RUNNING" /\ q # p /\ q # hd
    BY <1>3, <1>7, ProcTable
  <2>. QED
    BY <2>1 DEF RunOK, Links
<1>8. <<p>> \o l \in Seq(Proc)
  OBVIOUS
<1> HIDE DEF S, st2, nx2, pv2
<1>9. Lists(<<p>> \o l, S \cup {p}, p, nx2, pv2)
  BY <1>1, <1>3, <1>4, <1>5, Pushing
<1>10. RunOK(st2, p, nx2, pv2)
  BY <1>6, <1>7, <1>8, <1>9, Zenon DEF RunOK
<1>. QED
  BY <1>10 DEF st2, nx2, pv2

\* not_runnable(), of a process that is on the queue or not.
LEMMA RunDrop ==
    ASSUME NEW st \in [Proc -> {"RUNNING", "SLEEPING", "STOPPED"}], NEW hd \in Link,
           NEW nx \in Links, NEW pv \in Links, RunOK(st, hd, nx, pv),
           NEW p \in Proc, NEW s \in {"SLEEPING", "STOPPED"}
    PROVE  RunOK([st EXCEPT ![p] = s], IF hd = p THEN nx[p] ELSE hd,
                 [Joined(nx, pv, p) EXCEPT ![p] = NULL], [Joined(pv, nx, p) EXCEPT ![p] = NULL])
<1> DEFINE S == {q \in Proc : st[q] = "RUNNING"}
           st2 == [st EXCEPT ![p] = s]
           hd2 == IF hd = p THEN nx[p] ELSE hd
           nx2 == [Joined(nx, pv, p) EXCEPT ![p] = NULL]
           pv2 == [Joined(pv, nx, p) EXCEPT ![p] = NULL]
<1>1. PICK l \in Seq(Proc) : Lists(l, S, hd, nx, pv)
  BY DEF RunOK
<1>2. {q \in Proc : st2[q] = "RUNNING"} = S \ {p}
  OBVIOUS
<1>3. nx2[p] = NULL /\ pv2[p] = NULL
  BY DEF Joined
<1>4. \A q \in Proc \ {p} : /\ nx2[q] = IF q = pv[p] THEN nx[p] ELSE nx[q]
                            /\ pv2[q] = IF q = nx[p] THEN pv[p] ELSE pv[q]
  BY DEF Joined
<1>5. hd \in S \cup {NULL} /\ S \subseteq Proc /\ NULL \notin Proc
      /\ \A q \in S : nx[q] \in S \cup {NULL} /\ pv[q] \in S \cup {NULL}
  BY <1>1, Around, ProcTable
<1>6. \A q \in Proc : q \notin S => nx[q] = NULL /\ pv[q] = NULL
  BY DEF RunOK
<1> HIDE DEF st2, nx2, pv2
<1>7. ASSUME NEW q \in Proc, st2[q] # "RUNNING" PROVE nx2[q] = NULL /\ pv2[q] = NULL
  <2>1. CASE q = p
    BY <1>3, <2>1
  <2>2. CASE q # p
    <3>1. q \notin S
      BY <1>2, <1>7, <2>2
    <3>2. q # pv[p] /\ q # nx[p]
      BY <1>5, <1>6, <3>1
    <3>. QED
      BY <1>4, <1>6, <2>2, <3>1, <3>2
  <2>. QED
    BY <2>1, <2>2
<1> HIDE DEF S, hd2
<1>8. \E t \in Seq(Proc) : Lists(t, S \ {p}, hd2, nx2, pv2)
  <2>1. CASE p \in S
    <3>1. PICK d \in 1 .. Len(l) : p = l[d]
      BY <1>1, <2>1, Around
    <3>2. Leaves(p, S, nx, pv, nx2, pv2)
      BY <1>4, <1>5 DEF Leaves
    <3>3. Lists(RemoveAt(l, d), S \ {p}, Past(p, hd, nx), nx2, pv2)
      BY <1>1, <3>1, <3>2, Dropping
    <3>. QED
      BY <3>3, Zenon DEF Lists, hd2, Past
  <2>2. CASE p \notin S
    <3>1. nx[p] = NULL /\ pv[p] = NULL /\ hd2 = hd /\ S \ {p} = S
      BY <1>5, <1>6, <2>2 DEF hd2
    <3>2. \A q \in S : nx2[q] = nx[q] /\ pv2[q] = pv[q]
      BY <1>4, <1>5, <2>2, <3>1
    <3>3. Lists(l, S, hd, nx2, pv2)
      BY <1>1, <3>2, Elsewhere, Zenon
    <3>. QED
      BY <3>1, <3>3, Zenon
  <2>. QED
    BY <2>1, <2>2
<1>9. RunOK(st2, hd2, nx2, pv2)
  BY <1>2, <1>7, <1>8, Zenon DEF RunOK
<1>. QED
  BY <1>9 DEF st2, nx2, pv2, hd2

-----------------------------------------------------------------------------
(* The sleep table. *)

Addresses == [Proc -> Chan \cup {NULL}]

Table == [Bucket -> Link]

\* Register().
LEMMA SleepPush ==
    ASSUME NEW ad \in Addresses, NEW tb \in Table, NEW nx \in Links, NEW pv \in Links,
           SleepOK(ad, tb, nx, pv), NEW p \in Proc, ad[p] = NULL, NEW a \in Chan,
           NEW b \in Bucket, b = SLEEP_HASH[a]
    PROVE  SleepOK([ad EXCEPT ![p] = a], [tb EXCEPT ![b] = p], [nx EXCEPT ![p] = tb[b]],
                   [q \in Proc |-> IF q = p THEN NULL ELSE IF q = tb[b] THEN p ELSE pv[q]])
<1> DEFINE ad2 == [ad EXCEPT ![p] = a]
           tb2 == [tb EXCEPT ![b] = p]
           nx2 == [nx EXCEPT ![p] = tb[b]]
           pv2 == [q \in Proc |-> IF q = p THEN NULL ELSE IF q = tb[b] THEN p ELSE pv[q]]
<1>1. \A c \in Bucket : In(ad, c) \subseteq Proc \ {p}
  BY DEF In
<1>2. /\ In(ad2, b) = In(ad, b) \cup {p}
      /\ \A c \in Bucket \ {b} : In(ad2, c) = In(ad, c) /\ In(ad, c) \cap In(ad, b) = {}
  <2>1. a # NULL /\ ad2[p] = a /\ \A q \in Proc \ {p} : ad2[q] = ad[q]
    BY ProcTable DEF Addresses
  <2> HIDE DEF ad2
  <2>. QED
    BY <2>1 DEF In
<1>3. tb2[b] = p /\ \A c \in Bucket \ {b} : tb2[c] = tb[c]
  BY DEF Table
<1>4. PICK l \in Seq(Proc) : Lists(l, In(ad, b), tb[b], nx, pv)
  BY DEF SleepOK
<1>5. tb[b] \in In(ad, b) \cup {NULL} /\ NULL \notin Proc
  BY <1>4, Around, ProcTable
<1>6. /\ nx2[p] = tb[b] /\ pv2[p] = NULL
      /\ \A q \in Proc \ {p} : nx2[q] = nx[q] /\ pv2[q] = IF q = tb[b] THEN p ELSE pv[q]
  BY DEF Links
<1> HIDE DEF ad2, tb2, nx2, pv2
<1>7. Lists(<<p>> \o l, In(ad2, b), tb2[b], nx2, pv2)
  <2>1. p \in Proc \ In(ad, b)
    BY <1>1
  <2>2. \A q \in In(ad, b) : nx2[q] = nx[q] /\ pv2[q] = IF q = tb[b] THEN p ELSE pv[q]
    BY <1>1, <1>6
  <2>3. Lists(<<p>> \o l, In(ad, b) \cup {p}, p, nx2, pv2)
    BY <1>4, <1>6, <2>1, <2>2, Pushing
  <2>. QED
    BY <1>2, <1>3, <2>3
<1>8. ASSUME NEW c \in Bucket \ {b}
      PROVE  \E t \in Seq(Proc) : Lists(t, In(ad2, c), tb2[c], nx2, pv2)
  <2>1. PICK t \in Seq(Proc) : Lists(t, In(ad, c), tb[c], nx, pv)
    BY DEF SleepOK
  <2>2. \A q \in In(ad, c) : nx2[q] = nx[q] /\ pv2[q] = pv[q]
    BY <1>1, <1>2, <1>5, <1>6
  <2>3. Lists(t, In(ad, c), tb[c], nx2, pv2)
    BY <2>1, <2>2, Elsewhere, Zenon
  <2>. QED
    BY <1>2, <1>3, <2>3
<1>9. <<p>> \o l \in Seq(Proc)
  BY <1>4
<1>10. SleepOK(ad2, tb2, nx2, pv2)
  BY <1>7, <1>8, <1>9, Zenon DEF SleepOK
<1>. QED
  BY <1>10 DEF ad2, tb2, nx2, pv2

\* p leaves its bucket.
LEMMA SleepDrop ==
    ASSUME NEW ad \in Addresses, NEW tb \in Table, NEW nx \in Links, NEW pv \in Links,
           SleepOK(ad, tb, nx, pv), NEW p \in Proc, ad[p] # NULL,
           NEW b \in Bucket, b = SLEEP_HASH[ad[p]],
           NEW nx2, NEW pv2, Leaves(p, Proc, nx, pv, nx2, pv2)
    PROVE  SleepOK([ad EXCEPT ![p] = NULL], [tb EXCEPT ![b] = Past(p, tb[b], nx)], nx2, pv2)
<1> DEFINE ad2 == [ad EXCEPT ![p] = NULL]
           tb2 == [tb EXCEPT ![b] = Past(p, tb[b], nx)]
<1>1. \A c \in Bucket : In(ad, c) \subseteq Proc
  BY DEF In
<1>2. /\ p \in In(ad, b) /\ In(ad2, b) = In(ad, b) \ {p}
      /\ \A c \in Bucket \ {b} : In(ad2, c) = In(ad, c) /\ In(ad, c) \cap In(ad, b) = {}
  <2>1. ad2[p] = NULL /\ \A q \in Proc \ {p} : ad2[q] = ad[q]
    BY DEF Addresses
  <2> HIDE DEF ad2
  <2>. QED
    BY <2>1 DEF In
<1>3. tb2[b] = Past(p, tb[b], nx) /\ \A c \in Bucket \ {b} : tb2[c] = tb[c]
  BY DEF Table
<1>4. PICK l \in Seq(Proc) : Lists(l, In(ad, b), tb[b], nx, pv)
  BY DEF SleepOK
<1>5. PICK d \in 1 .. Len(l) : p = l[d]
  BY <1>2, <1>4, Around
<1>6. nx[p] \in In(ad, b) \cup {NULL} /\ pv[p] \in In(ad, b) \cup {NULL} /\ NULL \notin Proc
  BY <1>2, <1>4, Around, ProcTable
<1> HIDE DEF ad2, tb2
<1>7. \E t \in Seq(Proc) : Lists(t, In(ad2, b), tb2[b], nx2, pv2)
  <2>1. Leaves(p, In(ad, b), nx, pv, nx2, pv2)
    BY <1>1 DEF Leaves
  <2>2. Lists(RemoveAt(l, d), In(ad, b) \ {p}, Past(p, tb[b], nx), nx2, pv2)
    BY <1>4, <1>5, <2>1, Dropping
  <2>3. Lists(RemoveAt(l, d), In(ad2, b), tb2[b], nx2, pv2)
    BY <1>2, <1>3, <2>2
  <2>4. RemoveAt(l, d) \in Seq(Proc)
    BY <2>3, Zenon DEF Lists
  <2>. QED
    BY <2>3, <2>4, Zenon
<1>8. ASSUME NEW c \in Bucket \ {b}
      PROVE  \E t \in Seq(Proc) : Lists(t, In(ad2, c), tb2[c], nx2, pv2)
  <2>1. PICK t \in Seq(Proc) : Lists(t, In(ad, c), tb[c], nx, pv)
    BY DEF SleepOK
  <2>2. \A q \in In(ad, c) : nx2[q] = nx[q] /\ pv2[q] = pv[q]
    BY <1>1, <1>2, <1>6 DEF Leaves
  <2>3. Lists(t, In(ad, c), tb[c], nx2, pv2)
    BY <2>1, <2>2, Elsewhere, ZenonT(30)
  <2>. QED
    BY <1>2, <1>3, <2>3
<1>9. SleepOK(ad2, tb2, nx2, pv2)
  BY <1>7, <1>8, Zenon DEF SleepOK
<1>. QED
  BY <1>9 DEF ad2, tb2

-----------------------------------------------------------------------------
(* The functions of sleep.c. *)

Runs(r) == RunOK(r.state, r.proc_run_head, r.next_run, r.prev_run)

Sleeps(r) == SleepOK(r.sleep_address, r.sleep_hash_table, r.next_sleep, r.prev_sleep)

SameQueue(r, x) == /\ x.state = r.state /\ x.proc_run_head = r.proc_run_head
                   /\ x.next_run = r.next_run /\ x.prev_run = r.prev_run

SameTable(r, x) == /\ x.sleep_address = r.sleep_address /\ x.sleep_hash_table = r.sleep_hash_table
                   /\ x.next_sleep = r.next_sleep /\ x.prev_sleep = r.prev_sleep

Good(r) == r \in MType /\ Runs(r) /\ Sleeps(r)

\* runnable() leaves p on the run queue, and leaves the sleep table alone.
LEMMA RunnableIs ==
    ASSUME NEW r \in MType, Runs(r), NEW p \in Proc, NEW x, x = runnable(r, p)
    PROVE  /\ x \in MType /\ Runs(x)
           /\ x.state = [r.state EXCEPT ![p] = "RUNNING"] /\ x.notint = r.notint /\ SameTable(r, x)
<1>1. CASE r.state[p] = "RUNNING"
  BY <1>1 DEF runnable, SameTable, MType
<1>2. CASE r.state[p] # "RUNNING"
  <2>1. x \in MType
    BY <1>2 DEF runnable, MType, Link
  <2>2. /\ x.state = [r.state EXCEPT ![p] = "RUNNING"] /\ x.proc_run_head = p
        /\ x.next_run = [r.next_run EXCEPT ![p] = IF r.proc_run_head # NULL THEN r.proc_run_head
                                                   ELSE r.next_run[p]]
        /\ x.prev_run = [q \in Proc |-> IF q = r.proc_run_head THEN p ELSE r.prev_run[q]]
    BY <1>2 DEF runnable, MType
  <2>3. x.notint = r.notint /\ SameTable(r, x)
    BY <1>2 DEF runnable, MType, SameTable
  <2>4. /\ r.state \in [Proc -> {"RUNNING", "SLEEPING", "STOPPED"}] /\ r.proc_run_head \in Link
        /\ r.next_run \in Links /\ r.prev_run \in Links
    BY DEF MType, Links
  <2>5. Runs(x)
    BY <1>2, <2>2, <2>4, RunPush DEF Runs
  <2>. QED
    BY <2>1, <2>2, <2>3, <2>5
<1>. QED
  BY <1>1, <1>2

\* not_runnable() takes p off the run queue, and leaves the sleep table alone.
LEMMA NotRunnableIs ==
    ASSUME NEW r \in MType, Runs(r), NEW p \in Proc, NEW s \in {"SLEEPING", "STOPPED"},
           NEW x, x = not_runnable(r, p, s)
    PROVE  /\ x \in MType /\ Runs(x)
           /\ x.state = [r.state EXCEPT ![p] = s] /\ x.notint = r.notint /\ SameTable(r, x)
<1> DEFINE nx == [Joined(r.next_run, r.prev_run, p) EXCEPT ![p] = NULL]
           pv == [Joined(r.prev_run, r.next_run, p) EXCEPT ![p] = NULL]
           hd == IF r.proc_run_head = p THEN r.next_run[p] ELSE r.proc_run_head
           st == [r.state EXCEPT ![p] = s]
<1>1. /\ r.state \in [Proc -> {"RUNNING", "SLEEPING", "STOPPED"}] /\ r.proc_run_head \in Link
      /\ r.next_run \in Links /\ r.prev_run \in Links
  BY DEF MType, Links
<1>2. /\ nx \in [Proc -> Link] /\ pv \in [Proc -> Link] /\ hd \in Link
      /\ st \in [Proc -> {"RUNNING", "SLEEPING", "STOPPED"}]
  BY <1>1 DEF Joined, Links, Link
<1>3. RunOK(st, hd, nx, pv)
  BY <1>1, RunDrop DEF Runs
<1>4. x = [r EXCEPT !.prev_run = pv, !.next_run = nx, !.proc_run_head = hd, !.state = st]
  BY DEF not_runnable, MType
<1> HIDE DEF nx, pv, hd, st
<1>5. x \in MType
  BY <1>2, <1>4 DEF MType
<1>6. x.state = st /\ x.next_run = nx /\ x.prev_run = pv /\ x.proc_run_head = hd
  BY <1>4 DEF MType
<1>7. x.notint = r.notint /\ SameTable(r, x)
  BY <1>4 DEF MType, SameTable
<1>. QED
  BY <1>3, <1>5, <1>6, <1>7, Zenon DEF Runs, st

\* Register() puts p first in the bucket of its channel, and leaves the run
\* queue alone.
LEMMA RegisterIs ==
    ASSUME NEW r, Good(r), NEW p \in Proc, r.sleep_address[p] = NULL, NEW a \in Chan,
           NEW x, x = Register(r, p, a)
    PROVE  /\ Good(x) /\ x.sleep_address = [r.sleep_address EXCEPT ![p] = a]
           /\ x.notint = r.notint /\ SameQueue(r, x)
<1> DEFINE b == SLEEP_HASH[a]
           ad == [r.sleep_address EXCEPT ![p] = a]
           tb == [r.sleep_hash_table EXCEPT ![b] = p]
           nx == [r.next_sleep EXCEPT ![p] = r.sleep_hash_table[b]]
           pv == [q \in Proc |-> IF q = p THEN NULL
                                 ELSE IF q = r.sleep_hash_table[b] THEN p ELSE r.prev_sleep[q]]
<1>1. /\ r \in MType /\ b \in Bucket
      /\ r.sleep_address \in Addresses /\ r.sleep_hash_table \in Table
      /\ r.next_sleep \in Links /\ r.prev_sleep \in Links
  BY HashIsRight DEF Good, MType, Addresses, Table, Links
<1>2. /\ ad \in [Proc -> Chan \cup {NULL}] /\ tb \in [Bucket -> Link]
      /\ nx \in [Proc -> Link] /\ pv \in [Proc -> Link]
  BY <1>1 DEF Addresses, Table, Links, Link
<1>3. SleepOK(ad, tb, nx, pv)
  BY <1>1, SleepPush DEF Good, Sleeps
<1>4. x = [r EXCEPT !.next_sleep = nx, !.prev_sleep = pv, !.sleep_hash_table = tb,
                    !.sleep_address = ad]
  BY <1>1 DEF Register, MType
<1> HIDE DEF ad, tb, nx, pv
<1>5. x \in MType
  BY <1>1, <1>2, <1>4 DEF MType
<1>6. x.sleep_address = ad /\ x.sleep_hash_table = tb /\ x.next_sleep = nx /\ x.prev_sleep = pv
  BY <1>1, <1>4 DEF MType
<1>7. x.notint = r.notint /\ SameQueue(r, x)
  BY <1>1, <1>4 DEF MType, SameQueue
<1>8. Runs(x)
  BY <1>7, Zenon DEF SameQueue, Runs, Good
<1>. QED
  BY <1>3, <1>5, <1>6, <1>7, <1>8, Zenon DEF Good, Sleeps, ad

\* sleep_notint is no part of a list.
LEMMA Noting ==
    ASSUME NEW r, Good(r), NEW N \in SUBSET Proc, NEW x, x = [r EXCEPT !.notint = N]
    PROVE  Good(x) /\ x.notint = N /\ SameQueue(r, x) /\ SameTable(r, x)
<1>1. x \in MType /\ x.notint = N /\ SameQueue(r, x) /\ SameTable(r, x)
  BY DEF Good, MType, SameQueue, SameTable
<1>. QED
  BY <1>1, Zenon DEF Good, Runs, Sleeps, SameQueue, SameTable

\* How the sleep table changes when p leaves its bucket.
FreedAddress(r, p) == [r.sleep_address EXCEPT ![p] = NULL]

FreedTable(r, p) ==
    [r.sleep_hash_table EXCEPT ![SLEEP_HASH[r.sleep_address[p]]] = Past(p, @, r.next_sleep)]

Freed(r, p, x) ==
    /\ x.sleep_address = FreedAddress(r, p)
    /\ x.sleep_hash_table = FreedTable(r, p)
    /\ Leaves(p, Proc, r.next_sleep, r.prev_sleep, x.next_sleep, x.prev_sleep)

\* A table from which p was unlinked has exact buckets again.
LEMMA FreedSleeps ==
    ASSUME NEW r \in MType, Sleeps(r), NEW p \in Proc, r.sleep_address[p] # NULL,
           NEW x, Freed(r, p, x)
    PROVE  Sleeps(x)
<1> DEFINE b == SLEEP_HASH[r.sleep_address[p]]
<1>1. /\ r.sleep_address \in Addresses /\ r.sleep_hash_table \in Table
      /\ r.next_sleep \in Links /\ r.prev_sleep \in Links
  BY DEF MType, Addresses, Table, Links
<1>2. b \in Bucket
  BY <1>1, HashIsRight DEF Addresses
<1>3. /\ x.sleep_address = [r.sleep_address EXCEPT ![p] = NULL]
      /\ x.sleep_hash_table = [r.sleep_hash_table EXCEPT ![b] = Past(p, r.sleep_hash_table[b], r.next_sleep)]
      /\ Leaves(p, Proc, r.next_sleep, r.prev_sleep, x.next_sleep, x.prev_sleep)
  BY DEF Freed, FreedAddress, FreedTable
<1>. QED
  BY <1>1, <1>2, <1>3, SleepDrop, SMTT(30) DEF Sleeps

\* unlink_sleep() of a process that is registered.
LEMMA UnlinkSleepIs ==
    ASSUME NEW r \in MType, NEW p \in Proc, NEW x, x = UnlinkSleep(r, p)
    PROVE  /\ x \in MType /\ SameQueue(r, x) /\ x.notint = r.notint
           /\ x.sleep_address = r.sleep_address /\ x.sleep_hash_table = r.sleep_hash_table
           /\ Leaves(p, Proc, r.next_sleep, r.prev_sleep, x.next_sleep, x.prev_sleep)
           /\ x.next_sleep[p] = r.next_sleep[p]
<1> DEFINE nx == Joined(r.next_sleep, r.prev_sleep, p)
           pv == Joined(r.prev_sleep, r.next_sleep, p)
<1>1. /\ nx \in [Proc -> Link] /\ pv \in [Proc -> Link] /\ nx[p] = r.next_sleep[p]
      /\ Leaves(p, Proc, r.next_sleep, r.prev_sleep, nx, pv)
  BY DEF Joined, MType, Leaves
<1>2. x = [r EXCEPT !.prev_sleep = pv, !.next_sleep = nx]
  BY DEF UnlinkSleep
<1> HIDE DEF nx, pv
<1>. QED
  BY <1>1, <1>2 DEF MType, SameQueue

\* sleep_disarm() of a process that is registered.
LEMMA DisarmIs ==
    ASSUME NEW r, Good(r), NEW p \in Proc, r.sleep_address[p] # NULL, NEW x, x = sleep_disarm(r, p)
    PROVE  /\ Good(x) /\ x.sleep_address = [r.sleep_address EXCEPT ![p] = NULL]
           /\ x.notint = r.notint /\ SameQueue(r, x)
<1> DEFINE b == SLEEP_HASH[r.sleep_address[p]]
           u == UnlinkSleep(r, p)
           ad == [r.sleep_address EXCEPT ![p] = NULL]
           tb == [r.sleep_hash_table EXCEPT ![b] = Past(p, @, r.next_sleep)]
           nx == [u.next_sleep EXCEPT ![p] = NULL]
           pv == [u.prev_sleep EXCEPT ![p] = NULL]
<1>0. r \in MType
  BY DEF Good
<1>1. /\ u \in MType /\ SameQueue(r, u) /\ u.notint = r.notint
      /\ u.sleep_address = r.sleep_address /\ u.sleep_hash_table = r.sleep_hash_table
      /\ Leaves(p, Proc, r.next_sleep, r.prev_sleep, u.next_sleep, u.prev_sleep)
  BY <1>0, UnlinkSleepIs, ZenonT(30)
<1>2. x = [u EXCEPT !.sleep_hash_table[b] = IF @ = p THEN r.next_sleep[p] ELSE @,
                    !.sleep_address[p] = NULL, !.next_sleep[p] = NULL, !.prev_sleep[p] = NULL]
  BY DEF sleep_disarm
<1> HIDE DEF u
<1>3. x = [u EXCEPT !.sleep_hash_table = tb, !.sleep_address = ad,
                    !.next_sleep = nx, !.prev_sleep = pv]
  BY <1>0, <1>1, <1>2 DEF MType, Past
<1>4. /\ ad \in [Proc -> Chan \cup {NULL}] /\ tb \in [Bucket -> Link]
      /\ nx \in [Proc -> Link] /\ pv \in [Proc -> Link]
  BY <1>0, <1>1 DEF MType, Past, Link
<1>5. Leaves(p, Proc, r.next_sleep, r.prev_sleep, nx, pv)
  BY <1>1 DEF MType, Leaves
<1> HIDE DEF ad, tb, nx, pv
<1>6. x \in MType
  BY <1>1, <1>3, <1>4 DEF MType
<1>7. /\ x.sleep_address = ad /\ x.sleep_hash_table = tb /\ x.next_sleep = nx /\ x.prev_sleep = pv
      /\ x.notint = u.notint /\ SameQueue(u, x)
  BY <1>1, <1>3 DEF MType, SameQueue
<1>8. Freed(r, p, x)
  BY <1>5, <1>7 DEF Freed, FreedAddress, FreedTable, ad, tb
<1>9. Sleeps(x)
  BY <1>0, <1>8, FreedSleeps DEF Good
<1>10. SameQueue(r, x)
  BY <1>1, <1>7 DEF SameQueue
<1>11. Runs(x)
  BY <1>10, Zenon DEF SameQueue, Runs, Good
<1>. QED
  BY <1>1, <1>6, <1>7, <1>9, <1>10, <1>11 DEF Good, ad

\* wakeup_proc() and the loop of wakeup() keep the links of p itself.
SameLinks(r, y) == y.next_sleep = r.next_sleep /\ y.prev_sleep = r.prev_sleep

FreedFrom(r, p, y) == [UnlinkSleep(y, p) EXCEPT !.sleep_hash_table = FreedTable(r, p),
                                                !.sleep_address = FreedAddress(r, p)]

LEMMA Unlinked ==
    ASSUME NEW r \in MType, NEW p \in Proc, r.sleep_address[p] # NULL, NEW y \in MType,
           SameLinks(r, y), NEW x, x = FreedFrom(r, p, y)
    PROVE  x \in MType /\ Freed(r, p, x) /\ SameQueue(y, x) /\ x.notint = y.notint
<1> DEFINE u == UnlinkSleep(y, p)
           tb == FreedTable(r, p)
           ad == FreedAddress(r, p)
<1>1. /\ u \in MType /\ SameQueue(y, u) /\ u.notint = y.notint
      /\ Leaves(p, Proc, r.next_sleep, r.prev_sleep, u.next_sleep, u.prev_sleep)
  BY UnlinkSleepIs, Zenon DEF SameLinks
<1> HIDE DEF u
<1>2. ad \in [Proc -> Chan \cup {NULL}] /\ tb \in [Bucket -> Link]
  BY DEF MType, Past, Link, FreedTable, FreedAddress
<1>3. x = [u EXCEPT !.sleep_hash_table = tb, !.sleep_address = ad]
  BY DEF u, FreedFrom
<1>4. x \in MType
  BY <1>1, <1>2, <1>3 DEF MType
<1>5. /\ x.sleep_address = ad /\ x.sleep_hash_table = tb
      /\ x.next_sleep = u.next_sleep /\ x.prev_sleep = u.prev_sleep
      /\ x.notint = u.notint /\ SameQueue(u, x)
  BY <1>1, <1>3 DEF MType, SameQueue
<1>6. Freed(r, p, x)
  BY <1>1, <1>5 DEF Freed
<1>. QED
  BY <1>1, <1>4, <1>5, <1>6 DEF SameQueue

Abs(r) == [state |-> r.state, sleep_address |-> r.sleep_address, notint |-> r.notint]

\* wakeup_proc() keeps the lists, and does what the contract says.
LEMMA WakeupProcIs ==
    ASSUME NEW r, Good(r), NEW p \in Proc, NEW x, x = wakeup_proc(r, p)
    PROVE  Good(x) /\ Abs(x) = Contract!wakeup_proc(Abs(r), p)
<1>0. r \in MType
  BY DEF Good
<1>1. CASE r.state[p] \notin {"SLEEPING", "STOPPED"} \/ p \in r.notint
  <2>1. x = r /\ ~Contract!CanWakeProc(Abs(r), p)
    BY <1>1 DEF wakeup_proc, Contract!CanWakeProc, Abs
  <2>. QED
    BY <1>0, <2>1 DEF Contract!wakeup_proc, Abs, MType
<1>2. CASE ~(r.state[p] \notin {"SLEEPING", "STOPPED"} \/ p \in r.notint)
  <2> DEFINE b == SLEEP_HASH[r.sleep_address[p]]
             tb == FreedTable(r, p)
             ad == FreedAddress(r, p)
             u == IF r.sleep_address[p] = NULL THEN r
                  ELSE [UnlinkSleep(r, p) EXCEPT !.sleep_hash_table[b] =
                                                     IF @ = p THEN r.next_sleep[p] ELSE @]
             v == [u EXCEPT !.sleep_address[p] = NULL]
  <2>1. x = runnable(v, p)
    BY <1>2 DEF wakeup_proc
  <2>2. Good(v) /\ SameQueue(r, v) /\ v.notint = r.notint /\ v.sleep_address = ad
    <3>1. CASE r.sleep_address[p] = NULL
      <4>1. u = r
        BY <3>1
      <4> HIDE DEF u
      <4>2. v = r /\ r.sleep_address = ad
        BY <1>0, <3>1, <4>1 DEF MType, FreedAddress
      <4>. QED
        BY <4>2, Zenon DEF SameQueue
    <3>2. CASE r.sleep_address[p] # NULL
      <4> DEFINE w == UnlinkSleep(r, p)
      <4>1. /\ w \in MType /\ w.sleep_address = r.sleep_address
            /\ w.sleep_hash_table = r.sleep_hash_table
        BY <1>0, UnlinkSleepIs, ZenonT(30)
      <4>2. u = [w EXCEPT !.sleep_hash_table[b] = IF @ = p THEN r.next_sleep[p] ELSE @]
        BY <3>2
      <4> HIDE DEF w, u
      <4>3. v = [w EXCEPT !.sleep_hash_table = tb, !.sleep_address = ad]
        BY <1>0, <4>1, <4>2 DEF MType, Past, FreedTable, FreedAddress
      <4> HIDE DEF v
      <4>4. v \in MType /\ Freed(r, p, v) /\ SameQueue(r, v) /\ v.notint = r.notint
        <5>1. v = FreedFrom(r, p, r) /\ SameLinks(r, r)
          BY <4>3 DEF w, FreedFrom, SameLinks
        <5>. QED
          BY <1>0, <3>2, <5>1, Unlinked
      <4>5. Sleeps(v) /\ Runs(v)
        <5>1. Sleeps(v)
          BY <1>0, <3>2, <4>4, FreedSleeps DEF Good
        <5>. QED
          BY <4>4, <5>1, Zenon DEF SameQueue, Runs, Good
      <4>. QED
        BY <4>4, <4>5, Zenon DEF Good, Freed
    <3>. QED
      BY <3>1, <3>2
  <2> HIDE DEF v, ad
  <2>3. /\ x \in MType /\ Runs(x) /\ SameTable(v, x) /\ x.notint = v.notint
        /\ x.state = [v.state EXCEPT ![p] = "RUNNING"]
    <3>1. v \in MType /\ Runs(v)
      BY <2>2 DEF Good
    <3>. QED
      BY <2>1, <3>1, RunnableIs
  <2>4. Good(x)
    BY <2>2, <2>3, Zenon DEF Good, Sleeps, SameTable
  <2>5. x.state = [r.state EXCEPT ![p] = "RUNNING"] /\ x.notint = r.notint /\ x.sleep_address = ad
    BY <2>2, <2>3 DEF SameQueue, SameTable
  <2>6. Contract!CanWakeProc(Abs(r), p)
    BY <1>2 DEF Contract!CanWakeProc, Abs
  <2>. QED
    BY <2>4, <2>5, <2>6 DEF Contract!wakeup_proc, Abs, ad, FreedAddress
<1>. QED
  BY <1>1, <1>2

FoundState(r, p) ==
    IF r.state[p] = "SLEEPING" THEN [r.state EXCEPT ![p] = "RUNNING"] ELSE r.state

\* What one iteration of the loop of wakeup() does to the process it finds.
LEMMA FoundIs ==
    ASSUME NEW r, Good(r), NEW p \in Proc, r.sleep_address[p] # NULL,
           h = NULL <=> r.sleep_hash_table[SLEEP_HASH[r.sleep_address[p]]] = p,
           NEW x, x = Found(r, p)
    PROVE  /\ Good(x) /\ Freed(r, p, x) /\ x.notint = r.notint \ {p}
           /\ x.state = FoundState(r, p)
<1> DEFINE b == SLEEP_HASH[r.sleep_address[p]]
           ad == FreedAddress(r, p)
           tb == FreedTable(r, p)
           y0 == [r EXCEPT !.sleep_address[p] = NULL, !.notint = @ \ {p}]
           y == IF r.state[p] = "SLEEPING" THEN runnable(y0, p) ELSE y0
           u == UnlinkSleep(y, p)
<1>0. r \in MType /\ Runs(r) /\ Sleeps(r)
  BY DEF Good
<1>1. /\ y0 \in MType /\ SameQueue(r, y0) /\ SameLinks(r, y0) /\ y0.notint = r.notint \ {p}
      /\ y0.sleep_address = ad /\ y0.sleep_hash_table = r.sleep_hash_table
  BY <1>0 DEF MType, SameQueue, SameLinks, FreedAddress
<1> HIDE DEF y0
<1>2. Runs(y0)
  BY <1>0, <1>1, Zenon DEF SameQueue, Runs
<1>3. /\ y \in MType /\ Runs(y) /\ SameTable(y0, y) /\ y.notint = y0.notint
      /\ y.state = FoundState(r, p)
  <2>1. CASE r.state[p] = "SLEEPING"
    <3>1. y = runnable(y0, p)
      BY <2>1
    <3> HIDE DEF y
    <3>2. /\ y \in MType /\ Runs(y) /\ SameTable(y0, y) /\ y.notint = y0.notint
          /\ y.state = [y0.state EXCEPT ![p] = "RUNNING"]
      BY <1>1, <1>2, <3>1, RunnableIs
    <3>. QED
      BY <1>1, <2>1, <3>2 DEF SameQueue, FoundState
  <2>2. CASE r.state[p] # "SLEEPING"
    BY <1>1, <1>2, <2>2 DEF SameQueue, SameTable, FoundState
  <2>. QED
    BY <2>1, <2>2
<1>4. SameLinks(r, y) /\ y.sleep_address = ad /\ y.sleep_hash_table = r.sleep_hash_table
      /\ y.notint = r.notint \ {p}
  BY <1>1, <1>3, Zenon DEF SameLinks, SameTable
<1>5. x = [u EXCEPT !.sleep_hash_table[b] = IF h = NULL THEN u.next_sleep[p] ELSE @]
  BY Zenon DEF Found, y0
<1> HIDE DEF y
<1>6. /\ u \in MType /\ u.sleep_address = ad /\ u.sleep_hash_table = r.sleep_hash_table
      /\ u.next_sleep[p] = r.next_sleep[p]
  <2>1. /\ u \in MType /\ u.sleep_address = y.sleep_address
        /\ u.sleep_hash_table = y.sleep_hash_table /\ u.next_sleep[p] = y.next_sleep[p]
    BY <1>3, UnlinkSleepIs, ZenonT(30)
  <2>. QED
    BY <1>4, <2>1, Zenon DEF SameLinks
<1>7. x = FreedFrom(r, p, y)
  <2>1. tb = [r.sleep_hash_table EXCEPT ![b] = IF h = NULL THEN r.next_sleep[p] ELSE @]
    BY DEF FreedTable, Past
  <2> HIDE DEF u, tb, ad, b
  <2>2. x = [u EXCEPT !.sleep_hash_table = tb, !.sleep_address = ad]
    BY <1>5, <1>6, <2>1 DEF MType
  <2>. QED
    BY <2>2, Zenon DEF u, FreedFrom, tb, ad
<1>8. x \in MType /\ Freed(r, p, x) /\ SameQueue(y, x) /\ x.notint = y.notint
  BY <1>0, <1>3, <1>4, <1>7, Unlinked, SMTT(30)
<1>9. Runs(x)
  BY <1>3, <1>8, Zenon DEF Runs, SameQueue
<1>10. Sleeps(x)
  BY <1>0, <1>8, FreedSleeps, Zenon
<1>. QED
  BY <1>3, <1>4, <1>8, <1>9, <1>10, Zenon DEF Good, SameQueue

-----------------------------------------------------------------------------
(* The invariant. *)

\* Where the loop of wakeup(w) is when it looks through g: those it has gone
\* past are registered on other channels.
WalkOK(r, w, g) ==
    \E l \in Seq(Proc) : \E n \in 0 .. Len(l) :
        /\ Lists(l, In(r.sleep_address, SLEEP_HASH[w]), r.sleep_hash_table[SLEEP_HASH[w]],
                 r.next_sleep, r.prev_sleep)
        /\ g = IF n = 0 THEN NULL ELSE l[n]
        /\ \A i \in 1 .. n : r.sleep_address[l[i]] # w

IInv == /\ Good(m)
        /\ waking \in Chan \cup {NULL}
        /\ IF waking = NULL THEN h = NULL ELSE WalkOK(m, waking, h)

\* Each call but wakeup() keeps the lists, and is a step of the contract.
LEMMA CallsStep ==
    ASSUME Good(m), Calls, Visible = Abs(m), Visible' = Abs(m)'
    PROVE  Good(m)' /\ Contract!Next
<1>0. /\ m \in MType /\ Runs(m) /\ Sleeps(m) /\ Visible.state = m.state
      /\ Visible.sleep_address = m.sleep_address /\ Visible.notint = m.notint
      /\ \A q \in Proc : (Contract!Executing(q) <=> Executing(q)) /\ (Contract!Unarmed(q) <=> Unarmed(q))
  BY DEF Good, Abs, Contract!Executing, Contract!Unarmed, Executing, Unarmed
<1>1. ASSUME NEW p \in Proc, NEW a \in Chan, Arm(p, a) PROVE Good(m)' /\ Contract!Arm(p, a)
  <2>1. Executing(p) /\ m' = sleep_arm(m, p, a) /\ m.state[p] # "SLEEPING"
    BY <1>1 DEF Arm, Executing
  <2>2. CASE m.sleep_address[p] # NULL
    <3>1. m' = m
      BY <2>1, <2>2 DEF sleep_arm
    <3>2. m.sleep_address = [m.sleep_address EXCEPT ![p] = IF @ = NULL THEN a ELSE @]
      BY <1>0, <2>2 DEF MType
    <3>. QED
      BY <1>0, <2>1, <3>1, <3>2 DEF Contract!Arm, Contract!sleep_arm, Abs
  <2>3. CASE m.sleep_address[p] = NULL
    <3>1. m' = Register(m, p, a)
      BY <2>1, <2>3 DEF sleep_arm
    <3>2. /\ Good(m') /\ m'.sleep_address = [m.sleep_address EXCEPT ![p] = a]
          /\ m'.notint = m.notint /\ SameQueue(m, m')
      BY <2>3, <3>1, RegisterIs
    <3>3. m'.sleep_address = [m.sleep_address EXCEPT ![p] = IF @ = NULL THEN a ELSE @]
      BY <2>3, <3>2
    <3>. QED
      BY <1>0, <2>1, <3>2, <3>3 DEF Contract!Arm, Contract!sleep_arm, Abs, SameQueue
  <2>. QED
    BY <2>2, <2>3
<1>2. ASSUME NEW p \in Proc, NEW a \in Chan, NEW i \in BOOLEAN, Sleep(p, a, i)
      PROVE  Good(m)' /\ Contract!Sleep(p, a, i)
  <2> DEFINE r == Register(m, p, a)
             N == IF i THEN r.notint ELSE r.notint \cup {p}
             f == [r EXCEPT !.notint = N]
  <2>1. /\ Executing(p) /\ Unarmed(p) /\ m.sleep_address[p] = NULL
        /\ m' = not_runnable(f, p, "SLEEPING")
    BY <1>2 DEF Sleep, Unarmed
  <2>2. /\ Good(r) /\ r.sleep_address = [m.sleep_address EXCEPT ![p] = a]
        /\ r.notint = m.notint /\ SameQueue(m, r)
    BY <2>1, RegisterIs
  <2> HIDE DEF r
  <2>3. N \in SUBSET Proc
    BY <2>2 DEF Good, MType
  <2> HIDE DEF N
  <2>4. Good(f) /\ f.notint = N /\ SameQueue(r, f) /\ SameTable(r, f)
    BY <2>2, <2>3, Noting
  <2> HIDE DEF f
  <2>5. /\ m' \in MType /\ Runs(m') /\ m'.state = [f.state EXCEPT ![p] = "SLEEPING"]
        /\ m'.notint = f.notint /\ SameTable(f, m')
    <3>1. f \in MType /\ Runs(f) /\ "SLEEPING" \in {"SLEEPING", "STOPPED"}
      BY <2>4 DEF Good
    <3>. QED
      BY <2>1, <3>1, NotRunnableIs, Zenon
  <2>6. Good(m')
    BY <2>4, <2>5, Zenon DEF Good, Sleeps, SameTable
  <2>7. /\ m'.state = [m.state EXCEPT ![p] = "SLEEPING"]
        /\ m'.sleep_address = [m.sleep_address EXCEPT ![p] = a]
        /\ m'.notint = IF i THEN m.notint ELSE m.notint \cup {p}
    BY <2>2, <2>4, <2>5 DEF SameQueue, SameTable, N
  <2>. QED
    BY <1>0, <2>1, <2>6, <2>7 DEF Contract!Sleep, Contract!sleep, Abs
<1>3. ASSUME NEW p \in Proc, Disarm(p) PROVE Good(m)' /\ Contract!Disarm(p)
  <2>1. Executing(p) /\ m' = sleep_disarm(m, p)
    BY <1>3 DEF Disarm
  <2>2. CASE m.sleep_address[p] = NULL
    <3>1. m' = m
      BY <2>1, <2>2 DEF sleep_disarm
    <3>2. m.sleep_address = [m.sleep_address EXCEPT ![p] = NULL]
      BY <1>0, <2>2 DEF MType
    <3>. QED
      BY <1>0, <2>1, <3>1, <3>2 DEF Contract!Disarm, Contract!sleep_disarm, Abs
  <2>3. CASE m.sleep_address[p] # NULL
    <3>1. /\ Good(m') /\ m'.sleep_address = [m.sleep_address EXCEPT ![p] = NULL]
          /\ m'.notint = m.notint /\ SameQueue(m, m')
      BY <2>1, <2>3, DisarmIs
    <3>. QED
      BY <1>0, <2>1, <3>1 DEF Contract!Disarm, Contract!sleep_disarm, Abs, SameQueue
  <2>. QED
    BY <2>2, <2>3
<1>4. ASSUME NEW p \in Proc, NEW i \in BOOLEAN, Commit(p, i)
      PROVE  Good(m)' /\ Contract!Commit(p, i)
  <2> DEFINE N == IF i THEN m.notint ELSE m.notint \cup {p}
             f == [m EXCEPT !.notint = N]
  <2>1. Executing(p) /\ ~Unarmed(p) /\ m' = not_runnable(f, p, "SLEEPING")
    BY <1>4 DEF Commit
  <2>2. N \in SUBSET Proc
    BY <1>0 DEF MType
  <2> HIDE DEF N
  <2>3. Good(f) /\ f.notint = N /\ SameQueue(m, f) /\ SameTable(m, f)
    BY <2>2, Noting
  <2> HIDE DEF f
  <2>4. /\ m' \in MType /\ Runs(m') /\ m'.state = [f.state EXCEPT ![p] = "SLEEPING"]
        /\ m'.notint = f.notint /\ SameTable(f, m')
    <3>1. f \in MType /\ Runs(f) /\ "SLEEPING" \in {"SLEEPING", "STOPPED"}
      BY <2>3 DEF Good
    <3>. QED
      BY <2>1, <3>1, NotRunnableIs, ZenonT(30)
  <2>5. Good(m')
    BY <2>3, <2>4, Zenon DEF Good, Sleeps, SameTable
  <2>6. /\ m'.state = [m.state EXCEPT ![p] = "SLEEPING"] /\ m'.sleep_address = m.sleep_address
        /\ m'.notint = IF i THEN m.notint ELSE m.notint \cup {p}
    BY <2>3, <2>4 DEF SameQueue, SameTable, N
  <2>7. ~Contract!CommitReturnsAtOnce(Visible, p)
    BY <1>0, <2>1 DEF Contract!CommitReturnsAtOnce, Unarmed
  <2>. QED
    BY <1>0, <2>1, <2>5, <2>6, <2>7 DEF Contract!Commit, Contract!sleep_commit, Abs
<1>5. ASSUME NEW p \in Proc, Stop(p) PROVE Good(m)' /\ Contract!Stop(p)
  <2>1. Executing(p) /\ Unarmed(p) /\ m' = not_runnable(m, p, "STOPPED")
    BY <1>5 DEF Stop
  <2>2. /\ m' \in MType /\ Runs(m') /\ m'.state = [m.state EXCEPT ![p] = "STOPPED"]
        /\ m'.notint = m.notint /\ SameTable(m, m')
    <3>1. m \in MType /\ Runs(m) /\ "STOPPED" \in {"SLEEPING", "STOPPED"}
      BY <1>0
    <3>. QED
      BY <2>1, <3>1, NotRunnableIs, ZenonT(30)
  <2>3. Good(m')
    BY <1>0, <2>2, Zenon DEF Good, Sleeps, SameTable
  <2>. QED
    BY <1>0, <2>1, <2>2, <2>3 DEF Contract!Stop, Contract!not_runnable, Abs, SameTable
<1>6. ASSUME NEW p \in Proc, WakeupProc(p) PROVE Good(m)' /\ Contract!WakeupProc(p)
  <2>1. Good(m') /\ Abs(m') = Contract!wakeup_proc(Abs(m), p)
    BY <1>6, WakeupProcIs DEF WakeupProc
  <2>. QED
    BY <2>1 DEF Contract!WakeupProc, Abs
<1>. QED
  BY <1>1, <1>2, <1>3, <1>4, <1>5, <1>6 DEF Calls, Contract!Next

\* The process the loop of wakeup() looks at.
LEMMA MetIs ==
    ASSUME NEW l, NEW S, NEW n \in 0 .. Len(l), h = IF n = 0 THEN NULL ELSE l[n],
           Lists(l, S, m.sleep_hash_table[SLEEP_HASH[waking]], m.next_sleep, m.prev_sleep)
    PROVE  /\ Met = IF n = Len(l) THEN NULL ELSE l[n + 1]
           /\ n # Len(l) => n + 1 \in 1 .. Len(l) /\ Met \in S /\ Met # NULL
           /\ h = NULL <=> n = 0
<1> DEFINE hd == m.sleep_hash_table[SLEEP_HASH[waking]]
           c == Len(l)
<1>1. /\ c \in Nat /\ hd = (IF c = 0 THEN NULL ELSE l[1])
      /\ \A i \in 1 .. c : l[i] \in S /\ l[i] # NULL
      /\ \A i \in 1 .. c : m.next_sleep[l[i]] = IF i = c THEN NULL ELSE l[i + 1]
  BY Around
<1>2. n \in 0 .. c /\ Met = IF h = NULL THEN hd ELSE m.next_sleep[h]
  BY DEF Met
<1> HIDE DEF hd, c
<1>3. (n = 0 \/ n \in 1 .. c) /\ (n # c => n + 1 \in 1 .. c)
  BY <1>1, <1>2
<1>4. h = NULL <=> n = 0
  BY <1>1, <1>3
<1>5. Met = IF n = c THEN NULL ELSE l[n + 1]
  <2>1. CASE n = 0
    BY <1>1, <1>2, <1>4, <2>1
  <2>2. CASE n # 0
    BY <1>1, <1>2, <1>3, <1>4, <2>2
  <2>. QED
    BY <2>1, <2>2
<1>. QED
  BY <1>1, <1>3, <1>4, <1>5 DEF c

\* The loop finds a process: it leaves the bucket, and the next one is at *h.
LEMMA FindsStep ==
    ASSUME IInv, WakeupFinds
    PROVE  IInv' /\ Visible' = Visible
<1> DEFINE b == SLEEP_HASH[waking]
           p == Met
           ad == m.sleep_address
<1>1. /\ Good(m) /\ m \in MType /\ waking \in Chan /\ waking # NULL /\ p # NULL
      /\ waking' = waking /\ h' = h /\ m' = Found(m, p) /\ ad[p] = waking
  BY DEF IInv, WakeupFinds, Good
<1>2. PICK l \in Seq(Proc) : \E n \in 0 .. Len(l) :
          /\ Lists(l, In(ad, b), m.sleep_hash_table[b], m.next_sleep, m.prev_sleep)
          /\ h = IF n = 0 THEN NULL ELSE l[n]
          /\ \A i \in 1 .. n : ad[l[i]] # waking
  BY <1>1 DEF IInv, WalkOK
<1>3. PICK n \in 0 .. Len(l) :
          /\ Lists(l, In(ad, b), m.sleep_hash_table[b], m.next_sleep, m.prev_sleep)
          /\ h = IF n = 0 THEN NULL ELSE l[n]
          /\ \A i \in 1 .. n : ad[l[i]] # waking
  BY <1>2
<1>4. /\ p = IF n = Len(l) THEN NULL ELSE l[n + 1]
      /\ n # Len(l) => n + 1 \in 1 .. Len(l) /\ p \in In(ad, b)
      /\ h = NULL <=> n = 0
  BY <1>3, MetIs
<1>5. p = l[n + 1] /\ n + 1 \in 1 .. Len(l) /\ p \in Proc /\ ad[p] # NULL
  BY <1>1, <1>4 DEF In
<1> HIDE DEF p
<1>6. h = NULL <=> m.sleep_hash_table[SLEEP_HASH[ad[p]]] = p
  <2>1. /\ Len(l) \in Nat /\ m.sleep_hash_table[b] = (IF Len(l) = 0 THEN NULL ELSE l[1])
        /\ \A i, j \in 1 .. Len(l) : l[i] = l[j] => i = j
    BY <1>3, Around
  <2>2. 1 \in 1 .. Len(l) /\ Len(l) # 0 /\ (n + 1 = 1 <=> n = 0)
    BY <1>5, <2>1
  <2>3. l[1] = l[n + 1] <=> n = 0
    BY <1>5, <2>1, <2>2
  <2>. QED
    BY <1>1, <1>4, <1>5, <2>1, <2>2, <2>3
<1>7. /\ Good(m') /\ Freed(m, p, m') /\ m'.notint = m.notint \ {p}
      /\ m'.state = FoundState(m, p)
  <2>1. Good(m) /\ p \in Proc /\ m.sleep_address[p] # NULL /\ m' = Found(m, p)
    BY <1>1, <1>5
  <2>2. h = NULL <=> m.sleep_hash_table[SLEEP_HASH[m.sleep_address[p]]] = p
    BY <1>6
  <2> QED
    BY <2>1, <2>2, FoundIs, Zenon
<1>8. /\ m' \in MType /\ m'.sleep_address[p] = NULL
      /\ \A q \in Proc \ {p} : m'.sleep_address[q] = ad[q]
  BY <1>1, <1>5, <1>7, SMTT(30) DEF Good, MType, Freed, FreedAddress
<1>9. In(m'.sleep_address, b) = In(ad, b) \ {p}
  BY <1>8 DEF In
<1>10. /\ m'.sleep_hash_table[b] = Past(p, m.sleep_hash_table[b], m.next_sleep)
       /\ Leaves(p, In(ad, b), m.next_sleep, m.prev_sleep, m'.next_sleep, m'.prev_sleep)
  <2>1. b \in Bucket /\ m.sleep_hash_table \in [Bucket -> Link]
    BY <1>1, HashIsRight DEF MType
  <2>. QED
    BY <1>1, <1>7, <2>1 DEF Freed, FreedTable, Leaves, In
<1>11. WalkOK(m', waking, h)
  <2> DEFINE t == RemoveAt(l, n + 1)
             c == Len(l)
  <2>1. Lists(t, In(m'.sleep_address, b), m'.sleep_hash_table[b], m'.next_sleep, m'.prev_sleep)
    <3>1. Lists(t, In(ad, b) \ {p}, Past(p, m.sleep_hash_table[b], m.next_sleep),
                m'.next_sleep, m'.prev_sleep)
      BY <1>3, <1>5, <1>10, Dropping
    <3>. QED
      BY <1>9, <1>10, <3>1
  <2>2. /\ t \in Seq(Proc) /\ Len(t) = c - 1 /\ c \in Nat /\ n + 1 \in 1 .. c /\ n \in 0 .. c
        /\ \A i \in 1 .. c - 1 : t[i] = l[IF i < n + 1 THEN i ELSE i + 1]
    <3>1. l \in Seq(Proc) /\ IsInjective(l) /\ n + 1 \in DOMAIN l
      BY <1>3, <1>5, SMTT(30) DEF Lists
    <3>2. /\ t \in Seq(Proc) /\ Len(t) = c - 1
          /\ \A i \in 1 .. c - 1 : t[i] = l[IF i < n + 1 THEN i ELSE i + 1]
      BY <3>1, Removing
    <3> HIDE DEF t
    <3>. QED
      BY <1>5, <3>1, <3>2
  <2> HIDE DEF t, c
  <2>3. n \in 0 .. c - 1 /\ \A i \in 1 .. n : i \in 1 .. c - 1 /\ i < n + 1 /\ i # n + 1 /\ i \in 1 .. c
    BY <2>2
  <2>4. \A i \in 1 .. n : t[i] = l[i]
    BY <2>2, <2>3
  <2>5. h = IF n = 0 THEN NULL ELSE t[n]
    <3>1. n # 0 => n \in 1 .. n
      BY <2>3
    <3>. QED
      BY <1>3, <2>4, <3>1
  <2>6. \A i \in 1 .. n : m'.sleep_address[t[i]] # waking
    <3>1. \A i, j \in 1 .. c : l[i] \in Proc /\ (l[i] = l[j] => i = j)
      BY <1>3, Around DEF c
    <3>2. \A i \in 1 .. n : l[i] \in Proc \ {p} /\ ad[l[i]] # waking
      BY <1>3, <1>5, <2>2, <2>3, <3>1
    <3>. QED
      BY <1>8, <2>4, <3>2
  <2>7. n \in 0 .. Len(t)
    BY <2>2, <2>3
  <2>. QED
    BY <2>1, <2>2, <2>5, <2>6, <2>7, Zenon DEF WalkOK
<1>12. IInv'
  BY <1>1, <1>7, <1>11 DEF IInv
<1>13. Visible' = Visible
  <2>1. Visible = Ops!wakeup(Abs(m), waking) /\ Visible' = Ops!wakeup(Abs(m'), waking)
    BY <1>1 DEF Visible, Abs
  <2> DEFINE R == Ops!Registered(Abs(m), waking)
             R2 == Ops!Registered(Abs(m'), waking)
  <2>2. R2 = R \ {p} /\ p \in R
    BY <1>1, <1>5, <1>8 DEF Ops!Registered, Abs
  <2> HIDE DEF R, R2
  <2>3. \A q \in Proc : (IF q \in R2 /\ m'.state[q] = "SLEEPING" THEN "RUNNING" ELSE m'.state[q])
                       = (IF q \in R /\ m.state[q] = "SLEEPING" THEN "RUNNING" ELSE m.state[q])
    BY <1>1, <1>5, <1>7, <2>2 DEF FoundState, MType
  <2>4. \A q \in Proc : (IF q \in R2 THEN NULL ELSE m'.sleep_address[q])
                       = (IF q \in R THEN NULL ELSE ad[q])
    BY <1>8, <2>2
  <2>5. m'.notint \ R2 = m.notint \ R
    BY <1>7, <2>2
  <2>6. /\ Visible = [state |-> [q \in Proc |-> IF q \in R /\ m.state[q] = "SLEEPING"
                                                  THEN "RUNNING" ELSE m.state[q]],
                      sleep_address |-> [q \in Proc |-> IF q \in R THEN NULL ELSE ad[q]],
                      notint |-> m.notint \ R]
        /\ Visible' = [state |-> [q \in Proc |-> IF q \in R2 /\ m'.state[q] = "SLEEPING"
                                                   THEN "RUNNING" ELSE m'.state[q]],
                       sleep_address |-> [q \in Proc |-> IF q \in R2 THEN NULL ELSE m'.sleep_address[q]],
                       notint |-> m'.notint \ R2]
    BY <2>1 DEF Ops!wakeup, Abs, R, R2
  <2>. QED
    BY <2>3, <2>4, <2>5, <2>6
<1>. QED
  BY <1>12, <1>13

\* The loop goes past a process that waits for something else.
LEMMA PassesStep ==
    ASSUME IInv, WakeupPasses
    PROVE  IInv' /\ Visible' = Visible
<1> DEFINE b == SLEEP_HASH[waking]
           ad == m.sleep_address
<1>1. /\ Good(m) /\ waking \in Chan /\ waking # NULL /\ Met # NULL
      /\ m' = m /\ waking' = waking /\ h' = Met /\ ad[Met] # waking
  BY DEF IInv, WakeupPasses
<1>2. PICK l \in Seq(Proc) : \E n \in 0 .. Len(l) :
          /\ Lists(l, In(ad, b), m.sleep_hash_table[b], m.next_sleep, m.prev_sleep)
          /\ h = IF n = 0 THEN NULL ELSE l[n]
          /\ \A i \in 1 .. n : ad[l[i]] # waking
  BY <1>1 DEF IInv, WalkOK
<1>3. PICK n \in 0 .. Len(l) :
          /\ Lists(l, In(ad, b), m.sleep_hash_table[b], m.next_sleep, m.prev_sleep)
          /\ h = IF n = 0 THEN NULL ELSE l[n]
          /\ \A i \in 1 .. n : ad[l[i]] # waking
  BY <1>2
<1>4. Met = l[n + 1] /\ n + 1 \in 0 .. Len(l) /\ n + 1 # 0
  <2>1. /\ Met = IF n = Len(l) THEN NULL ELSE l[n + 1]
        /\ n # Len(l) => n + 1 \in 1 .. Len(l)
    BY <1>3, MetIs
  <2>. QED
    BY <1>1, <2>1
<1>5. \A i \in 1 .. n + 1 : ad[l[i]] # waking
  <2>1. \A i \in 1 .. n + 1 : i = n + 1 \/ i \in 1 .. n
    OBVIOUS
  <2>. QED
    BY <1>1, <1>3, <1>4, <2>1
<1>6. WalkOK(m, waking, Met)
  BY <1>3, <1>4, <1>5 DEF WalkOK
<1>. QED
  BY <1>1, <1>6 DEF IInv, Visible

\* The loop has come to the end of the bucket: nobody is left on the channel.
LEMMA EndsStep ==
    ASSUME IInv, WakeupEnds
    PROVE  IInv' /\ Visible' = Visible
<1> DEFINE b == SLEEP_HASH[waking]
           ad == m.sleep_address
<1>1. /\ Good(m) /\ m \in MType /\ waking \in Chan /\ waking # NULL /\ Met = NULL
      /\ m' = m /\ waking' = NULL /\ h' = NULL
  BY DEF IInv, WakeupEnds, Good
<1>2. PICK l \in Seq(Proc) : \E n \in 0 .. Len(l) :
          /\ Lists(l, In(ad, b), m.sleep_hash_table[b], m.next_sleep, m.prev_sleep)
          /\ h = IF n = 0 THEN NULL ELSE l[n]
          /\ \A i \in 1 .. n : ad[l[i]] # waking
  BY <1>1 DEF IInv, WalkOK
<1>3. PICK n \in 0 .. Len(l) :
          /\ Lists(l, In(ad, b), m.sleep_hash_table[b], m.next_sleep, m.prev_sleep)
          /\ h = IF n = 0 THEN NULL ELSE l[n]
          /\ \A i \in 1 .. n : ad[l[i]] # waking
  BY <1>2
<1>4. n = Len(l)
  BY <1>1, <1>3, MetIs
<1>5. \A q \in Proc : ad[q] # waking
  <2>1. \A q \in In(ad, b) : \E i \in 1 .. Len(l) : q = l[i]
    BY <1>3, Around
  <2>2. \A q \in In(ad, b) : ad[q] # waking
    BY <1>3, <1>4, <2>1
  <2>. QED
    BY <1>1, <2>2 DEF In
<1>6. IInv'
  BY <1>1 DEF IInv
<1>7. Visible' = Visible
  <2>1. Ops!Registered(Abs(m), waking) = {}
    BY <1>5 DEF Ops!Registered, Abs
  <2>2. Ops!wakeup(Abs(m), waking)
          = [state |-> [q \in Proc |-> m.state[q]], sleep_address |-> [q \in Proc |-> ad[q]],
             notint |-> m.notint]
    BY <2>1 DEF Ops!wakeup, Abs
  <2>3. [q \in Proc |-> m.state[q]] = m.state /\ [q \in Proc |-> ad[q]] = ad
    BY <1>1 DEF MType
  <2>4. Ops!wakeup(Abs(m), waking) = Abs(m)
    BY <2>2, <2>3 DEF Abs
  <2>. QED
    BY <1>1, <2>4 DEF Visible, Abs
<1>. QED
  BY <1>6, <1>7

\* The loop begins at the head of the bucket.
LEMMA WakeupStep ==
    ASSUME IInv, NEW a \in Chan, Wakeup(a)
    PROVE  IInv' /\ Contract!Next
<1>1. /\ Good(m) /\ waking = NULL /\ h = NULL /\ m' = m /\ waking' = a /\ h' = h /\ a # NULL
  BY ProcTable DEF IInv, Wakeup
<1>2. WalkOK(m, a, NULL)
  <2>1. SLEEP_HASH[a] \in Bucket
    BY HashIsRight
  <2>2. PICK l \in Seq(Proc) :
            Lists(l, In(m.sleep_address, SLEEP_HASH[a]), m.sleep_hash_table[SLEEP_HASH[a]],
                  m.next_sleep, m.prev_sleep)
    BY <1>1, <2>1 DEF Good, Sleeps, SleepOK
  <2>3. 0 \in 0 .. Len(l) /\ \A i \in 1 .. 0 : FALSE
    OBVIOUS
  <2>. QED
    BY <2>2, <2>3 DEF WalkOK
<1>3. Visible = Abs(m) /\ Visible' = Ops!wakeup(Abs(m), a)
  BY <1>1 DEF Visible, Abs
<1>4. Ops!wakeup(Abs(m), a) = Contract!wakeup(Abs(m), a)
  BY DEF Ops!wakeup, Contract!wakeup, Ops!Registered, Contract!Registered
<1>5. Contract!Wakeup(a)
  BY <1>3, <1>4 DEF Contract!Wakeup
<1>. QED
  BY <1>1, <1>2, <1>5 DEF IInv, Contract!Next

\* An arrangement of a finite set has all of its elements, each once.
LEMMA Orders ==
    ASSUME NEW S, IsFiniteSet(S), NEW l
    PROVE  l \in Arrangements(S) <=> l \in Seq(S) /\ IsInjective(l) /\ Range(l) = S
<1> DEFINE n == Cardinality(S)
<1>0. n \in Nat
  BY FS_CardinalityType
<1>1. \A k \in Nat : IsFiniteSet(1 .. k) /\ Cardinality(1 .. k) = k
  BY FS_Interval
<1> HIDE DEF n
<1>2. ASSUME l \in Arrangements(S) PROVE l \in Seq(S) /\ IsInjective(l) /\ Range(l) = S
  <2>1. l \in [1 .. n -> S] /\ IsInjective(l)
    BY <1>2 DEF Arrangements, Injection, n
  <2>2. l \in Injection(1 .. n, S)
    BY <1>2 DEF Arrangements, n
  <2>3. l \in Surjection(1 .. n, S)
    BY <1>0, <1>1, <2>2, FS_Injection DEF n
  <2>4. \A x \in S : \E i \in 1 .. n : l[i] = x
    BY <2>3, Zenon DEF Surjection
  <2>. QED
    BY <1>0, <2>1, <2>4 DEF Range
<1>3. ASSUME l \in Seq(S), IsInjective(l), Range(l) = S PROVE l \in Arrangements(S)
  <2> DEFINE k == Len(l)
  <2>1. k \in Nat /\ l \in [1 .. k -> S]
    BY <1>3
  <2>2. l \in Injection(1 .. k, S)
    BY <1>3, <2>1 DEF Injection
  <2>3. l \in Surjection(1 .. k, S)
    BY <1>3, <2>1 DEF Surjection, Range
  <2> HIDE DEF k
  <2>4. k = n
    BY <1>1, <2>1, <2>2, <2>3, FS_Injection DEF n
  <2>. QED
    BY <2>2, <2>4 DEF Arrangements, n
<1>. QED
  BY <1>2, <1>3

\* At the start every process is on the run queue, and nobody sleeps.
LEMMA Initially ==
    ASSUME Init
    PROVE  IInv /\ Contract!Init
<1>1. PICK order \in Arrangements(Proc) :
          LET at(p) == CHOOSE i \in DOMAIN order : order[i] = p
          IN m = [state |-> [p \in Proc |-> "RUNNING"],
                  sleep_address |-> [p \in Proc |-> NULL],
                  notint |-> {},
                  next_run |-> [p \in Proc |-> IF at(p) = Len(order) THEN NULL ELSE order[at(p) + 1]],
                  prev_run |-> [p \in Proc |-> IF at(p) = 1 THEN NULL ELSE order[at(p) - 1]],
                  proc_run_head |-> IF order = <<>> THEN NULL ELSE order[1],
                  next_sleep |-> [p \in Proc |-> NULL],
                  prev_sleep |-> [p \in Proc |-> NULL],
                  sleep_hash_table |-> [b \in Bucket |-> NULL]]
  BY Zenon DEF Init
<1> DEFINE at(p) == CHOOSE i \in DOMAIN order : order[i] = p
           nx == [p \in Proc |-> IF at(p) = Len(order) THEN NULL ELSE order[at(p) + 1]]
           pv == [p \in Proc |-> IF at(p) = 1 THEN NULL ELSE order[at(p) - 1]]
           hd == IF order = <<>> THEN NULL ELSE order[1]
<1>2. m = [state |-> [p \in Proc |-> "RUNNING"], sleep_address |-> [p \in Proc |-> NULL],
           notint |-> {}, next_run |-> nx, prev_run |-> pv, proc_run_head |-> hd,
           next_sleep |-> [p \in Proc |-> NULL], prev_sleep |-> [p \in Proc |-> NULL],
           sleep_hash_table |-> [b \in Bucket |-> NULL]]
  BY <1>1, Zenon
<1>3. order \in Seq(Proc) /\ IsInjective(order) /\ Range(order) = Proc
  BY <1>1, ProcTable, Orders, Zenon
<1>4. /\ Len(order) \in Nat /\ DOMAIN order = 1 .. Len(order)
      /\ \A i \in 1 .. Len(order) : order[i] \in Proc
      /\ \A i, j \in 1 .. Len(order) : order[i] = order[j] => i = j
  BY <1>3 DEF IsInjective
<1>5. \A p \in Proc : at(p) \in 1 .. Len(order) /\ order[at(p)] = p
  <2> SUFFICES ASSUME NEW p \in Proc PROVE at(p) \in 1 .. Len(order) /\ order[at(p)] = p
    BY Zenon
  <2>1. \E i \in DOMAIN order : order[i] = p
    BY <1>3, Zenon DEF Range
  <2>. QED
    BY <1>4, <2>1, Zenon
<1> HIDE DEF at
<1>6. nx \in [Proc -> Link] /\ pv \in [Proc -> Link] /\ hd \in Link
  <2> DEFINE c == Len(order)
  <2>1. c \in Nat /\ \A p \in Proc : at(p) \in 1 .. c
    BY <1>4, <1>5
  <2>2. order = <<>> \/ 1 \in 1 .. c
    BY <1>3
  <2> HIDE DEF c
  <2>3. \A p \in Proc : (at(p) # c => at(p) + 1 \in 1 .. c) /\ (at(p) # 1 => at(p) - 1 \in 1 .. c)
    BY <2>1
  <2>. QED
    BY <1>4, <2>2, <2>3 DEF Link, c
<1>7. Lists(order, Proc, hd, nx, pv)
  <2>1. hd = IF Len(order) = 0 THEN NULL ELSE order[1]
    BY <1>3
  <2>2. \A i \in 1 .. Len(order) : at(order[i]) = i
    BY <1>4, <1>5
  <2>3. \A i \in 1 .. Len(order) : /\ nx[order[i]] = IF i = Len(order) THEN NULL ELSE order[i + 1]
                                   /\ pv[order[i]] = IF i = 1 THEN NULL ELSE order[i - 1]
    BY <1>4, <2>2
  <2> HIDE DEF hd, nx, pv
  <2>4. Lists(order, Range(order), hd, nx, pv)
    BY <1>3, <2>1, <2>3, ListFrom, Zenon
  <2>. QED
    BY <1>3, <2>4, Zenon
<1> HIDE DEF hd, nx, pv
<1>8. m \in MType
  BY <1>2, <1>6 DEF MType, Link
<1>9. Runs(m)
  <2>1. /\ m.next_run = nx /\ m.prev_run = pv /\ m.proc_run_head = hd
        /\ \A p \in Proc : m.state[p] = "RUNNING"
    BY <1>2
  <2>2. {p \in Proc : m.state[p] = "RUNNING"} = Proc
    BY <2>1
  <2>. QED
    BY <1>3, <1>7, <2>1, <2>2, Zenon DEF Runs, RunOK
<1>10. Sleeps(m)
  <2> DEFINE e == <<>>
  <2>1. /\ \A p \in Proc : m.sleep_address[p] = NULL
        /\ \A b \in Bucket : m.sleep_hash_table[b] = NULL
    BY <1>2
  <2>2. e \in Seq(Proc) /\ IsInjective(e) /\ Range(e) = {} /\ DOMAIN e = {}
    BY DEF IsInjective, Range
  <2>3. \A b \in Bucket : In(m.sleep_address, b) = {}
    BY <2>1 DEF In
  <2>4. \A b \in Bucket : Lists(e, In(m.sleep_address, b), m.sleep_hash_table[b], m.next_sleep, m.prev_sleep)
    BY <2>1, <2>2, <2>3 DEF Lists, IsList
  <2> HIDE DEF e
  <2>. QED
    BY <2>2, <2>4, Zenon DEF Sleeps, SleepOK
<1>11. waking = NULL /\ h = NULL
  BY Zenon DEF Init
<1>12. IInv
  BY <1>8, <1>9, <1>10, <1>11 DEF IInv, Good
<1>13. Visible = Contract!KInit
  BY <1>2, <1>11 DEF Visible, Contract!KInit
<1>. QED
  BY <1>12, <1>13 DEF Contract!Init

\* Every step keeps the invariant, and is one of the contract or a stutter.
LEMMA EveryStep ==
    ASSUME IInv, [Next]_vars
    PROVE  IInv' /\ [Contract!Next]_Visible
<1>1. CASE waking = NULL /\ Calls /\ UNCHANGED <<waking, h>>
  <2>1. Good(m) /\ h = NULL /\ waking' = NULL /\ h' = NULL
    BY <1>1 DEF IInv
  <2>2. Visible = Abs(m) /\ Visible' = Abs(m)'
    BY <1>1, <2>1 DEF Visible, Abs
  <2>3. Good(m)' /\ Contract!Next
    BY <1>1, <2>1, <2>2, CallsStep
  <2>. QED
    BY <2>1, <2>3 DEF IInv
<1>2. CASE \E a \in Chan : Wakeup(a)
  BY <1>2, WakeupStep
<1>3. CASE WakeupFinds
  BY <1>3, FindsStep
<1>4. CASE WakeupPasses
  BY <1>4, PassesStep
<1>5. CASE WakeupEnds
  BY <1>5, EndsStep
<1>6. CASE UNCHANGED vars
  <2>1. m' = m /\ waking' = waking /\ h' = h
    BY <1>6 DEF vars
  <2>. QED
    BY <2>1 DEF IInv, Visible
<1>. QED
  BY <1>1, <1>2, <1>3, <1>4, <1>5, <1>6 DEF Next

\* The invariant gives what the runs check.
LEMMA Consequences ==
    ASSUME IInv
    PROVE  TypeOK /\ RunQueueExact /\ SleepTableExact
<1>1. Good(m) /\ m \in MType
  BY DEF IInv, Good
<1>2. \A S \in SUBSET Proc : IsFiniteSet(S)
  BY ProcTable, FS_Subset
<1>3. ASSUME NEW S \in SUBSET Proc, NEW l, NEW hd, NEW nx, NEW pv, Lists(l, S, hd, nx, pv)
      PROVE  l \in Arrangements(S) /\ IsList(l, hd, nx, pv)
  <2>1. IsInjective(l) /\ Range(l) = S /\ IsList(l, hd, nx, pv) /\ l \in Seq(Proc)
    BY <1>3 DEF Lists
  <2>2. l \in Seq(S)
    <3>1. Len(l) \in Nat /\ l \in [1 .. Len(l) -> Proc] /\ \A i \in 1 .. Len(l) : l[i] \in S
      BY <2>1 DEF Range
    <3>. QED
      BY <3>1
  <2>. QED
    BY <1>2, <2>1, <2>2, Orders
<1>4. RunQueueExact
  <2>1. PICK l \in Seq(Proc) : Lists(l, {p \in Proc : m.state[p] = "RUNNING"},
                                     m.proc_run_head, m.next_run, m.prev_run)
    BY <1>1 DEF Good, Runs, RunOK
  <2>. QED
    BY <1>3, <2>1 DEF RunQueueExact
<1>5. SleepTableExact
  <2> SUFFICES ASSUME NEW b \in Bucket
               PROVE  \E l \in Arrangements(InBucket(b)) :
                          IsList(l, m.sleep_hash_table[b], m.next_sleep, m.prev_sleep)
    BY DEF SleepTableExact
  <2>1. InBucket(b) = In(m.sleep_address, b) /\ InBucket(b) \in SUBSET Proc
    BY DEF InBucket, In
  <2>2. PICK l \in Seq(Proc) : Lists(l, InBucket(b), m.sleep_hash_table[b], m.next_sleep, m.prev_sleep)
    BY <1>1, <2>1 DEF Good, Sleeps, SleepOK
  <2>. QED
    BY <1>3, <2>1, <2>2
<1>6. h \in Link
  <2>1. CASE waking = NULL
    BY <2>1 DEF IInv, Link
  <2>2. CASE waking # NULL
    <3>1. PICK l \in Seq(Proc) : \E n \in 0 .. Len(l) : h = IF n = 0 THEN NULL ELSE l[n]
      BY <2>2 DEF IInv, WalkOK
    <3>2. \A n \in 0 .. Len(l) : n = 0 \/ l[n] \in Proc
      OBVIOUS
    <3>. QED
      BY <3>1, <3>2 DEF Link
  <2>. QED
    BY <2>1, <2>2
<1>. QED
  BY <1>1, <1>4, <1>5, <1>6 DEF TypeOK, IInv

-----------------------------------------------------------------------------
(* The theorems. *)

\* The inductive invariant, of which the rest follows.
THEOREM SleepInvariant == Spec => []IInv
<1>1. Init => IInv
  BY Initially
<1>2. IInv /\ [Next]_vars => IInv'
  BY EveryStep
<1>. QED
  BY <1>1, <1>2, PTL DEF Spec

\* The fields of the process table that sleep.c writes, the heads of its lists
\* and the pointer of the loop of wakeup() keep their types.
THEOREM SleepTyped == Spec => []TypeOK
<1>1. IInv => TypeOK
  BY Consequences
<1>. QED
  BY <1>1, SleepInvariant, PTL

\* runnable() and not_runnable(): the run queue lists each RUNNING process once
\* and nobody else, whoever called what before, and inside the loop of wakeup().
THEOREM RunQueueStaysExact == Spec => []RunQueueExact
<1>1. IInv => RunQueueExact
  BY Consequences
<1>. QED
  BY <1>1, SleepInvariant, PTL

\* Each bucket of sleep_hash_table lists exactly the processes registered on its
\* channels, once, also between two iterations of the loop of wakeup().
THEOREM SleepTableStaysExact == Spec => []SleepTableExact
<1>1. IInv => SleepTableExact
  BY Consequences
<1>. QED
  BY <1>1, SleepInvariant, PTL

\* The lists of sleep.c do what module SleepSpec says of sleep(), sleep_arm(),
\* sleep_disarm(), sleep_commit(), wakeup() and wakeup_proc(): every behaviour
\* is one of the contract the other modules build on.
THEOREM SleepKeepsContract == Spec => ImplementsSleepSpec
<1>1. Init => Contract!Init
  BY Initially
<1>2. IInv /\ [Next]_vars => [Contract!Next]_Visible
  BY EveryStep
<1>. QED
  BY <1>1, <1>2, SleepInvariant, PTL DEF Spec, ImplementsSleepSpec, Contract!Spec
=============================================================================
