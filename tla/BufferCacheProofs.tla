------------------------- MODULE BufferCacheProofs -------------------------
(***************************************************************************)
(* The buffer cache for any number of processes, buffers and blocks: its   *)
(* locks and its lists; that nobody misses the end of a transfer; and, on  *)
(* the invariants of the requests (RInv) and of the contents (CInv), that  *)
(* the cache is coherent and sync_buffers() durable.                       *)
(***************************************************************************)
EXTENDS BufferCache, ListLemmas

\* Unlinked() is RemoveAt() of the place of x, if it has one.
LEMMA Unlinking ==
    ASSUME NEW S, NEW s \in Seq(S), NEW x, IsInjective(s)
    PROVE  /\ Unlinked(s, x) \in Seq(S) /\ IsInjective(Unlinked(s, x))
           /\ Range(Unlinked(s, x)) = Range(s) \ {x}
<1>1. CASE x \notin Range(s)
  BY <1>1, Zenon DEF Unlinked
<1>2. CASE x \in Range(s)
  <2> DEFINE d == CHOOSE i \in DOMAIN s : s[i] = x
  <2>1. d \in DOMAIN s /\ s[d] = x
    BY <1>2, Zenon DEF Range
  <2>2. Unlinked(s, x) = RemoveAt(s, d)
    BY <1>2, Zenon DEF Unlinked
  <2> HIDE DEF d
  <2>. QED
    BY <2>1, <2>2, Removing
<1>. QED
  BY <1>1, <1>2, Zenon

-----------------------------------------------------------------------------
(* What the operations do to the fields of the cache. *)

CType == [block : [Buffer -> Block \cup {NULL}], current : SUBSET Buffer,
          VALID : SUBSET Buffer, LOCKED : SUBSET Buffer, DIRTY : SUBSET Buffer,
          free : Seq(Buffer), dirty : Seq(Buffer)]

\* A record of the cache with two lists on which no buffer is twice.
CShape(cc) == cc \in CType /\ IsInjective(cc.free) /\ IsInjective(cc.dirty)

\* What the invariant sees of a cache: the lists as sets, and two of the flags.
View(cc, F, D, L, d) == /\ CShape(cc)
                        /\ Range(cc.free) = F /\ Range(cc.dirty) = D
                        /\ cc.LOCKED = L /\ cc.DIRTY = d

\* A cache as it is.
LEMMA ViewOf == ASSUME NEW cc, CShape(cc)
                PROVE  View(cc, Range(cc.free), Range(cc.dirty), cc.LOCKED, cc.DIRTY)
BY Zenon DEF View

\* The flags.
LEMMA Locking ==
    ASSUME NEW cc, NEW F, NEW D, NEW L, NEW d, View(cc, F, D, L, d), NEW b
    PROVE  /\ b \in Buffer => View(Locked(cc, b), F, D, L \cup {b}, d)
           /\ View(Unlocked(cc, b), F, D, L \ {b}, d)
           /\ View(Cleaned(cc, b), F, D, L, d \ {b})
BY Zenon DEF View, CShape, CType, Locked, Unlocked, Cleaned

\* A list is replaced.
LEMMA Relisting ==
    ASSUME NEW cc, NEW F, NEW D, NEW L, NEW d, View(cc, F, D, L, d), NEW s \in Seq(Buffer), IsInjective(s)
    PROVE  /\ View([cc EXCEPT !.free = s], Range(s), D, L, d)
           /\ View([cc EXCEPT !.dirty = s], F, Range(s), L, d)
BY Zenon DEF View, CShape, CType

\* The lists of a cache.
LEMMA ListsOf ==
    ASSUME NEW cc, NEW F, NEW D, NEW L, NEW d, View(cc, F, D, L, d)
    PROVE  /\ cc.free \in Seq(Buffer) /\ IsInjective(cc.free) /\ Range(cc.free) = F
           /\ cc.dirty \in Seq(Buffer) /\ IsInjective(cc.dirty) /\ Range(cc.dirty) = D
BY Zenon DEF View, CShape, CType

\* The lists.
LEMMA Listing ==
    ASSUME NEW cc, NEW F, NEW D, NEW L, NEW d, View(cc, F, D, L, d), NEW b \in Buffer
    PROVE  /\ View(insert_on_dirty_list(cc, b), F, D \cup {b}, L, d)
           /\ View(remove_from_dirty_list(cc, b), F, D \ {b}, L, d)
           /\ b \notin F => View(insert_on_free_list(cc, b), F \cup {b}, D, L, d)
<1>1. View(insert_on_dirty_list(cc, b), F, D \cup {b}, L, d)
  <2> DEFINE s == Appended(cc.dirty, b)
  <2>1. s \in Seq(Buffer) /\ IsInjective(s) /\ Range(s) = D \cup {b}
    BY ListsOf, Appending DEF Appended
  <2> HIDE DEF s
  <2>2. View([cc EXCEPT !.dirty = s], F, Range(s), L, d)
    BY <2>1, Relisting, Zenon
  <2>. QED
    BY <2>1, <2>2, Zenon DEF insert_on_dirty_list, s
<1>2. View(remove_from_dirty_list(cc, b), F, D \ {b}, L, d)
  BY Unlinking, Zenon DEF View, CShape, CType, remove_from_dirty_list
<1>3. ASSUME b \notin F PROVE View(insert_on_free_list(cc, b), F \cup {b}, D, L, d)
  <2> DEFINE new == IF b \in cc.VALID THEN Append(cc.free, b) ELSE <<b>> \o cc.free
  <2>1. cc.free \in Seq(Buffer) /\ IsInjective(cc.free) /\ Range(cc.free) = F
    BY ListsOf, Zenon
  <2>2. new \in Seq(Buffer) /\ IsInjective(new) /\ Range(new) = F \cup {b}
    <3>1. CASE b \in cc.VALID
      <4>1. new = Append(cc.free, b)
        BY <3>1, Zenon
      <4> HIDE DEF new
      <4>. QED
        BY <1>3, <2>1, <4>1, Appending
    <3>2. CASE b \notin cc.VALID
      <4>1. new = <<b>> \o cc.free
        BY <3>2, Zenon
      <4> HIDE DEF new
      <4>. QED
        BY <1>3, <2>1, <4>1, Prepending
    <3>. QED
      BY <3>1, <3>2, Zenon
  <2>3. insert_on_free_list(cc, b) = [cc EXCEPT !.free = new]
    BY Zenon DEF insert_on_free_list
  <2> HIDE DEF new
  <2>. QED
    BY <2>2, <2>3, Zenon DEF View, CShape, CType
<1>. QED
  BY <1>1, <1>2, <1>3, Zenon

\* brelse() of a buffer that is not on the free list.
LEMMA Releasing ==
    ASSUME NEW cc, NEW F, NEW D, NEW L, NEW d, View(cc, F, D, L, d), NEW b \in Buffer, b \notin F
    PROVE  View(brelse(cc, b), F \cup {b}, IF b \in d THEN D \cup {b} ELSE D, L \ {b}, d)
<1> DEFINE c1 == IF b \in cc.DIRTY THEN insert_on_dirty_list(cc, b) ELSE cc
           D1 == IF b \in d THEN D \cup {b} ELSE D
<1>1. View(c1, F, D1, L, d)
  <2>1. cc.DIRTY = d
    BY Zenon DEF View
  <2>2. CASE b \in d
    BY <2>1, <2>2, Listing, Zenon
  <2>3. CASE b \notin d
    BY <2>1, <2>3, Zenon
  <2>. QED
    BY <2>2, <2>3, Zenon
<1> HIDE DEF c1, D1
<1>2. View(insert_on_free_list(c1, b), F \cup {b}, D1, L, d)
  BY <1>1, Listing, Zenon
<1>3. View(Unlocked(insert_on_free_list(c1, b), b), F \cup {b}, D1, L \ {b}, d)
  BY <1>2, Locking, Zenon
<1>. QED
  BY <1>3, Zenon DEF brelse, c1, D1

\* The same after it was written: clean, and off the dirty list.
LEMMA ReleasingClean ==
    ASSUME NEW cc, NEW F, NEW D, NEW L, NEW d, View(cc, F, D, L, d), NEW b \in Buffer, b \notin F
    PROVE  View(brelse(remove_from_dirty_list(Cleaned(cc, b), b), b), F \cup {b}, D \ {b}, L \ {b}, d \ {b})
<1> DEFINE c1 == remove_from_dirty_list(Cleaned(cc, b), b)
           D1 == D \ {b}
           d1 == d \ {b}
<1>1. View(Cleaned(cc, b), F, D, L, d1)
  BY Locking, Zenon
<1>2. b \notin d1
  BY Zenon
<1> HIDE DEF d1
<1>3. View(c1, F, D1, L, d1)
  BY <1>1, Listing, Zenon
<1> HIDE DEF c1, D1
<1>4. View(brelse(c1, b), F \cup {b}, D1, L \ {b}, d1)
  <2> DEFINE D2 == IF b \in d1 THEN D1 \cup {b} ELSE D1
  <2>1. View(brelse(c1, b), F \cup {b}, D2, L \ {b}, d1)
    BY <1>3, Releasing, Zenon
  <2>2. D2 = D1
    BY <1>2, Zenon
  <2> HIDE DEF D2
  <2>. QED
    BY <2>1, <2>2, Zenon
<1>. QED
  BY <1>4, Zenon DEF c1, D1, d1

\* A buffer is taken off the head of a list, or out of the free list.
LEMMA Taking ==
    ASSUME NEW F, NEW D, NEW L, NEW d, View(c, F, D, L, d)
    PROVE  /\ c.free # <<>> => View(Taken, F \ {Head(c.free)}, D, L \cup {Head(c.free)}, d)
           /\ c.dirty # <<>> => View(DirtyTaken, F, D \ {FirstDirty}, L \cup {FirstDirty}, d)
           /\ \A b \in Buffer : View(Locked([c EXCEPT !.free = Unlinked(@, b)], b),
                                     F \ {b}, D, L \cup {b}, d)
<1>1. ASSUME c.free # <<>> PROVE View(Taken, F \ {Head(c.free)}, D, L \cup {Head(c.free)}, d)
  <2>1. /\ Tail(c.free) \in Seq(Buffer) /\ IsInjective(Tail(c.free))
        /\ Range(Tail(c.free)) = F \ {Head(c.free)} /\ Head(c.free) \in Buffer
    BY <1>1, ListsOf, Popping, Zenon
  <2>2. ASSUME NEW t, t = Tail(c.free) PROVE View([c EXCEPT !.free = t], F \ {Head(c.free)}, D, L, d)
    <3>1. t \in Seq(Buffer) /\ IsInjective(t) /\ Range(t) = F \ {Head(c.free)}
      BY <2>1, <2>2, Zenon
    <3>2. View([c EXCEPT !.free = t], Range(t), D, L, d)
      BY <3>1, Relisting, Zenon
    <3>. QED
      BY <3>1, <3>2, Zenon
  <2>. QED
    BY <2>1, <2>2, Locking, Zenon DEF Taken
<1>2. ASSUME c.dirty # <<>>
      PROVE View(DirtyTaken, F, D \ {FirstDirty}, L \cup {FirstDirty}, d)
  <2>1. /\ Tail(c.dirty) \in Seq(Buffer) /\ IsInjective(Tail(c.dirty))
        /\ Range(Tail(c.dirty)) = D \ {FirstDirty} /\ FirstDirty \in Buffer
    BY <1>2, ListsOf, Popping, Zenon DEF FirstDirty
  <2>2. ASSUME NEW t, t = Tail(c.dirty) PROVE View([c EXCEPT !.dirty = t], F, D \ {FirstDirty}, L, d)
    <3>1. t \in Seq(Buffer) /\ IsInjective(t) /\ Range(t) = D \ {FirstDirty}
      BY <2>1, <2>2, Zenon
    <3>2. View([c EXCEPT !.dirty = t], F, Range(t), L, d)
      BY <3>1, Relisting, Zenon
    <3>. QED
      BY <3>1, <3>2, Zenon
  <2>. QED
    BY <2>1, <2>2, Locking, Zenon DEF DirtyTaken
<1>3. ASSUME NEW b \in Buffer
      PROVE View(Locked([c EXCEPT !.free = Unlinked(@, b)], b), F \ {b}, D, L \cup {b}, d)
  BY Unlinking, Zenon DEF View, CShape, CType, Locked
<1>. QED
  BY <1>1, <1>2, <1>3

-----------------------------------------------------------------------------
(* The invariant. *)

ByGetblk == {"evict", "read", "hold"}
ByFlush == {"write", "kwrite"}
Owning == ByGetblk \cup ByFlush

free == Range(c.free)
dirty == Range(c.dirty)

Places == /\ pc \in [Proc -> PC] /\ mine \in [Proc -> Buffer \cup {NULL}]
          /\ \A p \in Proc : pc[p] \in Owning => mine[p] \in Buffer
          /\ \A p \in Proc : pc[p] = "select" => p \in env.selectors
          /\ pc[kbdflushd] \in {"klock", "kdirty", "kwrite"} => env.flusher
          /\ env \in Envs

\* getblk() has what it took off the free list, a flush what it took off the
\* dirty list, and a flush has every dirty buffer that is off the dirty list.
Lists == /\ \A p \in Proc : pc[p] \in ByGetblk => mine[p] \notin free
         /\ \A b \in Range(env.pool) \ free : \E p \in Proc : mine[p] = b /\ pc[p] \in ByGetblk
         /\ \A p \in Proc : pc[p] \in ByFlush => mine[p] \notin dirty
         /\ \A b \in c.DIRTY \ dirty : \E p \in Proc : mine[p] = b /\ pc[p] \in ByFlush

\* As long as kbdflushd and the journal's barrier do not both run.
Separate == env.flusher => env.selectors = {}

\* Without the barrier, what is on the dirty list or taken off it is dirty.
Tidy == env.selectors = {} => /\ dirty \subseteq c.DIRTY
                              /\ \A p \in Proc : pc[p] \in ByFlush => mine[p] \in c.DIRTY

Inv == Places /\ OneOwner /\ Lists /\ Tidy /\ (Separate => LockedIsOwned)

IInv == CShape(c) /\ Inv

Req == [proc : Proc, op : {"read_block", "write_block"}, buffer : Buffer, started : BOOLEAN]

\* What it rests on: the requests are for buffers, and the wishes for blocks.
Typed == queue \in Seq(Req) /\ want \in [Proc -> Block \cup {NULL}]

\* What the invariant sees now, and what it will see.
LEMMA NowView == IInv => View(c, free, dirty, c.LOCKED, c.DIRTY)
BY ViewOf, Zenon DEF IInv, free, dirty

\* What it will see after a step, from what is known of the cache then.
LEMMA NextView == ASSUME NEW F, NEW D, NEW L, NEW d, View(c', F, D, L, d)
                  PROVE  CShape(c)' /\ free' = F /\ dirty' = D /\ c'.LOCKED = L /\ c'.DIRTY = d
BY Zenon DEF View, CShape, free, dirty

\* p puts its buffer b back on the free list and unlocks it, and goes on at l;
\* if b is dirty then, it is on the dirty list.
PutBack(p, l, b, D, d) ==
    /\ b = mine[p] /\ pc[p] \in ByGetblk
    /\ l \in {"user", "getblk"} /\ Goto(p, l)
    /\ mine' = [mine EXCEPT ![p] = NULL] /\ env' = env
    /\ View(c', free \cup {b}, D, c.LOCKED \ {b}, d)
    /\ D \ {b} = dirty \ {b} /\ d \ {b} = c.DIRTY \ {b}
    /\ b \in d => b \in D
    /\ b \in D => b \in d \/ (b \in dirty /\ b \notin c.DIRTY)

\* The buffer at the head of a list.
LEMMA Heads ==
    ASSUME IInv
    PROVE  /\ c.free # <<>> => Head(c.free) \in Buffer /\ Head(c.free) \in free
           /\ c.dirty # <<>> => FirstDirty \in Buffer /\ FirstDirty \in dirty
<1>1. View(c, free, dirty, c.LOCKED, c.DIRTY)
  BY NowView, Zenon
<1>2. /\ c.free \in Seq(Buffer) /\ IsInjective(c.free) /\ Range(c.free) = free
      /\ c.dirty \in Seq(Buffer) /\ IsInjective(c.dirty) /\ Range(c.dirty) = dirty
  BY <1>1, ListsOf, Zenon
<1>3. c.free # <<>> => Head(c.free) \in Buffer /\ Head(c.free) \in free
  BY <1>2, Popping, Zenon
<1>4. c.dirty # <<>> => Head(c.dirty) \in Buffer /\ Head(c.dirty) \in dirty
  BY <1>2, Popping, Zenon
<1>. QED
  BY <1>3, <1>4, Zenon DEF FirstDirty

\* A pool nobody has used satisfies the invariant.
LEMMA InitIInv == Init => IInv
<1> SUFFICES ASSUME Init PROVE IInv
  BY Zenon
<1>1. env.pool \in Seq(Buffer) /\ IsInjective(env.pool)
  BY Sizes, Zenon DEF Init
<1>2. /\ c.free = env.pool /\ c.dirty = <<>> /\ c.LOCKED = {} /\ c.DIRTY = {}
      /\ c.block = [b \in Buffer |-> NULL] /\ c.current = {} /\ c.VALID = {}
      /\ c = [block |-> c.block, current |-> c.current, VALID |-> c.VALID, LOCKED |-> c.LOCKED,
              DIRTY |-> c.DIRTY, free |-> c.free, dirty |-> c.dirty]
  BY Zenon DEF Init
<1>3. c.free \in Seq(Buffer) /\ IsInjective(c.free) /\ Range(c.free) = Range(env.pool)
  BY <1>1, <1>2, Zenon
<1>4. CShape(c) /\ free = Range(env.pool) /\ dirty = {}
  <2>1. <<>> \in Seq(Buffer) /\ IsInjective(<<>>) /\ Range(<<>>) = {}
    BY DEF Range, IsInjective
  <2>. QED
    BY <1>2, <1>3, <2>1, Zenon DEF CShape, CType, free, dirty
<1>5. Places /\ \A p \in Proc : pc[p] \notin Owning
  BY <1>1, Sizes DEF Init, Places, PC, Owning, ByGetblk, ByFlush
<1>6. OneOwner /\ LockedIsOwned
  BY <1>2, <1>5 DEF OneOwner, LockedIsOwned, Owns, Owning, ByGetblk, ByFlush
<1>7. Lists /\ Tidy
  BY <1>2, <1>4, <1>5 DEF Lists, Tidy, Owning
<1>. QED
  BY <1>4, <1>5, <1>6, <1>7 DEF IInv, Inv

\* Every step keeps it: there are five ways in which a step changes who has
\* what, and every step is one of them.
LEMMA NextIInv == IInv /\ Typed /\ [Next]_vars => IInv'

\* Nothing changes hands.  (The barrier may clean a buffer.)
<1>Keeps.
    ASSUME IInv, NEW p \in Proc, NEW l \in PC, NEW x \in Buffer \cup {NULL},
           Goto(p, l), mine' = [mine EXCEPT ![p] = x], env' = env,
           \/ pc[p] \notin Owning /\ l \notin Owning
           \/ ((pc[p] \in ByGetblk /\ l \in ByGetblk) \/ l = pc[p]) /\ x = mine[p],
           l = "select" => p \in env.selectors,
           p = kbdflushd /\ l \in {"klock", "kdirty", "kwrite"} => env.flusher,
           NEW d, View(c', free, dirty, c.LOCKED, d),
           d = c.DIRTY \/ (d \subseteq c.DIRTY /\ env.selectors # {})
    PROVE  IInv'
  <2> USE <1>Keeps
  <2>0. CShape(c)' /\ free' = free /\ dirty' = dirty /\ c'.LOCKED = c.LOCKED /\ c'.DIRTY = d
    BY NextView, Zenon
  <2> USE DEF IInv, Inv, Places, Owning, ByGetblk, ByFlush, PC, Goto
  <2>1. Places'
    BY <2>0
  <2>2. OneOwner'
    BY <2>0 DEF OneOwner, Owns
  <2>3. Lists'
    BY <2>0 DEF Lists
  <2>4. Tidy'
    BY <2>0, Zenon DEF Tidy, Separate
  <2>5. (Separate => LockedIsOwned)'
    BY <2>0 DEF Separate, LockedIsOwned, Owns
  <2>. QED
    BY <2>0, <2>1, <2>2, <2>3, <2>4, <2>5

\* getblk() locks a buffer and takes it off the free list.
<1>Gets.
    ASSUME IInv, NEW p \in Proc, NEW l \in ByGetblk, NEW b \in Buffer, b \notin c.LOCKED,
           pc[p] \notin Owning, Goto(p, l), mine' = [mine EXCEPT ![p] = b],
           env' = env, View(c', free \ {b}, dirty, c.LOCKED \cup {b}, c.DIRTY)
    PROVE  IInv'
  <2> USE <1>Gets
  <2>0. CShape(c)' /\ free' = free \ {b} /\ dirty' = dirty /\ c'.LOCKED = c.LOCKED \cup {b} /\ c'.DIRTY = c.DIRTY
    BY NextView, Zenon
  <2> USE DEF IInv, Inv, Places, Owning, ByGetblk, ByFlush, PC, Goto
  <2>1. Places'
    BY <2>0
  <2>2. OneOwner'
    BY <2>0 DEF OneOwner, Owns
  <2>3. Lists'
    BY <2>0 DEF Lists, OneOwner, Owns
  <2>4. Tidy'
    BY <2>0, Zenon DEF Tidy, Separate
  <2>5. (Separate => LockedIsOwned)'
    BY <2>0 DEF Separate, LockedIsOwned, Owns
  <2>. QED
    BY <2>0, <2>1, <2>2, <2>3, <2>4, <2>5

\* The owner puts a buffer back.
<1>Puts.
    ASSUME IInv, NEW p \in Proc, NEW l, NEW b, NEW D, NEW d, PutBack(p, l, b, D, d)
    PROVE  IInv'
  <2> USE <1>Puts
  <2>0. /\ CShape(c)' /\ free' = free \cup {b} /\ dirty' = D /\ c'.LOCKED = c.LOCKED \ {b} /\ c'.DIRTY = d
        /\ b = mine[p] /\ pc[p] \in ByGetblk
        /\ l \in {"user", "getblk"} /\ Goto(p, l)
        /\ mine' = [mine EXCEPT ![p] = NULL] /\ env' = env
        /\ D \ {b} = dirty \ {b} /\ d \ {b} = c.DIRTY \ {b}
        /\ b \in d => b \in D
        /\ b \in D => b \in d \/ (b \in dirty /\ b \notin c.DIRTY)
    BY NextView DEF PutBack
  <2> USE DEF IInv, Inv, Places, Owning, ByGetblk, ByFlush, PC, Goto
  <2>1. Places'
    BY <2>0
  <2>2. OneOwner'
    BY <2>0 DEF OneOwner, Owns
  <2>3. Lists'
    BY <2>0 DEF Lists, OneOwner, Owns
  <2>4. Tidy'
    BY <2>0 DEF Tidy, Separate, OneOwner, Owns
  <2>5. (Separate => LockedIsOwned)'
    BY <2>0 DEF Separate, LockedIsOwned, Owns
  <2>. QED
    BY <2>0, <2>1, <2>2, <2>3, <2>4, <2>5

\* A flush locks a buffer and takes it off the dirty list.
<1>FlushGets.
    ASSUME IInv, NEW p \in Proc, NEW l \in ByFlush, NEW b \in Buffer, b \notin c.LOCKED,
           b \in dirty, l = "kwrite" => env.flusher,
           pc[p] \notin Owning, Goto(p, l), mine' = [mine EXCEPT ![p] = b],
           env' = env, View(c', free, dirty \ {b}, c.LOCKED \cup {b}, c.DIRTY)
    PROVE  IInv'
  <2> USE <1>FlushGets
  <2>0. CShape(c)' /\ free' = free /\ dirty' = dirty \ {b} /\ c'.LOCKED = c.LOCKED \cup {b} /\ c'.DIRTY = c.DIRTY
    BY NextView, Zenon
  <2> USE DEF IInv, Inv, Places, Owning, ByGetblk, ByFlush, PC, Goto
  <2>1. Places'
    BY <2>0
  <2>2. OneOwner'
    BY <2>0 DEF OneOwner, Owns
  <2>3. Lists'
    BY <2>0 DEF Lists, OneOwner, Owns
  <2>4. Tidy'
    BY <2>0, Zenon DEF Tidy, Separate
  <2>5. (Separate => LockedIsOwned)'
    BY <2>0 DEF Separate, LockedIsOwned, Owns
  <2>. QED
    BY <2>0, <2>1, <2>2, <2>3, <2>4, <2>5

\* A flush unlocks its buffer, back on the dirty list or clean.
<1>FlushPuts.
    ASSUME IInv, NEW p \in Proc, NEW l \in PC \ Owning, NEW b, b = mine[p],
           l # "select", p = kbdflushd /\ l \in {"klock", "kdirty"} => env.flusher,
           pc[p] \in ByFlush, Goto(p, l), mine' = [mine EXCEPT ![p] = NULL],
           env' = env, NEW D, NEW d, View(c', free, D, c.LOCKED \ {b}, d),
           \/ D = dirty \cup {b} /\ d = c.DIRTY
           \/ D = dirty /\ d = c.DIRTY \ {b}
    PROVE  IInv'
  <2> USE <1>FlushPuts
  <2>0. CShape(c)' /\ free' = free /\ dirty' = D /\ c'.LOCKED = c.LOCKED \ {b} /\ c'.DIRTY = d
    BY NextView, Zenon
  <2> USE DEF IInv, Inv, Places, Owning, ByGetblk, ByFlush, PC, Goto
  <2>1. Places'
    BY <2>0
  <2>2. OneOwner'
    BY <2>0 DEF OneOwner, Owns
  <2>3. Lists'
    BY <2>0 DEF Lists, OneOwner, Owns
  <2>4. Tidy'
    BY <2>0 DEF Tidy, Separate, OneOwner, Owns, Lists
  <2>5. (Separate => LockedIsOwned)'
    BY <2>0 DEF Separate, LockedIsOwned, Owns
  <2>. QED
    BY <2>0, <2>1, <2>2, <2>3, <2>4, <2>5

\* kbdflushd() locks and drops a buffer that the barrier has cleaned.
<1>Strays.
    ASSUME IInv, NEW b \in Buffer, b \notin c.LOCKED, b \in dirty, b \notin c.DIRTY, env.flusher,
           pc' = pc, mine' = mine, env' = env,
           View(c', free, dirty \ {b}, c.LOCKED \cup {b}, c.DIRTY)
    PROVE  IInv'
  <2> USE <1>Strays
  <2>0. CShape(c)' /\ free' = free /\ dirty' = dirty \ {b} /\ c'.LOCKED = c.LOCKED \cup {b} /\ c'.DIRTY = c.DIRTY
    BY NextView, Zenon
  <2> USE DEF IInv, Inv, Places, Owning, ByGetblk, ByFlush, PC, Goto
  <2>1. Places'
    BY <2>0, Zenon
  <2>2. OneOwner'
    BY <2>0, Zenon DEF OneOwner, Owns
  <2>3. Lists'
    BY <2>0 DEF Lists
  <2>4. Tidy' /\ (Separate => LockedIsOwned)'
    BY <2>0, Zenon DEF Tidy, Separate
  <2>. QED
    BY <2>0, <2>1, <2>2, <2>3, <2>4

\* A step that leaves the cache and the buffers of the processes alone, and is
\* not one of an owner.
<1>Quiet.
    ASSUME IInv, NEW p \in Proc, NEW l \in PC \ Owning, pc[p] \notin Owning,
           l = "select" => p \in env.selectors,
           p = kbdflushd /\ l \in {"klock", "kdirty"} => env.flusher,
           Goto(p, l), UNCHANGED <<c, mine, env>>
    PROVE  IInv'
  <2> USE <1>Quiet
  <2>1. mine[p] \in Buffer \cup {NULL} /\ mine' = [mine EXCEPT ![p] = mine[p]] /\ env' = env
    BY Zenon DEF IInv, Inv, Places
  <2>2. View(c', free, dirty, c.LOCKED, c.DIRTY)
    BY NowView, Zenon
  <2>3. l \in PC /\ l \notin Owning /\ l # "kwrite"
    BY Zenon DEF Owning, ByFlush
  <2>. QED
    BY <2>1, <2>2, <2>3, <1>Keeps

\* brelse() by the owner, which has left the DIRTY flag alone.
<1>PutsBack.
    ASSUME IInv, NEW p \in Proc, NEW l \in {"user", "getblk"}, NEW b, b = mine[p],
           pc[p] \in ByGetblk, Goto(p, l), mine' = [mine EXCEPT ![p] = NULL], env' = env,
           View(c', free \cup {b}, IF b \in c.DIRTY THEN dirty \cup {b} ELSE dirty, c.LOCKED \ {b}, c.DIRTY)
    PROVE  IInv'
  <2> USE <1>PutsBack
  <2> DEFINE D == IF b \in c.DIRTY THEN dirty \cup {b} ELSE dirty
  <2>1. View(c', free \cup {b}, D, c.LOCKED \ {b}, c.DIRTY)
    BY Zenon
  <2>2. /\ D \ {b} = dirty \ {b}
        /\ b \in c.DIRTY => b \in D
        /\ b \in D => b \in c.DIRTY \/ (b \in dirty /\ b \notin c.DIRTY)
    BY Zenon
  <2> HIDE DEF D
  <2>3. PutBack(p, l, b, D, c.DIRTY)
    BY <2>1, <2>2, Zenon DEF PutBack
  <2>. QED
    BY <2>3, <1>Puts, Zenon

\* A step in which no process moves.
<1>Stands.
    ASSUME IInv, UNCHANGED <<pc, mine, env>>, View(c', free, dirty, c.LOCKED, c.DIRTY)
    PROVE  IInv'
  <2> USE <1>Stands
  <2> DEFINE p == kbdflushd
  <2>1. p \in Proc
    BY Sizes, Zenon
  <2>2. /\ pc[p] \in PC /\ mine[p] \in Buffer \cup {NULL} /\ env' = env
        /\ Goto(p, pc[p]) /\ mine' = [mine EXCEPT ![p] = mine[p]]
        /\ pc[p] = "select" => p \in env.selectors
        /\ pc[p] \in {"klock", "kdirty", "kwrite"} => env.flusher
    BY <2>1, Zenon DEF IInv, Inv, Places, Goto
  <2> HIDE DEF p
  <2>. QED
    BY <2>1, <2>2, <1>Keeps DEF p

\* What a flush does when its write has ended.
<1>Unlinks.
    ASSUME IInv, NEW b \in Buffer, NEW r,
           c' = Unlocked(IF r = "err" THEN insert_on_dirty_list(c, b) ELSE Cleaned(c, b), b)
    PROVE  \/ View(c', free, dirty \cup {b}, c.LOCKED \ {b}, c.DIRTY)
           \/ View(c', free, dirty, c.LOCKED \ {b}, c.DIRTY \ {b})
  <2> USE <1>Unlinks
  <2>c. View(c, free, dirty, c.LOCKED, c.DIRTY)
    BY NowView, Zenon
  <2>1. CASE r = "err"
    <3>1. View(insert_on_dirty_list(c, b), free, dirty \cup {b}, c.LOCKED, c.DIRTY)
      BY <2>c, Listing, Zenon
    <3>. QED
      BY <2>1, <3>1, Locking, Zenon
  <2>2. CASE r # "err"
    <3>1. View(Cleaned(c, b), free, dirty, c.LOCKED, c.DIRTY \ {b})
      BY <2>c, Locking, Zenon
    <3>. QED
      BY <2>2, <3>1, Locking, Zenon
  <2>. QED
    BY <2>1, <2>2, Zenon

\* The steps of getblk() and bread().
<1>GetblkSteps.
    ASSUME IInv, Typed, NEW p \in Proc, GetblkStep(p)
    PROVE  IInv'
  <2> USE <1>GetblkSteps
  <2> USE DEF At, InGetFree, blk, flush, ghost
  <2>c. View(c, free, dirty, c.LOCKED, c.DIRTY)
    BY NowView, Zenon
  <2>1. CASE GetblkWaits(p)
    <3>1. UNCHANGED <<c, pc, mine, env>>
      BY <2>1, Zenon DEF GetblkWaits
    <3>2. View(c', free, dirty, c.LOCKED, c.DIRTY)
      BY <3>1, <2>c
    <3>. QED
      BY <3>1, <3>2, <1>Stands
  <2>2. CASE GetblkHits(p)
    <3>1. PICK b \in Found(want[p]) \ c.LOCKED : Reads(p, b, Locked([c EXCEPT !.free = Unlinked(@, b)], b))
      BY <2>2, Zenon DEF GetblkHits
    <3>2. b \in Buffer /\ b \notin c.LOCKED /\ pc[p] = "getblk" /\ env' = env
      BY <2>2, Zenon DEF GetblkHits, Found
    <3>3. View(c', free \ {b}, dirty, c.LOCKED \cup {b}, c.DIRTY)
      BY <3>1, <3>2, <2>c, Taking DEF Reads
    <3>4. mine' = [mine EXCEPT ![p] = b] /\ (Goto(p, "hold") \/ Goto(p, "read"))
      BY <3>1, Zenon DEF Reads, do_blk_request
    <3>. QED
      BY <3>2, <3>3, <3>4, <1>Gets DEF Owning, ByGetblk, ByFlush
  <2>3. CASE NoFree(p)
    <3>1. Goto(p, "getblk") /\ UNCHANGED <<c, mine, env>> /\ pc[p] \in {"getblk", "getfree"}
      BY <2>3, Zenon DEF NoFree
    <3>. QED
      BY <3>1, <1>Quiet, Zenon DEF PC, Owning, ByGetblk, ByFlush
  <2>4. CASE FreeIsLocked(p)
    <3>1. Goto(p, "getfree") /\ UNCHANGED <<c, mine, env>> /\ pc[p] \in {"getblk", "getfree"}
      BY <2>4, Zenon DEF FreeIsLocked
    <3>. QED
      BY <3>1, <1>Quiet DEF PC, Owning, ByGetblk, ByFlush
  <2>5. CASE Evicts(p)
    <3> DEFINE b == Head(c.free)
    <3>1. /\ c.free # <<>> /\ b \notin c.LOCKED /\ c' = Taken /\ env' = env
          /\ pc[p] \in {"getblk", "getfree"} /\ Goto(p, "evict") /\ mine' = [mine EXCEPT ![p] = b]
      BY <2>5, Zenon DEF Evicts, do_blk_request
    <3>2. b \in Buffer /\ View(c', free \ {b}, dirty, c.LOCKED \cup {b}, c.DIRTY)
      BY <3>1, <2>c, Heads, Taking
    <3> HIDE DEF b
    <3>. QED
      BY <3>1, <3>2, <1>Gets DEF Owning, ByGetblk, ByFlush
  <2>6. CASE Evicted(p)
    <3> DEFINE b == mine[p]
    <3>1. /\ pc[p] = "evict" /\ Goto(p, "getblk") /\ mine' = [mine EXCEPT ![p] = NULL] /\ env' = env
          /\ c' = brelse(IF res[p] = "err" THEN c ELSE remove_from_dirty_list(Cleaned(c, b), b), b)
      BY <2>6, Zenon DEF Evicted
    <3>2. b \in Buffer /\ b \notin free
      BY <3>1, Zenon DEF IInv, Inv, Places, Lists, Owning, ByGetblk
    <3>3. \/ View(c', free \cup {b}, IF b \in c.DIRTY THEN dirty \cup {b} ELSE dirty, c.LOCKED \ {b}, c.DIRTY)
          \/ View(c', free \cup {b}, dirty \ {b}, c.LOCKED \ {b}, c.DIRTY \ {b})
      <4>1. CASE res[p] = "err"
        BY <3>1, <3>2, <4>1, <2>c, Releasing
      <4>2. CASE res[p] # "err"
        BY <3>1, <3>2, <4>2, <2>c, ReleasingClean
      <4>. QED
        BY <4>1, <4>2
    <3> HIDE DEF b
    <3>4. b = mine[p] /\ "getblk" \in {"user", "getblk"} /\ pc[p] \in ByGetblk
      BY <3>1, Zenon DEF b, ByGetblk
    <3>5. CASE View(c', free \cup {b}, IF b \in c.DIRTY THEN dirty \cup {b} ELSE dirty, c.LOCKED \ {b}, c.DIRTY)
      BY <3>1, <3>4, <3>5, <1>PutsBack
    <3>6. CASE View(c', free \cup {b}, dirty \ {b}, c.LOCKED \ {b}, c.DIRTY \ {b})
      <4> DEFINE D == dirty \ {b}
                 d == c.DIRTY \ {b}
      <4>1. View(c', free \cup {b}, D, c.LOCKED \ {b}, d)
        BY <3>6, Zenon
      <4>2. /\ D \ {b} = dirty \ {b} /\ d \ {b} = c.DIRTY \ {b}
            /\ b \in d => b \in D
            /\ b \in D => b \in d \/ (b \in dirty /\ b \notin c.DIRTY)
        BY Zenon
      <4> HIDE DEF D, d
      <4>3. PutBack(p, "getblk", b, D, d)
        BY <3>1, <3>4, <4>1, <4>2 DEF PutBack
      <4>. QED
        BY <4>3, <1>Puts, Zenon
    <3>. QED
      BY <3>3, <3>5, <3>6, Zenon
  <2>7. CASE Takes(p)
    <3> DEFINE b == Head(c.free)
               cc == [Renamed(want[p]) EXCEPT !.VALID = @ \ {b}]
    <3>1. /\ c.free # <<>> /\ b \notin c.LOCKED /\ pc[p] \in {"getblk", "getfree"} /\ env' = env
          /\ Reads(p, b, cc)
      BY <2>7, Zenon DEF Takes
    <3>2. c' = cc /\ mine' = [mine EXCEPT ![p] = b] /\ (Goto(p, "hold") \/ Goto(p, "read"))
      BY <3>1, Zenon DEF Reads, do_blk_request
    <3>3. b \in Buffer /\ View(Taken, free \ {b}, dirty, c.LOCKED \cup {b}, c.DIRTY)
      BY <3>1, <2>c, Heads, Taking
    <3>4. View(cc, free \ {b}, dirty, c.LOCKED \cup {b}, c.DIRTY)
      <4>1. want[p] \in Block \cup {NULL}
        BY Zenon DEF Typed
      <4>. QED
        BY <3>3, <4>1, Zenon DEF Renamed, View, CShape, CType
    <3> HIDE DEF b, cc
    <3>. QED
      BY <3>1, <3>2, <3>3, <3>4, <1>Gets DEF Owning, ByGetblk, ByFlush
  <2>8. CASE ReadDone(p)
    <3>1. CASE res[p] = "ok"
      <4>1. /\ pc[p] = "read" /\ Goto(p, "hold") /\ mine' = mine /\ env' = env
            /\ c' = [c EXCEPT !.VALID = @ \cup {mine[p]}]
        BY <2>8, <3>1, Zenon DEF ReadDone
      <4>2. View(c', free, dirty, c.LOCKED, c.DIRTY)
        <5>1. mine[p] \in Buffer
          BY <4>1, Zenon DEF IInv, Inv, Places, Owning, ByGetblk
        <5>. QED
          BY <4>1, <5>1, <2>c, Zenon DEF View, CShape, CType
      <4>3. mine[p] \in Buffer \cup {NULL} /\ mine' = [mine EXCEPT ![p] = mine[p]] /\ "hold" \in PC
        BY <4>1, Zenon DEF IInv, Inv, Places, PC
      <4>. QED
        BY <4>1, <4>2, <4>3, <1>Keeps DEF Owning, ByGetblk, ByFlush
    <3>2. CASE res[p] # "ok"
      <4> DEFINE b == mine[p]
      <4>1. /\ pc[p] = "read" /\ Goto(p, "user") /\ mine' = [mine EXCEPT ![p] = NULL] /\ env' = env
            /\ c' = brelse(c, b)
        BY <2>8, <3>2, Zenon DEF ReadDone
      <4>2. b \in Buffer /\ b \notin free /\ b = mine[p] /\ "user" \in {"user", "getblk"} /\ pc[p] \in ByGetblk
        BY <4>1, Zenon DEF IInv, Inv, Places, Lists, Owning, ByGetblk, ByFlush, PC
      <4>3. View(c', free \cup {b}, IF b \in c.DIRTY THEN dirty \cup {b} ELSE dirty, c.LOCKED \ {b}, c.DIRTY)
        BY <4>1, <4>2, <2>c, Releasing, Zenon
      <4> HIDE DEF b
      <4>. QED
        BY <4>1, <4>2, <4>3, <1>PutsBack, Zenon
    <3>. QED
      BY <3>1, <3>2, Zenon
  <2>. QED
    BY <2>1, <2>2, <2>3, <2>4, <2>5, <2>6, <2>7, <2>8 DEF GetblkStep

\* bwrite() and brelse() by a user.
<1>ReleaseSteps.
    ASSUME IInv, NEW p \in Proc, NEW w \in BOOLEAN, Releases(p, w)
    PROVE  IInv'
  <2> USE <1>ReleaseSteps
  <2> DEFINE b == mine[p]
             cw == [c EXCEPT !.current = (@ \ Found(c.block[b])) \cup {b},
                             !.DIRTY = @ \cup {b}, !.VALID = @ \cup {b}]
  <2>1. /\ pc[p] = "hold" /\ Goto(p, "user") /\ mine' = [mine EXCEPT ![p] = NULL] /\ env' = env
        /\ c' = brelse(IF w THEN cw ELSE c, b)
    BY Zenon DEF Releases, At
  <2>2. b \in Buffer /\ b \notin free /\ b = mine[p] /\ "user" \in {"user", "getblk"} /\ pc[p] \in ByGetblk
    BY <2>1, Zenon DEF IInv, Inv, Places, Lists, Owning, ByGetblk, ByFlush, PC
  <2>c. View(c, free, dirty, c.LOCKED, c.DIRTY)
    BY NowView, Zenon
  <2>3. CASE ~w
    <3>1. c' = brelse(c, b)
      BY <2>1, <2>3, Zenon
    <3> HIDE DEF b
    <3>2. View(c', free \cup {b}, IF b \in c.DIRTY THEN dirty \cup {b} ELSE dirty, c.LOCKED \ {b}, c.DIRTY)
      BY <3>1, <2>2, <2>c, Releasing, Zenon
    <3>. QED
      BY <2>1, <2>2, <3>2, <1>PutsBack, Zenon
  <2>4. CASE w
    <3> DEFINE D == dirty \cup {b}
               d == c.DIRTY \cup {b}
    <3>1. c' = brelse(cw, b)
      BY <2>1, <2>4, Zenon
    <3>2. View(cw, free, dirty, c.LOCKED, d)
      BY <2>2, <2>c, Zenon DEF View, CShape, CType
    <3>3. /\ D \ {b} = dirty \ {b} /\ d \ {b} = c.DIRTY \ {b}
          /\ b \in d /\ b \in D
          /\ (IF b \in d THEN dirty \cup {b} ELSE dirty) = D
      BY Zenon
    <3> HIDE DEF b, d, D, cw
    <3>4. View(c', free \cup {b}, IF b \in d THEN dirty \cup {b} ELSE dirty, c.LOCKED \ {b}, d)
      BY <3>1, <3>2, <2>2, Releasing, Zenon
    <3>5. View(c', free \cup {b}, D, c.LOCKED \ {b}, d)
      BY <3>3, <3>4, Zenon
    <3>6. Goto(p, "user") /\ mine' = [mine EXCEPT ![p] = NULL] /\ env' = env
      BY <2>1, Zenon
    <3>7. /\ D \ {b} = dirty \ {b} /\ d \ {b} = c.DIRTY \ {b}
          /\ b \in d => b \in D
          /\ b \in D => b \in d \/ (b \in dirty /\ b \notin c.DIRTY)
      BY <3>3, Zenon
    <3>8. PutBack(p, "user", b, D, d)
      BY <2>2, <3>5, <3>6, <3>7, Zenon DEF PutBack
    <3>. QED
      BY <3>8, <1>Puts, Zenon
  <2>. QED
    BY <2>3, <2>4, Zenon

\* The steps of sync_buffers() and the end of sync_buffers_select().
<1>SyncSteps.
    ASSUME IInv, NEW p \in Proc, SyncStep(p)
    PROVE  IInv'
  <2> USE <1>SyncSteps
  <2> USE DEF At, blk, flush, ghost
  <2>c. View(c, free, dirty, c.LOCKED, c.DIRTY)
    BY NowView, Zenon
  <2>1. CASE SyncLocks(p)
    <3>1. UNCHANGED <<c, mine, env>> /\ (Goto(p, "dirty") \/ UNCHANGED pc) /\ pc[p] = "lock"
      BY <2>1, Zenon DEF SyncLocks, TakeSync
    <3>2. View(c', free, dirty, c.LOCKED, c.DIRTY)
      BY <3>1, <2>c, Zenon
    <3>. QED
      BY <3>1, <3>2, <1>Quiet, <1>Stands, Zenon DEF PC, Owning, ByGetblk, ByFlush
  <2>2. CASE SyncWrites(p)
    <3> DEFINE b == FirstDirty
    <3>1. /\ c.dirty # <<>> /\ b \notin c.LOCKED /\ c' = DirtyTaken /\ env' = env
          /\ pc[p] = "dirty" /\ Goto(p, "write") /\ mine' = [mine EXCEPT ![p] = b]
      BY <2>2, Zenon DEF SyncWrites, DirtyFound, do_blk_request
    <3>2. b \in Buffer /\ b \in dirty /\ View(c', free, dirty \ {b}, c.LOCKED \cup {b}, c.DIRTY)
      BY <3>1, <2>c, Heads, Taking, Zenon
    <3> HIDE DEF b
    <3>. QED
      BY <3>1, <3>2, <1>FlushGets, Zenon DEF Owning, ByGetblk, ByFlush
  <2>3. CASE SyncWritten(p)
    <3> DEFINE b == mine[p]
    <3>1. /\ pc[p] = "write" /\ Goto(p, "dirty") /\ mine' = [mine EXCEPT ![p] = NULL] /\ env' = env
          /\ c' = Unlocked(IF res[p] = "err" THEN insert_on_dirty_list(c, b) ELSE Cleaned(c, b), b)
      BY <2>3, Zenon DEF SyncWritten
    <3>2. b \in Buffer /\ b = mine[p] /\ "dirty" \in PC \ Owning /\ pc[p] \in ByFlush
      BY <3>1, Zenon DEF IInv, Inv, Places, PC, Owning, ByGetblk, ByFlush
    <3>3. \/ View(c', free, dirty \cup {b}, c.LOCKED \ {b}, c.DIRTY)
          \/ View(c', free, dirty, c.LOCKED \ {b}, c.DIRTY \ {b})
      BY <3>1, <3>2, <1>Unlinks, Zenon
    <3> HIDE DEF b
    <3>. QED
      BY <3>1, <3>2, <3>3, <1>FlushPuts, Zenon
  <2>4. CASE SyncDone(p)
    <3>1. UNCHANGED <<c, mine, env>> /\ Goto(p, "user") /\ pc[p] = "dirty"
      BY <2>4, Zenon DEF SyncDone
    <3>. QED
      BY <3>1, <1>Quiet, Zenon DEF PC, Owning, ByGetblk, ByFlush
  <2>5. CASE Selected(p)
    <3>1. /\ pc[p] = "select" /\ Goto(p, "user") /\ mine' = [mine EXCEPT ![p] = NULL] /\ env' = env
          /\ c' = IF res[p] = "err" THEN c ELSE Cleaned(c, mine[p])
      BY <2>5, Zenon DEF Selected
    <3>2. p \in env.selectors
      BY <3>1, Zenon DEF IInv, Inv, Places
    <3>3. View(c', free, dirty, c.LOCKED, c.DIRTY) \/ View(c', free, dirty, c.LOCKED, c.DIRTY \ {mine[p]})
      BY <3>1, <2>c, Locking, Zenon
    <3>4. /\ "user" \in PC /\ "user" \notin Owning /\ pc[p] \notin Owning /\ env.selectors # {}
          /\ NULL \in Buffer \cup {NULL} /\ c.DIRTY \ {mine[p]} \subseteq c.DIRTY
      BY <3>1, <3>2, Zenon DEF PC, Owning, ByGetblk, ByFlush
    <3>. QED
      BY <3>1, <3>3, <3>4, <1>Keeps, Zenon
  <2>. QED
    BY <2>1, <2>2, <2>3, <2>4, <2>5 DEF SyncStep

\* The steps of kbdflushd().
<1>FlusherSteps.
    ASSUME IInv, FlusherStep
    PROVE  IInv'
  <2> USE <1>FlusherSteps
  <2> DEFINE p == kbdflushd
  <2> USE DEF At, blk, flush, ghost
  <2>p. p \in Proc
    BY Sizes, Zenon
  <2>c. View(c, free, dirty, c.LOCKED, c.DIRTY)
    BY NowView, Zenon
  <2>1. CASE FlusherSleeps
    <3>1. UNCHANGED <<c, mine, env>> /\ Goto(p, "klock") /\ pc[p] = "ksleep" /\ env.flusher
      BY <2>1, Zenon DEF FlusherSleeps
    <3> HIDE DEF p
    <3>. QED
      BY <2>p, <3>1, <1>Quiet, Zenon DEF PC, Owning, ByGetblk, ByFlush
  <2>2. CASE FlusherLocks
    <3>1. UNCHANGED <<c, mine, env>> /\ (Goto(p, "kdirty") \/ UNCHANGED pc) /\ pc[p] = "klock"
      BY <2>2, Zenon DEF FlusherLocks, TakeSync
    <3>2. View(c', free, dirty, c.LOCKED, c.DIRTY)
      BY <3>1, <2>c, Zenon
    <3>3. env.flusher
      BY <3>1, Zenon DEF IInv, Inv, Places
    <3> HIDE DEF p
    <3>. QED
      BY <2>p, <3>1, <3>2, <3>3, <1>Quiet, <1>Stands DEF PC, Owning, ByGetblk, ByFlush
  <2>3. CASE FlusherDone
    <3>1. pc[p] = "kdirty" /\ Goto(p, "ksleep") /\ UNCHANGED <<mine, env>>
      BY <2>3, Zenon DEF FlusherDone, FlusherEnds
    <3>2. View(c', free, dirty, c.LOCKED, c.DIRTY)
      <4>1. CASE UNCHANGED c
        BY <4>1, <2>c, Zenon
      <4>2. CASE DirtyFound /\ c' = Unlocked(insert_on_dirty_list(DirtyTaken, FirstDirty), FirstDirty)
        <5> DEFINE b == FirstDirty
                   D == dirty \ {b}
                   L == c.LOCKED \cup {b}
        <5>1. c.dirty # <<>> /\ b \notin c.LOCKED /\ b \in Buffer /\ b \in dirty
          BY <4>2, Heads, Zenon DEF DirtyFound
        <5>2. View(DirtyTaken, free, D, L, c.DIRTY)
          BY <5>1, <2>c, Taking
        <5>3. D \cup {b} = dirty /\ L \ {b} = c.LOCKED
          BY <5>1, Zenon
        <5>4. c' = Unlocked(insert_on_dirty_list(DirtyTaken, b), b)
          BY <4>2, Zenon
        <5> HIDE DEF b, D, L
        <5>5. View(insert_on_dirty_list(DirtyTaken, b), free, D \cup {b}, L, c.DIRTY)
          BY <5>1, <5>2, Listing
        <5>6. View(c', free, D \cup {b}, L \ {b}, c.DIRTY)
          BY <5>4, <5>5, Locking
        <5>. QED
          BY <5>3, <5>6
      <4>. QED
        BY <2>3, <4>1, <4>2 DEF FlusherDone
    <3>3. /\ "ksleep" \in PC /\ "ksleep" \notin Owning /\ pc[p] \notin Owning /\ env' = env
          /\ mine[p] \in Buffer \cup {NULL} /\ mine' = [mine EXCEPT ![p] = mine[p]]
      BY <2>p, <3>1 DEF IInv, Inv, Places, PC, Owning, ByGetblk, ByFlush
    <3> HIDE DEF p
    <3>. QED
      BY <2>p, <3>1, <3>2, <3>3, <1>Keeps
  <2>4. CASE FlusherWrites
    <3> DEFINE b == FirstDirty
    <3>1. /\ c.dirty # <<>> /\ b \notin c.LOCKED /\ c' = DirtyTaken /\ env' = env /\ pc[p] = "kdirty"
          /\ \/ Goto(p, "kwrite") /\ mine' = [mine EXCEPT ![p] = b]
             \/ b \notin c.DIRTY /\ UNCHANGED <<pc, mine>>
      BY <2>4, Zenon DEF FlusherWrites, DirtyFound, do_blk_request
    <3>2. b \in Buffer /\ b \in dirty /\ View(c', free, dirty \ {b}, c.LOCKED \cup {b}, c.DIRTY)
      BY <3>1, <2>c, Heads, Taking
    <3>3. env.flusher
      BY <3>1, Zenon DEF IInv, Inv, Places
    <3> HIDE DEF b, p
    <3>4. CASE Goto(p, "kwrite") /\ mine' = [mine EXCEPT ![p] = b]
      BY <2>p, <3>1, <3>2, <3>3, <3>4, <1>FlushGets DEF Owning, ByGetblk, ByFlush
    <3>5. CASE b \notin c.DIRTY /\ UNCHANGED <<pc, mine>>
      BY <3>1, <3>2, <3>3, <3>5, <1>Strays
    <3>. QED
      BY <3>1, <3>4, <3>5
  <2>5. CASE FlusherWritten
    <3> DEFINE b == mine[p]
    <3>1. /\ pc[p] = "kwrite" /\ mine' = [mine EXCEPT ![p] = NULL] /\ env' = env
          /\ Goto(p, "kdirty") \/ Goto(p, "ksleep")
          /\ c' = Unlocked(IF res[p] = "err" THEN insert_on_dirty_list(c, b) ELSE Cleaned(c, b), b)
      <4>1. CASE res[p] = "err"
        BY <2>5, <4>1 DEF FlusherWritten
      <4>2. CASE res[p] # "err"
        BY <2>5, <4>2 DEF FlusherWritten, FlusherEnds
      <4>. QED
        BY <4>1, <4>2, Zenon
    <3>2. /\ b \in Buffer /\ b = mine[p] /\ {"kdirty", "ksleep"} \subseteq PC \ Owning
          /\ pc[p] \in ByFlush /\ env.flusher
      BY <2>p, <3>1, Zenon DEF IInv, Inv, Places, PC, Owning, ByGetblk, ByFlush
    <3>3. \/ View(c', free, dirty \cup {b}, c.LOCKED \ {b}, c.DIRTY)
          \/ View(c', free, dirty, c.LOCKED \ {b}, c.DIRTY \ {b})
      BY <3>1, <3>2, <1>Unlinks
    <3> HIDE DEF b, p
    <3>. QED
      BY <2>p, <3>1, <3>2, <3>3, <1>FlushPuts
  <2>. QED
    BY <2>1, <2>2, <2>3, <2>4, <2>5 DEF FlusherStep

<1> SUFFICES ASSUME IInv, Typed, [Next]_vars PROVE IInv'
  BY Zenon
<1> USE DEF At, blk, flush, ghost
<1>c. View(c, free, dirty, c.LOCKED, c.DIRTY)
  BY NowView, Zenon
<1>1. ASSUME UNCHANGED <<c, pc, mine, env>> PROVE IInv'
  <2>1. View(c', free, dirty, c.LOCKED, c.DIRTY)
    BY <1>1, <1>c, Zenon
  <2>. QED
    BY <1>1, <2>1, <1>Stands
<1>2. ASSUME NEW p \in Proc, Step(p) PROVE IInv'
  <2>1. CASE FallsAsleep(p) \/ DirtyIsLocked(p)
    BY <1>1, <2>1 DEF FallsAsleep, DirtyIsLocked
  <2>. QED
    BY <1>2, <2>1, <1>GetblkSteps, <1>SyncSteps, <1>ReleaseSteps DEF Step
<1>3. ASSUME NEW p \in Proc, sync_buffers(p) PROVE IInv'
  <2>1. UNCHANGED <<c, mine, env>> /\ Goto(p, "lock") /\ pc[p] = "user"
    BY <1>3, Zenon DEF sync_buffers
  <2>. QED
    BY <2>1, <1>Quiet DEF PC, Owning, ByGetblk, ByFlush
<1>4. ASSUME NEW p \in Proc, NEW b \in Block, bread(p, b) PROVE IInv'
  <2>1. UNCHANGED <<c, mine, env>> /\ Goto(p, "getblk") /\ pc[p] = "user"
    BY <1>4, Zenon DEF bread
  <2>. QED
    BY <2>1, <1>Quiet DEF PC, Owning, ByGetblk, ByFlush
<1>5. ASSUME NEW p \in Proc, NEW b \in Block, sync_buffers_select(p, b) PROVE IInv'
  <2>1. PICK x \in Found(b) : mine' = [mine EXCEPT ![p] = x] /\ Goto(p, "select")
    BY <1>5, Zenon DEF sync_buffers_select, do_blk_request
  <2>2. c' = c /\ env' = env /\ p \in env.selectors /\ pc[p] = "user"
    BY <1>5, Zenon DEF sync_buffers_select
  <2>3. View(c', free, dirty, c.LOCKED, c.DIRTY)
    BY <2>2, <1>c, Zenon
  <2>4. x \in Buffer \cup {NULL} /\ "select" \in PC /\ "select" \notin Owning /\ pc[p] \notin Owning
    BY <2>2, Zenon DEF Found, PC, Owning, ByGetblk, ByFlush
  <2>. QED
    BY <2>1, <2>2, <2>3, <2>4, <1>Keeps
<1>6. ASSUME NEW ok \in BOOLEAN, Interrupt(ok) PROVE IInv'
  <2>1. UNCHANGED <<pc, mine, env>>
    BY <1>6, Zenon DEF Interrupt
  <2>2. c' = c \/ \E S \in SUBSET Buffer : c' = [c EXCEPT !.current = S]
    <3>1. queue # <<>> => Head(queue).buffer \in Buffer
      <4>1. queue # <<>> => Head(queue) \in Req
        BY DEF Typed
      <4>. QED
        BY <4>1, Zenon DEF Req
    <3>2. c.current \subseteq Buffer
      BY <1>c, Zenon DEF View, CShape, CType
    <3>3. \A S, x, in : S \subseteq Buffer /\ x \in Buffer => Put(S, x, in) \subseteq Buffer
      BY Zenon DEF Put
    <3>4. \/ c' = c
          \/ queue # <<>> /\ c' = [c EXCEPT !.current = Put(@, Head(queue).buffer, c.block[Head(queue).buffer] \in disk)]
      BY <1>6, Zenon DEF Interrupt
    <3>. QED
      BY <3>1, <3>2, <3>3, <3>4, Zenon
  <2>3. View(c', free, dirty, c.LOCKED, c.DIRTY)
    BY <2>2, <1>c, Zenon DEF View, CShape, CType
  <2>. QED
    BY <2>1, <2>3, <1>Stands, Zenon
<1>7. CASE UNCHANGED vars
  BY <1>1, <1>7, Zenon DEF vars
<1>. QED
  BY <1>2, <1>3, <1>4, <1>5, <1>6, <1>7, <1>FlusherSteps DEF Next

-----------------------------------------------------------------------------
(* Nobody misses the end of a transfer, for any number of processes, buffers *)
(* and blocks, and for any refusals and errors of the drive.                 *)

\* The processes with a request in q.
Waiting(q) == Owners(q, Len(q))

-----------------------------------------------------------------------------
(* The queue. *)

\* run_blk_request() loses the requests it completes and no other.
LEMMA Running ==
    ASSUME NEW q \in Seq(Req), NEW m \in 0 .. Len(q)
    PROVE  /\ run_blk_request(q, m) \in Seq(Req)
           /\ Waiting(q) \subseteq Owners(q, m) \cup Waiting(run_blk_request(q, m))
<1> DEFINE r == run_blk_request(q, m)
           n == Len(q) - m
<1>1. n \in Nat
  OBVIOUS
<1>2. r = [i \in 1 .. n |-> IF i = 1 THEN [q[m + 1] EXCEPT !.started = TRUE] ELSE q[i + m]]
  BY Zenon DEF run_blk_request
<1>3. \A i \in 1 .. n : i + m \in 1 .. Len(q) /\ q[i + m] \in Req
  OBVIOUS
<1>4. \A i \in 1 .. n : r[i] \in Req /\ r[i].proc = q[i + m].proc
  <2> SUFFICES ASSUME NEW i \in 1 .. n PROVE r[i] \in Req /\ r[i].proc = q[i + m].proc
    BY Zenon
  <2>1. CASE i = 1
    <3>0. i + m = m + 1
      BY <2>1
    <3> HIDE DEF r
    <3>1. r[i] = [q[i + m] EXCEPT !.started = TRUE]
      BY <1>2, <2>1, <3>0, Zenon
    <3>. QED
      BY <1>3, <3>1, Zenon DEF Req
  <2>2. CASE i # 1
    <3>1. r[i] = q[i + m]
      BY <1>2, <2>2, Zenon
    <3>. QED
      BY <1>3, <3>1, Zenon
  <2>. QED
    BY <2>1, <2>2, Zenon
<1>5. DOMAIN r = 1 .. n
  BY <1>2, Zenon
<1> HIDE DEF r
<1>6. r = [i \in 1 .. n |-> r[i]]
  BY <1>2, <1>5, Zenon
<1> HIDE DEF n
<1>7. r \in Seq(Req) /\ Len(r) = n
  <2>1. r \in [1 .. n -> Req]
    BY <1>4, <1>6, Zenon
  <2>2. r \in Seq(Req)
    BY <1>1, <2>1
  <2>. QED
    BY <1>1, <1>5, <2>2
<1> USE DEF n
<1>8. ASSUME NEW j \in 1 .. Len(q), q[j].proc \notin Owners(q, m) PROVE q[j].proc \in Waiting(r)
  <2>1. j \notin 1 .. m
    BY <1>8, Zenon DEF Owners
  <2>2. j - m \in 1 .. n /\ (j - m) + m = j
    BY <2>1
  <2>3. r[j - m].proc = q[j].proc
    BY <1>4, <2>2, Zenon
  <2>. QED
    BY <1>7, <2>2, <2>3, Zenon DEF Waiting, Owners
<1>. QED
  BY <1>7, <1>8, Zenon DEF Waiting, Owners, r

-----------------------------------------------------------------------------
(* Who sleeps for the end of a transfer. *)

\* Between k1 and k2 nobody has begun to.
NoMore(k1, k2) == /\ k2 \in KType
                  /\ \A p \in Proc : k2.sleep_address[p] = p => k1.sleep_address[p] = p

-----------------------------------------------------------------------------
(* The invariant. *)

TInv == /\ k \in KType /\ queue \in Seq(Req)
        /\ falling # NULL => ~intr /\ falling \in Proc /\ falling \in Waiting(queue)
        /\ \A p \in Proc : k.sleep_address[p] = p => p \in Waiting(queue)

\* Nobody waits at the start.
LEMMA InitTInv == Init => TInv
BY NullIsNoChan, Channels DEF Init, KInit, TInv, KType, PState, Req

\* Every step keeps the invariant: it wakes nobody, or it posts a request, or
\* it is an interrupt, or the sleep after do_blk_request().
LEMMA NextTInv == IInv /\ TInv /\ [Next]_vars => TInv'

\* add_blk_request() adds p's.
<1>Adding.
    ASSUME NEW q \in Seq(Req), NEW p \in Proc, NEW op \in {"read_block", "write_block"}, NEW b \in Buffer
    PROVE  /\ add_blk_request(q, Request(p, op, b)) \in Seq(Req)
           /\ Waiting(q) \cup {p} \subseteq Waiting(add_blk_request(q, Request(p, op, b)))
  <2> USE <1>Adding
  <2> DEFINE r == Request(p, op, b)
             a == Append(q, r)
  <2>1. r \in Req /\ r.proc = p
    BY Zenon DEF Request, Req
  <2> HIDE DEF r
  <2>2. a \in Seq(Req) /\ Len(a) = Len(q) + 1 /\ a[Len(q) + 1] = r /\ \A i \in 1 .. Len(q) : a[i] = q[i]
    BY <2>1
  <2> HIDE DEF a
  <2>3. \A i \in 1 .. Len(q) : i \in 1 .. Len(a)
    BY <2>2
  <2>4. Len(q) + 1 \in 1 .. Len(a)
    BY <2>2
  <2>. QED
    BY <2>1, <2>2, <2>3, <2>4, Zenon DEF Waiting, Owners, add_blk_request, a, r

\* wakeup() registers nobody.
<1>Waking. ASSUME NEW k1, NEW k2, NoMore(k1, k2), NEW a
                PROVE  NoMore(k1, wakeup(k2, a))
  BY <1>Waking, NullIsNoChan, Channels, Zenon DEF NoMore, KType, PState, wakeup, Registered

\* Nor does a sleep() on anything else.
<1>Sleeping. ASSUME k \in KType, NEW p \in Proc,
                         NEW a \in {"buffer_wait", "get_free_buffer", "sync_resource", "kbdflushd"}
                  PROVE  NoMore(k, sleep(k, p, a, FALSE))
  BY <1>Sleeping, Channels, Zenon DEF NoMore, KType, PState, sleep

\* The wakeups of brelse(), of insert_on_dirty_list() and of sync_buffers().
<1>Wakings.
    ASSUME k \in KType, NEW cc, NEW p
    PROVE  /\ NoMore(k, k)
           /\ NoMore(k, wakeup(k, "buffer_wait"))
           /\ NoMore(k, wakeup(k, "sync_resource"))
           /\ NoMore(k, wakeup(wakeup(k, "buffer_wait"), "sync_resource"))
           /\ NoMore(k, brelse_wakes(k, cc))
           /\ NoMore(k, WakeFlusher(k, cc))
           /\ NoMore(k, WakeFlusher(wakeup(k, "buffer_wait"), cc))
           /\ NoMore(k, WakeFlusher(wakeup(wakeup(k, "buffer_wait"), "sync_resource"), cc))
           /\ NoMore(k, sync_wakes(p))
  <2> USE <1>Wakings
  <2>1. NoMore(k, k)
    BY Zenon DEF NoMore
  <2>2. NoMore(k, wakeup(k, "buffer_wait")) /\ NoMore(k, wakeup(k, "sync_resource"))
    BY <2>1, <1>Waking, Zenon
  <2>3. NoMore(k, wakeup(wakeup(k, "buffer_wait"), "sync_resource"))
    BY <2>2, <1>Waking, Zenon
  <2>4. ASSUME NEW kk, NoMore(k, kk) PROVE NoMore(k, WakeFlusher(kk, cc))
    BY <2>4, <1>Waking, Zenon DEF WakeFlusher
  <2>5. NoMore(k, brelse_wakes(k, cc))
    BY <2>1, <2>4, <1>Waking, Zenon DEF brelse_wakes
  <2>6. NoMore(k, sync_wakes(p))
    BY <2>1, <2>2, <2>3, Zenon DEF sync_wakes
  <2>. QED
    BY <2>1, <2>2, <2>3, <2>4, <2>5, <2>6

\* The wakeups of the driver.
<1>Ending.
    ASSUME k \in KType, NEW q, NEW m
    PROVE  /\ NoMore(k, Woken(k, q, m))
           /\ \A p \in Proc : Woken(k, q, m).sleep_address[p] = p => p \notin Owners(q, m)
  BY <1>Ending, NullIsNoChan, Channels, Zenon DEF NoMore, KType, PState, Woken

\* Nothing to do with transfers.
<1>Aside.
    ASSUME TInv, NoMore(k, k'), queue' = queue, falling' = NULL
    PROVE  TInv'
  BY <1>Aside, Zenon DEF TInv, NoMore

\* do_blk_request() up to its test.
<1>Posting.
    ASSUME TInv, NEW p \in Proc, NEW op \in {"read_block", "write_block"}, NEW b \in Buffer, NEW l,
           falling = NULL, do_blk_request(p, op, b, l)
    PROVE  TInv'
  <2> USE <1>Posting
  <2> DEFINE q == add_blk_request(queue, Request(p, op, b))
  <2>1. q \in Seq(Req) /\ Waiting(queue) \subseteq Waiting(q) /\ p \in Waiting(q)
    BY <1>Adding, Zenon DEF TInv
  <2>2. PICK m \in Refusals(q, env.refuses) :
            /\ queue' = run_blk_request(q, m)
            /\ res' = [Ended(q, m, "err") EXCEPT ![p] = IF p \in Owners(q, m) THEN "err" ELSE "none"]
            /\ k' = Woken(k, q, m)
            /\ falling' = IF res'[p] = "none" THEN p ELSE NULL
            /\ intr' = (intr /\ FlagsRestored(queue'))
    BY Zenon DEF do_blk_request
  <2> HIDE DEF q
  <2>3. m \in 0 .. Len(q)
    BY <2>1 DEF Refusals
  <2>4. queue' \in Seq(Req) /\ Waiting(q) \subseteq Owners(q, m) \cup Waiting(queue')
    BY <2>1, <2>2, <2>3, Running
  <2>5. /\ NoMore(k, k')
        /\ \A x \in Proc : k'.sleep_address[x] = x => x \notin Owners(q, m)
    BY <2>2, <1>Ending, Zenon DEF TInv
  <2>6. k' \in KType /\ \A x \in Proc : k'.sleep_address[x] = x => x \in Waiting(queue')
    BY <2>1, <2>4, <2>5, Zenon DEF TInv, NoMore
  <2>7. ASSUME falling' # NULL PROVE ~intr' /\ falling' \in Proc /\ falling' \in Waiting(queue')
    <3>1. falling' = p /\ res'[p] = "none"
      BY <2>2, <2>7, Zenon
    <3>2. p \notin Owners(q, m)
      BY <2>2, <3>1, Zenon DEF Ended
    <3>3. p \in Waiting(queue')
      BY <2>1, <2>4, <3>2, Zenon
    <3>4. queue' # <<>>
      BY <3>3 DEF Waiting, Owners
    <3>5. ~FlagsRestored(queue')
      BY <3>4, Zenon DEF FlagsRestored
    <3>. QED
      BY <2>2, <3>1, <3>3, <3>5
  <2>. QED
    BY <2>4, <2>6, <2>7, Zenon DEF TInv, Waiting

\* Its sleep().
<1>Falling.
    ASSUME TInv, NEW p \in Proc, FallsAsleep(p)
    PROVE  TInv'
  <2> USE <1>Falling
  <2>1. p # NULL
    BY NullIsNoChan, Channels, Zenon
  <2>2. p \in Waiting(queue) /\ queue' = queue /\ falling' = NULL /\ k' = sleep(k, p, p, FALSE)
    BY <2>1, Zenon DEF FallsAsleep, TInv, blk
  <2>3. /\ k' \in KType
        /\ \A x \in Proc : k'.sleep_address[x] = x => k.sleep_address[x] = x \/ x = p
    BY <2>2, Channels, ZenonT(60) DEF TInv, KType, PState, sleep
  <2>. QED
    BY <2>2, <2>3, Zenon DEF TInv

\* The interrupt, which does not come between the two.
<1>Interrupting.
    ASSUME TInv, NEW ok \in BOOLEAN, Interrupt(ok)
    PROVE  TInv'
  <2> USE <1>Interrupting
  <2>1. queue # <<>> /\ falling' = falling /\ falling = NULL
    BY Zenon DEF Interrupt, turn, TInv
  <2> DEFINE q == Tail(queue)
  <2>2. PICK m \in IF ok THEN Refusals(q, env.refuses) ELSE {0} :
            queue' = ata_end_request(queue, ok, m) /\ k' = Woken(k, queue, m + 1)
    BY Zenon DEF Interrupt
  <2>3. q \in Seq(Req) /\ Len(q) \in Nat /\ Len(queue) = Len(q) + 1 /\ \A i \in 1 .. Len(q) : q[i] = queue[i + 1]
    BY <2>1 DEF TInv
  <2> HIDE DEF q
  <2>4. m \in 0 .. Len(q)
    BY <2>2, <2>3 DEF Refusals
  <2>5. queue' \in Seq(Req) /\ Waiting(q) \subseteq Owners(q, m) \cup Waiting(queue')
    <3>1. CASE ok
      <4>1. queue' = run_blk_request(q, m)
        BY <2>2, <3>1, Zenon DEF ata_end_request, q
      <4>. QED
        BY <2>3, <2>4, <4>1, Running
    <3>2. CASE ~ok
      <4>1. queue' = q
        BY <2>2, <3>2, Zenon DEF ata_end_request, q
      <4>. QED
        BY <2>3, <4>1, Zenon
    <3>. QED
      BY <3>1, <3>2, Zenon
  <2>6. Waiting(queue) \subseteq Owners(queue, m + 1) \cup Waiting(queue')
    <3> SUFFICES ASSUME NEW j \in 1 .. Len(queue), queue[j].proc \notin Owners(queue, m + 1)
                 PROVE  queue[j].proc \in Waiting(queue')
      BY Zenon DEF Waiting, Owners
    <3>1. j \notin 1 .. m + 1
      BY Zenon DEF Owners
    <3>2. j - 1 \in 1 .. Len(q) /\ (j - 1) + 1 = j
      BY <2>3, <2>4, <3>1
    <3>3. q[j - 1] = queue[j]
      BY <2>3, <3>2
    <3>4. queue[j].proc \in Waiting(q)
      BY <3>2, <3>3 DEF Waiting, Owners
    <3>5. queue[j].proc \notin Owners(q, m)
      <4> SUFFICES ASSUME NEW i \in 1 .. m PROVE queue[j].proc # q[i].proc
        BY Zenon DEF Owners
      <4>1. i + 1 \in 1 .. m + 1 /\ q[i] = queue[i + 1]
        BY <2>3, <2>4
      <4>. QED
        BY <4>1, Zenon DEF Owners
    <3>. QED
      BY <2>5, <3>4, <3>5
  <2>7. /\ NoMore(k, k')
        /\ \A x \in Proc : k'.sleep_address[x] = x => x \notin Owners(queue, m + 1)
    BY <2>2, <1>Ending, Zenon DEF TInv
  <2>. QED
    BY <2>1, <2>5, <2>6, <2>7 DEF TInv, NoMore

\* The steps of getblk() and bread().
<1>GetblkTransfers.
    ASSUME IInv, TInv, NEW p \in Proc, GetblkStep(p)
    PROVE  TInv'
  <2> USE <1>GetblkTransfers
  <2> USE DEF At, InGetFree, blk
  <2>k. k \in KType
    BY Zenon DEF TInv
  <2>1. CASE GetblkWaits(p)
    <3>1. falling = NULL /\ k' = sleep(k, p, "buffer_wait", FALSE) /\ queue' = queue /\ falling' = NULL
      BY <2>1, Zenon DEF GetblkWaits, Sleeps, LeavesCPU
    <3>. QED
      BY <2>k, <3>1, <1>Sleeping, <1>Aside
  <2>2. ASSUME falling = NULL, NEW b \in Buffer, NEW cc, Reads(p, b, cc) PROVE TInv'
    <3>1. CASE UNCHANGED <<k, queue, falling>>
      <4>1. NoMore(k, k') /\ queue' = queue /\ falling' = NULL
        BY <2>k, <2>2, <3>1, <1>Wakings
      <4>. QED
        BY <4>1, <1>Aside, Zenon
    <3>2. CASE do_blk_request(p, "read_block", b, "read")
      BY <2>2, <3>2, <1>Posting
    <3>. QED
      BY <2>2, <3>1, <3>2 DEF Reads, LeavesCPU
  <2>3. CASE GetblkHits(p)
    BY <2>2, <2>3, Zenon DEF GetblkHits, Found
  <2>4. CASE NoFree(p)
    <3>1. k' = sleep(k, p, "get_free_buffer", FALSE) /\ queue' = queue /\ falling' = NULL
      BY <2>4, Zenon DEF NoFree, Sleeps, LeavesCPU
    <3>. QED
      BY <2>k, <3>1, <1>Sleeping, <1>Aside
  <2>5. CASE FreeIsLocked(p)
    <3>1. k' = sleep(k, p, "buffer_wait", FALSE) /\ queue' = queue /\ falling' = NULL
      BY <2>5, Zenon DEF FreeIsLocked, Sleeps, LeavesCPU
    <3>. QED
      BY <2>k, <3>1, <1>Sleeping, <1>Aside
  <2>6. CASE Evicts(p)
    <3>1. falling = NULL /\ Head(c.free) \in Buffer /\ do_blk_request(p, "write_block", Head(c.free), "evict")
      BY <2>6, Heads, Zenon DEF Evicts
    <3>. QED
      BY <3>1, <1>Posting, Zenon
  <2>7. CASE Evicted(p)
    <3>1. k' = brelse_wakes(k, c') /\ queue' = queue /\ falling' = NULL
      BY <2>7, Zenon DEF Evicted, KeepsCPU, Freed
    <3>2. NoMore(k, k')
      BY <2>k, <3>1, <1>Wakings
    <3>. QED
      BY <3>1, <3>2, <1>Aside, Zenon
  <2>8. CASE Takes(p)
    BY <2>2, <2>8, Heads, Zenon DEF Takes
  <2>9. CASE ReadDone(p)
    <3>1. (k' = k \/ k' = brelse_wakes(k, c')) /\ queue' = queue /\ falling' = NULL
      BY <2>9, Zenon DEF ReadDone, LeavesCPU, Freed
    <3>2. NoMore(k, k')
      BY <2>k, <3>1, <1>Wakings, Zenon
    <3>. QED
      BY <3>1, <3>2, <1>Aside, Zenon
  <2>. QED
    BY <2>1, <2>3, <2>4, <2>5, <2>6, <2>7, <2>8, <2>9 DEF GetblkStep

\* The steps of sync_buffers(), sync_buffers_select() and of a user.
<1>SyncTransfers.
    ASSUME IInv, TInv, NEW p \in Proc,
           \/ SyncStep(p) \/ sync_buffers(p) \/ DirtyIsLocked(p)
           \/ \E w \in BOOLEAN : Releases(p, w)
           \/ \E b \in Block : bread(p, b) \/ sync_buffers_select(p, b)
    PROVE  TInv'
  <2> USE <1>SyncTransfers
  <2> USE DEF At, blk
  <2>k. k \in KType
    BY Zenon DEF TInv
  <2>1. CASE SyncLocks(p)
    <3>1. (k' = k \/ k' = sleep(k, p, "sync_resource", FALSE)) /\ queue' = queue /\ falling' = NULL
      BY <2>1, Zenon DEF SyncLocks, TakeSync, Sleeps, KeepsCPU, LeavesCPU
    <3>2. NoMore(k, k')
      BY <2>k, <3>1, <1>Sleeping, <1>Wakings
    <3>. QED
      BY <3>1, <3>2, <1>Aside, Zenon
  <2>2. CASE SyncWrites(p)
    <3>1. falling = NULL /\ FirstDirty \in Buffer /\ do_blk_request(p, "write_block", FirstDirty, "write")
      BY <2>2, Heads, Zenon DEF SyncWrites, DirtyFound
    <3>. QED
      BY <3>1, <1>Posting, Zenon
  <2>3. CASE SyncWritten(p)
    <3>1. (k' = k \/ k' = WakeFlusher(k, c')) /\ queue' = queue /\ falling' = NULL
      BY <2>3, Zenon DEF SyncWritten, KeepsCPU, Freed
    <3>2. NoMore(k, k')
      BY <2>k, <3>1, <1>Wakings
    <3>. QED
      BY <3>1, <3>2, <1>Aside
  <2>4. CASE SyncDone(p)
    <3>1. k' = sync_wakes(p) /\ queue' = queue /\ falling' = NULL
      BY <2>4, Zenon DEF SyncDone, LeavesCPU
    <3>2. NoMore(k, k')
      BY <2>k, <3>1, <1>Wakings
    <3>. QED
      BY <3>1, <3>2, <1>Aside, Zenon
  <2>5. CASE \/ Selected(p) \/ sync_buffers(p) \/ \E b \in Block : bread(p, b)
    <3>1. k' = k /\ queue' = queue /\ falling' = NULL
      BY <2>5, Zenon DEF Selected, sync_buffers, bread, KeepsCPU, LeavesCPU, Freed
    <3>2. NoMore(k, k')
      BY <2>k, <3>1, <1>Wakings, Zenon
    <3>. QED
      BY <3>1, <3>2, <1>Aside
  <2>6. CASE DirtyIsLocked(p)
    <3>1. k' = sleep(k, p, "buffer_wait", FALSE) /\ queue' = queue /\ falling' = NULL
      BY <2>6, Zenon DEF DirtyIsLocked, Sleeps, LeavesCPU
    <3>. QED
      BY <2>k, <3>1, <1>Sleeping, <1>Aside
  <2>7. CASE \E w \in BOOLEAN : Releases(p, w)
    <3>1. k' = brelse_wakes(k, c') /\ queue' = queue /\ falling' = NULL
      BY <2>7, Zenon DEF Releases, LeavesCPU
    <3>2. NoMore(k, k')
      BY <2>k, <3>1, <1>Wakings
    <3>. QED
      BY <3>1, <3>2, <1>Aside
  <2>8. ASSUME NEW b \in Block, sync_buffers_select(p, b) PROVE TInv'
    <3>1. PICK x \in Found(b) : do_blk_request(p, "write_block", x, "select")
      BY <2>8, Zenon DEF sync_buffers_select
    <3>2. x \in Buffer /\ falling = NULL
      BY <2>8, Zenon DEF sync_buffers_select, Found
    <3>. QED
      BY <3>1, <3>2, <1>Posting
  <2>. QED
    BY <2>1, <2>2, <2>3, <2>4, <2>5, <2>6, <2>7, <2>8 DEF SyncStep

\* The steps of kbdflushd().
<1>FlusherTransfers.
    ASSUME IInv, TInv, FlusherStep
    PROVE  TInv'
  <2> USE <1>FlusherTransfers
  <2> USE DEF At, blk
  <2>p. kbdflushd \in Proc
    BY Sizes, Zenon
  <2>k. k \in KType
    BY Zenon DEF TInv
  <2>1. CASE FlusherSleeps
    <3>1. k' = sleep(k, kbdflushd, "kbdflushd", FALSE) /\ queue' = queue /\ falling' = NULL
      BY <2>1 DEF FlusherSleeps, Sleeps, LeavesCPU
    <3>. QED
      BY <2>p, <2>k, <3>1, <1>Sleeping, <1>Aside
  <2>2. CASE FlusherLocks
    <3>1. /\ k' = k \/ k' = sleep(k, kbdflushd, "sync_resource", FALSE)
          /\ queue' = queue /\ falling' = NULL
      BY <2>2, Zenon DEF FlusherLocks, TakeSync, Sleeps, KeepsCPU, LeavesCPU
    <3>2. NoMore(k, k')
      BY <2>p, <2>k, <3>1, <1>Sleeping, <1>Wakings
    <3>. QED
      BY <3>1, <3>2, <1>Aside
  <2>3. CASE FlusherDone
    <3>1. /\ \/ k' = wakeup(k, "sync_resource")
             \/ k' = WakeFlusher(wakeup(wakeup(k, "buffer_wait"), "sync_resource"), c')
          /\ queue' = queue /\ falling' = NULL
      BY <2>3, Zenon DEF FlusherDone, FlusherEnds, LeavesCPU
    <3>2. NoMore(k, k')
      BY <2>k, <3>1, <1>Wakings
    <3>. QED
      BY <3>1, <3>2, <1>Aside
  <2>4. CASE FlusherWrites
    <3>1. falling = NULL /\ FirstDirty \in Buffer
      BY <2>4, Heads DEF FlusherWrites, DirtyFound
    <3>2. CASE do_blk_request(kbdflushd, "write_block", FirstDirty, "kwrite")
      BY <2>p, <3>1, <3>2, <1>Posting
    <3>3. CASE UNCHANGED <<k, queue, falling>>
      <4>1. NoMore(k, k') /\ queue' = queue /\ falling' = NULL
        BY <2>k, <3>1, <3>3, <1>Wakings
      <4>. QED
        BY <4>1, <1>Aside
    <3>. QED
      BY <2>4, <3>2, <3>3 DEF FlusherWrites, KeepsCPU
  <2>5. CASE FlusherWritten
    <3>1. queue' = queue /\ falling = NULL
      BY <2>5, Zenon DEF FlusherWritten, Freed
    <3>2. /\ \/ k' = WakeFlusher(wakeup(k, "buffer_wait"), c')
             \/ k' = wakeup(wakeup(k, "buffer_wait"), "sync_resource")
             \/ k' = wakeup(k, "buffer_wait")
          /\ falling' = falling
      BY <2>5, Zenon DEF FlusherWritten, FlusherEnds, KeepsCPU, LeavesCPU
    <3>3. NoMore(k, k')
      BY <2>k, <3>2, <1>Wakings
    <3>. QED
      BY <3>1, <3>2, <3>3, <1>Aside
  <2>. QED
    BY <2>1, <2>2, <2>3, <2>4, <2>5 DEF FlusherStep

<1> SUFFICES ASSUME IInv, TInv, [Next]_vars PROVE TInv'
  BY Zenon
<1>1. CASE UNCHANGED vars
  BY <1>1 DEF vars, TInv, Waiting, Owners
<1>. QED
  BY <1>1, <1>GetblkTransfers, <1>SyncTransfers, <1>FlusherTransfers, <1>Falling, <1>Interrupting DEF Next, Step

\* The wishes are for blocks.
LEMMA NextWant ==
    ASSUME want \in [Proc -> Block \cup {NULL}], [Next]_vars
    PROVE  want' \in [Proc -> Block \cup {NULL}]
<1> DEFINE Asks(p) == \E b \in Block \cup {NULL} : want' = [want EXCEPT ![p] = b]
<1>1. ASSUME NEW p \in Proc, GetblkStep(p) PROVE want' = want \/ Asks(p)
  BY <1>1, Zenon DEF GetblkStep, GetblkWaits, GetblkHits, NoFree, FreeIsLocked, Evicts, Evicted, Takes, ReadDone
<1>2. ASSUME NEW p \in Proc, Step(p) PROVE want' = want \/ Asks(p)
  BY <1>1, <1>2, Zenon DEF Step, FallsAsleep, DirtyIsLocked, SyncStep, SyncLocks, SyncWrites, SyncWritten,
                           SyncDone, Selected, Releases
<1>3. ASSUME NEW p \in Proc, NEW b \in Block, bread(p, b) \/ sync_buffers_select(p, b) PROVE want' = want \/ Asks(p)
  BY <1>3, Zenon DEF bread, sync_buffers_select
<1>4. ASSUME NEW p \in Proc, sync_buffers(p) PROVE want' = want
  BY <1>4, Zenon DEF sync_buffers
<1>5. ASSUME FlusherStep PROVE want' = want
  BY <1>5, Zenon DEF FlusherStep, FlusherSleeps, FlusherLocks, FlusherDone, FlusherWrites, FlusherWritten
<1>6. ASSUME NEW ok \in BOOLEAN, Interrupt(ok) PROVE want' = want
  BY <1>6, Zenon DEF Interrupt
<1>7. want' = want \/ \E p \in Proc : Asks(p)
  BY <1>2, <1>3, <1>4, <1>5, <1>6, Zenon DEF Next, vars
<1>. QED
  BY <1>7, Zenon

\* The three invariants together.
Base == IInv /\ TInv /\ Typed

\* They hold at the start.
LEMMA InitBase == Init => Base
<1>1. Init => want \in [Proc -> Block \cup {NULL}]
  BY Zenon DEF Init
<1>. QED
  BY <1>1, InitIInv, InitTInv, Zenon DEF Base, Typed, TInv

\* Every step keeps them.
LEMMA NextBase == Base /\ [Next]_vars => Base'
<1> SUFFICES ASSUME Base, [Next]_vars PROVE Base'
  BY Zenon
<1>1. IInv' /\ TInv'
  BY NextIInv, NextTInv, Zenon DEF Base
<1>2. want' \in [Proc -> Block \cup {NULL}]
  BY NextWant, Zenon DEF Base, Typed
<1>. QED
  BY <1>1, <1>2, Zenon DEF Base, Typed, TInv

\* BUFFER_LOCKED excludes: a buffer that getblk() or get_dirty_buffer() has
\* returned is locked and belongs to one process until that process unlocks it,
\* in every environment.
THEOREM OneOwnerHolds == Spec => []OneOwner
<1>1. Base => OneOwner
  BY Zenon DEF Base, IInv, Inv
<1>. QED
  BY <1>1, InitBase, NextBase, PTL DEF Spec

\* No path of getblk(), sync_buffers() or kbdflushd() leaves a buffer locked
\* behind, as long as kbdflushd() and the barrier of the journal do not both run.
THEOREM LockedIsOwnedHolds == Spec => [](Separate => LockedIsOwned)
<1>1. Base => (Separate => LockedIsOwned)
  BY Zenon DEF Base, IInv, Inv
<1>. QED
  BY <1>1, InitBase, NextBase, PTL DEF Spec

\* The free list has what getblk() has not taken, and the dirty list the dirty
\* buffers that are not locked, under the same condition.
THEOREM ListsExactHolds == Spec => [](Separate => ListsExact)
<1>1. Base => (Separate => ListsExact)
  <2> SUFFICES ASSUME Base, Separate PROVE ListsExact
    BY Zenon
  <2>1. OneOwner /\ Lists /\ Tidy
    BY Zenon DEF Base, IInv, Inv
  <2>2. c.DIRTY \subseteq Buffer
    BY Zenon DEF Base, IInv, CShape, CType
  <2>3. c.DIRTY \ c.LOCKED \subseteq dirty
    BY <2>1, <2>2, Zenon DEF Lists, OneOwner, Owns, ByFlush
  <2>4. \A b \in Range(env.pool) : b \in free <=> ~\E p \in Proc : mine[p] = b /\ pc[p] \in ByGetblk
    BY <2>1, Zenon DEF Lists
  <2>5. env.flusher => dirty \subseteq c.DIRTY
    BY <2>1, Zenon DEF Separate, Tidy
  <2>. QED
    BY <2>3, <2>4, <2>5, Zenon DEF ListsExact, free, dirty, ByGetblk
<1>. QED
  BY <1>1, InitBase, NextBase, PTL DEF Spec

\* do_blk_request() never misses the end of its transfer: no interrupt comes
\* between the test of br->status and the sleep(), and who sleeps for a request
\* has it in the queue, however many requests the drive refuses or fails.
THEOREM NoTransferMissedHolds == Spec => []NoTransferMissed
<1>1. Base => NoTransferMissed
  BY Zenon DEF Base, TInv, NoTransferMissed, Waiting
<1>. QED
  BY <1>1, InitBase, NextBase, PTL DEF Spec

-----------------------------------------------------------------------------
(* The requests and the processes that wait for them agree. *)

Transferring == {"evict", "read", "write", "kwrite", "select"}

\* p waits for the request r, which is for its buffer and has not ended.
Fits(r) == /\ pc[r.proc] \in Transferring /\ mine[r.proc] = r.buffer
           /\ r.op = "read_block" <=> pc[r.proc] = "read"
           /\ res[r.proc] = "none"

\* No process has two requests in q.
Distinct(q) == \A i, i2 \in 1 .. Len(q) : q[i].proc = q[i2].proc => i = i2

Asleep(kk, p) == kk.state[p] = "SLEEPING" /\ kk.sleep_address[p] = p

\* p has not seen the end of its request.
Awaits(p) == pc[p] \in Transferring /\ res[p] = "none"

\* A process that goes on after do_blk_request() has seen how its request
\* ended, and no request ends badly on a drive without errors.
RInv == /\ res \in [Proc -> {"none", "ok", "err"}]
        /\ \A i \in 1 .. Len(queue) : Fits(queue[i])
        /\ Distinct(queue)
        /\ \A p \in Proc : Awaits(p) => falling = p \/ Asleep(k, p)
        /\ ~env.refuses /\ ~env.fails => \A p \in Proc : res[p] # "err"

\* r is q without its first d requests, except for which ones are started.
Shifted(q, r, d) == /\ Len(r) = Len(q) - d
                    /\ \A i \in 1 .. Len(r) : /\ i + d \in 1 .. Len(q)
                                              /\ r[i].proc = q[i + d].proc /\ r[i].op = q[i + d].op
                                              /\ r[i].buffer = q[i + d].buffer

\* That is what run_blk_request() leaves.
LEMMA RunShifts ==
    ASSUME NEW q \in Seq(Req), NEW m \in 0 .. Len(q)
    PROVE  Shifted(q, run_blk_request(q, m), m)
<1> DEFINE r == run_blk_request(q, m)
           n == Len(q) - m
<1>1. n \in Nat
  OBVIOUS
<1>2. r = [i \in 1 .. n |-> IF i = 1 THEN [q[m + 1] EXCEPT !.started = TRUE] ELSE q[i + m]]
  BY Zenon DEF run_blk_request
<1>3. \A i \in 1 .. n : i + m \in 1 .. Len(q) /\ q[i + m] \in Req
  OBVIOUS
<1>4. r \in Seq(Req)
  BY Running, Zenon
<1>5. DOMAIN r = 1 .. n
  BY <1>2, Zenon
<1> HIDE DEF r
<1>6. Len(r) = n
  BY <1>1, <1>4, <1>5
<1>7. ASSUME NEW i \in 1 .. n
      PROVE  r[i].proc = q[i + m].proc /\ r[i].op = q[i + m].op /\ r[i].buffer = q[i + m].buffer
  <2>1. CASE i = 1
    <3>0. i + m = m + 1
      BY <2>1
    <3>1. r[i] = [q[i + m] EXCEPT !.started = TRUE]
      BY <1>2, <2>1, <3>0, Zenon
    <3>. QED
      BY <1>3, <3>1, Zenon DEF Req
  <2>2. CASE i # 1
    <3>1. r[i] = q[i + m]
      BY <1>2, <2>2, Zenon
    <3>. QED
      BY <3>1, Zenon
  <2>. QED
    BY <2>1, <2>2, Zenon
<1>. QED
  BY <1>3, <1>6, <1>7, Zenon DEF Shifted, r

-----------------------------------------------------------------------------
(* Who is asleep for a transfer stays asleep, whatever else is woken. *)

Undisturbed(k1, k2) == \A p \in Proc : Asleep(k1, p) => Asleep(k2, p)

\* A running process that is at a transfer has seen the end of its request,
\* and no running process has one in the queue.
LEMMA HasSeen ==
    ASSUME Base, RInv, NEW p \in Proc, k.state[p] = "RUNNING", falling = NULL
    PROVE  /\ pc[p] \in Transferring => res[p] \in {"ok", "err"}
           /\ \A i \in 1 .. Len(queue) : queue[i].proc # p
<1>1. p # NULL
  BY NullIsNoChan, Channels, Zenon
<1>2. ~Awaits(p)
  BY <1>1, Zenon DEF RInv, Asleep
<1>. QED
  BY <1>2, Zenon DEF RInv, Awaits, Fits

\* p goes on, outside do_blk_request().
Moves(p) == /\ k.state[p] = "RUNNING" /\ falling = NULL /\ falling' = NULL
            /\ queue' = queue /\ env' = env /\ Undisturbed(k, k')
            /\ res' = res \/ res' = [res EXCEPT ![p] = "none"]
            /\ \E l \in PC \ Transferring : pc' = [pc EXCEPT ![p] = l]
            /\ mine' = mine \/ \E x : mine' = [mine EXCEPT ![p] = x]

\* The queue after an interrupt.
LEMMA EndShifts ==
    ASSUME NEW q \in Seq(Req), q # <<>>, NEW ok \in BOOLEAN,
           NEW m \in 0 .. Len(Tail(q)), ~ok => m = 0
    PROVE  /\ m + 1 \in 0 .. Len(q)
           /\ ata_end_request(q, ok, m) \in Seq(Req)
           /\ Shifted(q, ata_end_request(q, ok, m), m + 1)
           /\ Owners(q, m + 1) = Owners(Tail(q), m) \cup {Head(q).proc}
<1> DEFINE t == Tail(q)
           r == ata_end_request(q, ok, m)
<1>1. t \in Seq(Req) /\ Len(q) = Len(t) + 1 /\ Head(q) = q[1] /\ \A i \in 1 .. Len(t) : t[i] = q[i + 1]
  OBVIOUS
<1>2. r = IF ok THEN run_blk_request(t, m) ELSE t
  BY Zenon DEF ata_end_request
<1>3. m \in 0 .. Len(t)
  OBVIOUS
<1> HIDE DEF t, r
<1>4. r \in Seq(Req) /\ Shifted(t, r, m)
  <2>1. CASE ok
    BY <1>1, <1>2, <1>3, <2>1, Running, RunShifts, Zenon
  <2>2. CASE ~ok
    <3>1. r = t /\ m = 0
      BY <1>2, <2>2, Zenon
    <3>. QED
      BY <1>1, <3>1, Z3 DEF Shifted
  <2>. QED
    BY <2>1, <2>2, Zenon
<1>5. Shifted(q, r, m + 1)
  <2>1. Len(r) = Len(q) - (m + 1)
    BY <1>1, <1>3, <1>4 DEF Shifted
  <2>2. ASSUME NEW i \in 1 .. Len(r)
        PROVE  /\ i + (m + 1) \in 1 .. Len(q)
               /\ r[i].proc = q[i + (m + 1)].proc /\ r[i].op = q[i + (m + 1)].op
               /\ r[i].buffer = q[i + (m + 1)].buffer
    <3>1. i + m \in 1 .. Len(t) /\ r[i].proc = t[i + m].proc /\ r[i].op = t[i + m].op /\ r[i].buffer = t[i + m].buffer
      BY <1>4, Zenon DEF Shifted
    <3>2. (i + m) + 1 = i + (m + 1)
      BY <1>3, <1>4
    <3>3. t[i + m] = q[i + (m + 1)] /\ i + (m + 1) \in 1 .. Len(q)
      BY <1>1, <3>1, <3>2
    <3>. QED
      BY <3>1, <3>3, Zenon
  <2>. QED
    BY <2>1, <2>2, Zenon DEF Shifted
<1>6. Owners(q, m + 1) = Owners(t, m) \cup {Head(q).proc}
  <2>1. ASSUME NEW j \in 1 .. m + 1 PROVE j = 1 \/ \E i \in 1 .. m : t[i] = q[j]
    <3>1. CASE j # 1
      <4>1. j - 1 \in 1 .. m /\ t[j - 1] = q[j]
        BY <1>1, <1>3, <3>1
      <4>. QED
        BY <4>1, Zenon
    <3>. QED
      BY <3>1, Zenon
  <2>2. ASSUME NEW i \in 1 .. m PROVE i + 1 \in 1 .. m + 1 /\ t[i] = q[i + 1]
    BY <1>1, <1>3
  <2>3. 1 \in 1 .. m + 1
    BY <1>3
  <2>4. ASSUME NEW j \in 1 .. m + 1 PROVE q[j].proc \in Owners(t, m) \cup {Head(q).proc}
    BY <1>1, <2>1, Zenon DEF Owners
  <2>5. ASSUME NEW i \in 1 .. m PROVE t[i].proc \in Owners(q, m + 1)
    BY <2>2, Zenon DEF Owners
  <2>6. Head(q).proc \in Owners(q, m + 1)
    BY <1>1, <2>3, Zenon DEF Owners
  <2>7. Owners(q, m + 1) \subseteq Owners(t, m) \cup {Head(q).proc}
    BY <2>4, Zenon DEF Owners
  <2>8. Owners(t, m) \subseteq Owners(q, m + 1)
    BY <2>5, Zenon DEF Owners
  <2>. QED
    BY <2>6, <2>7, <2>8, Zenon
<1>7. m + 1 \in 0 .. Len(q)
  BY <1>1, <1>3
<1>. QED
  BY <1>4, <1>5, <1>6, <1>7, Zenon DEF t, r

\* The interrupt tells of one transfer: the process of the request at the head
\* learns how it went, those of the refused ones that they failed.
LEMMA Tells ==
    ASSUME Base, RInv, NEW ok \in BOOLEAN, Interrupt(ok)
    PROVE  /\ queue # <<>> /\ Head(queue) \in Req /\ Fits(Head(queue)) /\ falling = NULL
           /\ \E m \in 0 .. Len(queue) :
                 /\ queue' \in Seq(Req) /\ Shifted(queue, queue', m) /\ k' = Woken(k, queue, m)
                 /\ res' \in [Proc -> {"none", "ok", "err"}]
                 /\ Head(queue).proc \in Owners(queue, m)
                 /\ res'[Head(queue).proc] = IF ok THEN "ok" ELSE "err"
                 /\ \A x \in Proc \ {Head(queue).proc} :
                       res'[x] = IF x \in Owners(queue, m) THEN "err" ELSE res[x]
                 /\ ~env.refuses => Owners(queue, m) = {Head(queue).proc}
<1> DEFINE t == Tail(queue)
           h == Head(queue).proc
<1>0. queue \in Seq(Req) /\ res \in [Proc -> {"none", "ok", "err"}]
  BY Zenon DEF Base, TInv, RInv
<1>1. queue # <<>> /\ falling = NULL
  BY Zenon DEF Interrupt, turn, Base, TInv
<1>2. PICK m \in IF ok THEN Refusals(t, env.refuses) ELSE {0} :
          /\ queue' = ata_end_request(queue, ok, m)
          /\ res' = [Ended(t, m, "err") EXCEPT ![h] = IF ok THEN "ok" ELSE "err"]
          /\ k' = Woken(k, queue, m + 1)
  BY Zenon DEF Interrupt
<1>3. t \in Seq(Req) /\ Head(queue) = queue[1] /\ 1 \in 1 .. Len(queue) /\ Head(queue) \in Req
  BY <1>0, <1>1
<1>4. Fits(Head(queue)) /\ h \in Proc
  BY <1>3, Zenon DEF RInv, Req
<1>5. m \in 0 .. Len(t) /\ (~ok => m = 0) /\ (~env.refuses => m = 0)
  <2>1. CASE ok
    <3>1. m \in Refusals(t, env.refuses)
      BY <1>2, <2>1, Zenon
    <3>. QED
      BY <1>3, <2>1, <3>1 DEF Refusals
  <2>2. CASE ~ok
    <3>1. m = 0
      BY <1>2, <2>2, Zenon
    <3>. QED
      BY <1>3, <3>1
  <2>. QED
    BY <2>1, <2>2, Zenon
<1>6. /\ m + 1 \in 0 .. Len(queue) /\ queue' \in Seq(Req) /\ Shifted(queue, queue', m + 1)
      /\ Owners(queue, m + 1) = Owners(t, m) \cup {h}
  BY <1>0, <1>1, <1>2, <1>5, EndShifts, Zenon
<1>7. ~env.refuses => Owners(t, m) = {}
  BY <1>5 DEF Owners
<1> HIDE DEF t, h
<1>8. /\ res' \in [Proc -> {"none", "ok", "err"}]
      /\ res'[h] = IF ok THEN "ok" ELSE "err"
      /\ \A x \in Proc \ {h} : res'[x] = IF x \in Owners(t, m) THEN "err" ELSE res[x]
  BY <1>0, <1>2, <1>4, Zenon DEF Ended
<1>9. /\ h \in Owners(queue, m + 1)
      /\ \A x \in Proc \ {h} : res'[x] = IF x \in Owners(queue, m + 1) THEN "err" ELSE res[x]
      /\ ~env.refuses => Owners(queue, m + 1) = {h}
  BY <1>6, <1>7, <1>8, Zenon
<1>. QED
  BY <1>1, <1>2, <1>3, <1>4, <1>6, <1>8, <1>9, Zenon DEF h

\* There are no requests at the start.
LEMMA InitRInv == Init => RInv
<1> SUFFICES ASSUME Init PROVE RInv
  BY Zenon
<1>1. queue = <<>> /\ res = [p \in Proc |-> "none"] /\ \A p \in Proc : pc[p] \notin Transferring
  BY Zenon DEF Init, Transferring
<1>2. 1 .. Len(queue) = {}
  BY <1>1
<1>. QED
  BY <1>1, <1>2, Zenon DEF RInv, Distinct, Awaits

\* Every step keeps the invariant; the kinds of step are the same.
LEMMA NextRInv == Base /\ RInv /\ [Next]_vars => RInv'

\* In a queue without its first d requests no process of those is left.
<1>ShiftedQueue.
    ASSUME NEW q \in Seq(Req), NEW r \in Seq(Req), NEW d \in 0 .. Len(q), Shifted(q, r, d), Distinct(q)
    PROVE  /\ Distinct(r)
           /\ \A i \in 1 .. Len(r) : r[i].proc \notin Owners(q, d)
  <2> USE <1>ShiftedQueue
  <2>1. ASSUME NEW i \in 1 .. Len(r), NEW i2 \in 1 .. Len(r), r[i].proc = r[i2].proc PROVE i = i2
    <3>1. i + d \in 1 .. Len(q) /\ i2 + d \in 1 .. Len(q) /\ q[i + d].proc = q[i2 + d].proc
      BY <2>1, Zenon DEF Shifted
    <3>2. i + d = i2 + d
      BY <3>1, Zenon DEF Distinct
    <3>. QED
      BY <3>2
  <2>2. ASSUME NEW i \in 1 .. Len(r), NEW i2 \in 1 .. d, r[i].proc = q[i2].proc PROVE FALSE
    <3>1. i + d \in 1 .. Len(q) /\ q[i + d].proc = q[i2].proc
      BY <2>2, Zenon DEF Shifted
    <3>2. i2 \in 1 .. Len(q)
      OBVIOUS
    <3>3. i + d = i2
      BY <3>1, <3>2, Zenon DEF Distinct
    <3>. QED
      BY <3>3
  <2>. QED
    BY <2>1, <2>2, Zenon DEF Distinct, Owners

\* wakeup() of any other channel.
<1>WakingOthers.
    ASSUME NEW k1, NEW k2, Undisturbed(k1, k2),
           NEW a \in {"buffer_wait", "get_free_buffer", "sync_resource", "kbdflushd"}
    PROVE  Undisturbed(k1, wakeup(k2, a))
  BY <1>WakingOthers, Channels, Zenon DEF Undisturbed, Asleep, wakeup, Registered

\* A sleep() of a process that runs.
<1>SleepingOther.
    ASSUME k \in KType, NEW p \in Proc, k.state[p] = "RUNNING", NEW a
    PROVE  Undisturbed(k, sleep(k, p, a, FALSE))
  BY <1>SleepingOther, Zenon DEF Undisturbed, Asleep, sleep, KType

\* The wakeups of brelse(), of insert_on_dirty_list() and of sync_buffers().
<1>WakingsOthers.
    ASSUME NEW cc, NEW p
    PROVE  /\ Undisturbed(k, k)
           /\ Undisturbed(k, wakeup(k, "buffer_wait"))
           /\ Undisturbed(k, wakeup(k, "sync_resource"))
           /\ Undisturbed(k, wakeup(wakeup(k, "buffer_wait"), "sync_resource"))
           /\ Undisturbed(k, brelse_wakes(k, cc))
           /\ Undisturbed(k, WakeFlusher(k, cc))
           /\ Undisturbed(k, WakeFlusher(wakeup(k, "buffer_wait"), cc))
           /\ Undisturbed(k, WakeFlusher(wakeup(wakeup(k, "buffer_wait"), "sync_resource"), cc))
           /\ Undisturbed(k, sync_wakes(p))
  <2> USE <1>WakingsOthers
  <2>1. Undisturbed(k, k)
    BY Zenon DEF Undisturbed
  <2>2. Undisturbed(k, wakeup(k, "buffer_wait")) /\ Undisturbed(k, wakeup(k, "sync_resource"))
    BY <2>1, <1>WakingOthers, Zenon
  <2>3. Undisturbed(k, wakeup(wakeup(k, "buffer_wait"), "sync_resource"))
    BY <2>2, <1>WakingOthers, Zenon
  <2>4. ASSUME NEW kk, Undisturbed(k, kk) PROVE Undisturbed(k, WakeFlusher(kk, cc))
    BY <2>4, <1>WakingOthers, Zenon DEF WakeFlusher
  <2>5. Undisturbed(k, brelse_wakes(k, cc))
    BY <2>1, <2>4, <1>WakingOthers, Zenon DEF brelse_wakes
  <2>6. Undisturbed(k, sync_wakes(p))
    BY <2>1, <2>2, <2>3, Zenon DEF sync_wakes
  <2>. QED
    BY <2>1, <2>2, <2>3, <2>4, <2>5, <2>6, Zenon

\* The driver wakes those whose requests have ended.
<1>EndingOthers.
    ASSUME k \in KType, NEW q, NEW m, NEW p \in Proc, Asleep(k, p), p \notin Owners(q, m)
    PROVE  Asleep(Woken(k, q, m), p)
  BY <1>EndingOthers, Zenon DEF Asleep, Woken
<1>RMoves.
    ASSUME Base, RInv, NEW p \in Proc, Moves(p)
    PROVE  RInv'
  <2> USE <1>RMoves
  <2>0. pc \in [Proc -> PC] /\ mine \in [Proc -> Buffer \cup {NULL}] /\ queue \in Seq(Req)
    BY Zenon DEF Base, IInv, Inv, Places, Typed
  <2>1. PICK l \in PC \ Transferring : pc' = [pc EXCEPT ![p] = l]
    BY Zenon DEF Moves
  <2>2. \A q \in Proc \ {p} : pc'[q] = pc[q] /\ mine'[q] = mine[q] /\ res'[q] = res[q]
    BY <2>0, <2>1, Zenon DEF Moves, RInv
  <2>3. pc'[p] \notin Transferring
    BY <2>0, <2>1, Zenon
  <2>4. res' \in [Proc -> {"none", "ok", "err"}] /\ (res'[p] = res[p] \/ res'[p] = "none")
    BY Zenon DEF Moves, RInv
  <2>5. ASSUME NEW i \in 1 .. Len(queue) PROVE Fits(queue[i])'
    <3>1. queue[i].proc \in Proc /\ queue[i].proc # p /\ Fits(queue[i])
      <4>1. queue[i] \in Req
        BY <2>0
      <4>. QED
        BY <4>1, HasSeen, Zenon DEF Moves, Req, RInv
    <3>2. queue' = queue
      BY Zenon DEF Moves
    <3>. QED
      BY <2>2, <3>1, <3>2, Zenon DEF Fits
  <2>6. ASSUME NEW q \in Proc, Awaits(q)' PROVE (falling = q \/ Asleep(k, q))'
    <3>1. q # p /\ Awaits(q)
      BY <2>2, <2>3, <2>6, Zenon DEF Awaits
    <3>2. falling # q
      BY NullIsNoChan, Channels, Zenon DEF Moves
    <3>. QED
      BY <3>1, <3>2, Zenon DEF RInv, Moves, Undisturbed
  <2>7. (~env.refuses /\ ~env.fails => \A q \in Proc : res[q] # "err")'
    BY <2>2, <2>4, Zenon DEF RInv, Moves
  <2>8. queue' = queue /\ Distinct(queue)
    BY Zenon DEF RInv, Moves
  <2>. QED
    BY <2>4, <2>5, <2>6, <2>7, <2>8, Zenon DEF RInv

\* do_blk_request() up to its test.
<1>RPosting.
    ASSUME Base, RInv, NEW p \in Proc, k.state[p] = "RUNNING", falling = NULL, pc[p] \notin Transferring,
           NEW op \in {"read_block", "write_block"}, NEW b \in Buffer, NEW l \in Transferring,
           op = "read_block" <=> l = "read",
           do_blk_request(p, op, b, l), mine' = [mine EXCEPT ![p] = b], env' = env
    PROVE  RInv'
  <2> USE <1>RPosting
  <2> DEFINE r == Request(p, op, b)
             q == add_blk_request(queue, r)
  <2>0. /\ pc \in [Proc -> PC] /\ mine \in [Proc -> Buffer \cup {NULL}] /\ queue \in Seq(Req) /\ k \in KType
        /\ res \in [Proc -> {"none", "ok", "err"}]
    BY Zenon DEF Base, IInv, Inv, Places, Typed, TInv, RInv
  <2>1. r.proc = p /\ r.op = op /\ r.buffer = b /\ r \in Req
    BY Zenon DEF Request, Req
  <2>2. PICK m \in Refusals(q, env.refuses) :
            /\ queue' = run_blk_request(q, m)
            /\ res' = [Ended(q, m, "err") EXCEPT ![p] = IF p \in Owners(q, m) THEN "err" ELSE "none"]
            /\ k' = Woken(k, q, m)
            /\ pc' = [pc EXCEPT ![p] = l]
            /\ falling' = IF res'[p] = "none" THEN p ELSE NULL
    BY Zenon DEF do_blk_request, Goto
  <2>3. q = Append(queue, r)
    BY Zenon DEF add_blk_request
  <2> HIDE DEF r, q
  <2>4. q \in Seq(Req) /\ Len(q) = Len(queue) + 1 /\ q[Len(queue) + 1] = r /\ \A i \in 1 .. Len(queue) : q[i] = queue[i]
    BY <2>0, <2>1, <2>3
  <2>5. \A i \in 1 .. Len(q) : i \in 1 .. Len(queue) \/ i = Len(queue) + 1
    BY <2>0, <2>4
  <2>6. \A i \in 1 .. Len(queue) : queue[i].proc # p
    BY HasSeen, Zenon
  <2>7. Distinct(q)
    <3>1. Distinct(queue)
      BY Zenon DEF RInv
    <3> SUFFICES ASSUME NEW i \in 1 .. Len(q), NEW i2 \in 1 .. Len(q), q[i].proc = q[i2].proc
                 PROVE  i = i2
      BY Zenon DEF Distinct
    <3>2. CASE i \in 1 .. Len(queue) /\ i2 \in 1 .. Len(queue)
      BY <2>4, <3>1, <3>2, Zenon DEF Distinct
    <3>3. CASE i \in 1 .. Len(queue) /\ i2 = Len(queue) + 1
      BY <2>1, <2>4, <2>6, <3>3, Zenon
    <3>4. CASE i = Len(queue) + 1 /\ i2 \in 1 .. Len(queue)
      BY <2>1, <2>4, <2>6, <3>4, Zenon
    <3>. QED
      BY <2>5, <3>2, <3>3, <3>4, Zenon
  <2>8. m \in 0 .. Len(q) /\ (~env.refuses => m = 0)
    BY <2>4 DEF Refusals
  <2>9. queue' \in Seq(Req) /\ Shifted(q, queue', m)
    BY <2>2, <2>4, <2>8, Running, RunShifts, Zenon
  <2>10. Distinct(queue') /\ \A i \in 1 .. Len(queue') : queue'[i].proc \notin Owners(q, m)
    BY <2>4, <2>7, <2>8, <2>9, <1>ShiftedQueue, Zenon
  <2>11. /\ res' \in [Proc -> {"none", "ok", "err"}]
         /\ res'[p] = IF p \in Owners(q, m) THEN "err" ELSE "none"
         /\ \A x \in Proc \ {p} : res'[x] = IF x \in Owners(q, m) THEN "err" ELSE res[x]
    BY <2>0, <2>2, Zenon DEF Ended
  <2>12. /\ pc'[p] = l /\ mine'[p] = b
         /\ \A x \in Proc \ {p} : pc'[x] = pc[x] /\ mine'[x] = mine[x]
    BY <2>0, <2>2, Zenon
  <2>13. ASSUME NEW i \in 1 .. Len(queue') PROVE Fits(queue[i])'
    <3> DEFINE x == queue'[i]
               y == q[i + m]
    <3>1. i + m \in 1 .. Len(q) /\ x.proc = y.proc /\ x.op = y.op /\ x.buffer = y.buffer
      BY <2>9, Zenon DEF Shifted
    <3>2. x.proc \notin Owners(q, m)
      BY <2>10, Zenon
    <3>3. y = r \/ \E i2 \in 1 .. Len(queue) : y = queue[i2]
      BY <2>4, <2>5, <3>1, Zenon
    <3>4. \A i2 \in 1 .. Len(queue) : Fits(queue[i2]) /\ queue[i2].proc # p /\ queue[i2].proc \in Proc
      <4>1. \A i2 \in 1 .. Len(queue) : queue[i2] \in Req
        BY <2>0
      <4>. QED
        BY <2>6, <4>1, Zenon DEF RInv, Req
    <3> HIDE DEF x, y
    <3>5. CASE y = r
      <4>1. x.proc = p /\ x.op = op /\ x.buffer = b
        BY <2>1, <3>1, <3>5, Zenon
      <4>. QED
        BY <2>11, <2>12, <3>2, <4>1, Zenon DEF Fits, x
    <3>6. ASSUME NEW i2 \in 1 .. Len(queue), y = queue[i2] PROVE Fits(queue[i])'
      <4>1. Fits(y) /\ y.proc # p /\ y.proc \in Proc
        BY <3>4, <3>6, Zenon
      <4>2. pc'[y.proc] = pc[y.proc] /\ mine'[y.proc] = mine[y.proc] /\ res'[y.proc] = res[y.proc]
        BY <2>11, <2>12, <3>1, <3>2, <4>1, Zenon
      <4>. QED
        BY <3>1, <4>1, <4>2, Zenon DEF Fits, x
    <3>. QED
      BY <3>3, <3>5, <3>6, Zenon
  <2>14. ASSUME NEW x \in Proc, Awaits(x)' PROVE (falling = x \/ Asleep(k, x))'
    <3>1. CASE x = p
      BY <2>2, <2>14, <3>1, Zenon DEF Awaits
    <3>2. CASE x # p
      <4>1. Awaits(x) /\ x \notin Owners(q, m)
        BY <2>11, <2>12, <2>14, <3>2, Zenon DEF Awaits
      <4>2. falling # x
        BY NullIsNoChan, Channels, Zenon
      <4>3. Asleep(k, x)
        BY <4>1, <4>2, Zenon DEF RInv
      <4>. QED
        BY <2>0, <2>2, <4>1, <4>3, <1>EndingOthers, Zenon
    <3>. QED
      BY <3>1, <3>2, Zenon
  <2>15. ASSUME ~env'.refuses, ~env'.fails, NEW x \in Proc PROVE res'[x] # "err"
    <3>1. m = 0 /\ res[x] # "err"
      BY <2>8, <2>15, Zenon DEF RInv
    <3>2. Owners(q, m) = {}
      BY <3>1 DEF Owners
    <3>. QED
      BY <2>11, <3>1, <3>2, Zenon
  <2>. QED
    BY <2>10, <2>11, <2>13, <2>14, <2>15, Zenon DEF RInv

\* Its sleep().
<1>RFalling.
    ASSUME Base, RInv, NEW p \in Proc, FallsAsleep(p)
    PROVE  RInv'
  <2> USE <1>RFalling
  <2>1. /\ falling = p /\ falling' = NULL /\ k' = sleep(k, p, p, FALSE)
        /\ UNCHANGED <<queue, res, pc, mine, env>>
    BY Zenon DEF FallsAsleep, blk, ghost
  <2>2. k \in KType
    BY Zenon DEF Base, TInv
  <2>3. Asleep(k', p) /\ \A q \in Proc \ {p} : Asleep(k, q) => Asleep(k', q)
    BY <2>1, <2>2, Zenon DEF Asleep, sleep, KType
  <2>4. ASSUME NEW q \in Proc, Awaits(q)' PROVE (falling = q \/ Asleep(k, q))'
    BY <2>1, <2>3, <2>4, Zenon DEF Awaits, RInv
  <2>. QED
    BY <2>1, <2>4, Zenon DEF RInv, Fits, Distinct

\* The interrupt.
<1>RInterrupting.
    ASSUME Base, RInv, NEW ok \in BOOLEAN, Interrupt(ok)
    PROVE  RInv'
  <2> USE <1>RInterrupting
  <2> DEFINE h == Head(queue).proc
  <2>1. queue \in Seq(Req) /\ k \in KType /\ falling = NULL /\ h \in Proc
    BY Tells, Zenon DEF Base, TInv, Req
  <2>2. UNCHANGED <<pc, mine, env, falling>> /\ (ok \/ env.fails)
    BY Zenon DEF Interrupt, turn, ghost
  <2>3. PICK m \in 0 .. Len(queue) :
                   /\ queue' \in Seq(Req) /\ Shifted(queue, queue', m) /\ k' = Woken(k, queue, m)
                   /\ res' \in [Proc -> {"none", "ok", "err"}]
                   /\ h \in Owners(queue, m)
                   /\ res'[h] = IF ok THEN "ok" ELSE "err"
                   /\ \A x \in Proc \ {h} :
                         res'[x] = IF x \in Owners(queue, m) THEN "err" ELSE res[x]
                   /\ ~env.refuses => Owners(queue, m) = {h}
    BY Tells, Zenon
  <2> HIDE DEF h
  <2>4. Distinct(queue)
    BY Zenon DEF RInv
  <2>5. Distinct(queue') /\ \A i \in 1 .. Len(queue') : queue'[i].proc \notin Owners(queue, m)
    BY <2>1, <2>3, <2>4, <1>ShiftedQueue, Zenon
  <2>6. ASSUME NEW i \in 1 .. Len(queue') PROVE Fits(queue[i])'
    <3> DEFINE x == queue'[i]
               y == queue[i + m]
    <3>1. i + m \in 1 .. Len(queue) /\ x.proc = y.proc /\ x.op = y.op /\ x.buffer = y.buffer
      BY <2>3, Zenon DEF Shifted
    <3>2. y \in Req
      BY <2>1, <3>1
    <3>3. Fits(y) /\ y.proc \in Proc /\ y.proc \notin Owners(queue, m)
      BY <2>5, <3>1, <3>2, Zenon DEF RInv, Req
    <3>4. y.proc # h /\ res'[y.proc] = res[y.proc]
      BY <2>3, <3>3, Zenon
    <3> HIDE DEF x, y
    <3>. QED
      BY <2>2, <3>1, <3>3, <3>4, Zenon DEF Fits, x
  <2>7. ASSUME NEW x \in Proc, Awaits(x)' PROVE (falling = x \/ Asleep(k, x))'
    <3>1. x # h
      BY <2>3, <2>7, Zenon DEF Awaits
    <3>2. Awaits(x) /\ x \notin Owners(queue, m)
      BY <2>2, <2>3, <2>7, <3>1, Zenon DEF Awaits
    <3>3. Asleep(k, x)
      BY <2>1, <3>2, NullIsNoChan, Channels, Zenon DEF RInv
    <3>. QED
      BY <2>1, <2>3, <3>2, <3>3, <1>EndingOthers, Zenon
  <2>8. ASSUME ~env'.refuses, ~env'.fails, NEW x \in Proc PROVE res'[x] # "err"
    <3>1. CASE x = h
      BY <2>2, <2>3, <2>8, <3>1, Zenon
    <3>2. CASE x # h
      BY <2>2, <2>3, <2>8, <3>2, Zenon DEF RInv
    <3>. QED
      BY <3>1, <3>2, Zenon
  <2>. QED
    BY <2>3, <2>5, <2>6, <2>7, <2>8, Zenon DEF RInv

\* A step that leaves pc as it is.
<1>RStays.
    ASSUME Base, RInv, NEW p \in Proc, k.state[p] = "RUNNING", falling = NULL, falling' = NULL,
           UNCHANGED <<queue, res, mine, pc, env>>, Undisturbed(k, k'), pc[p] \notin Transferring
    PROVE  RInv'
  <2> USE <1>RStays
  <2>1. pc[p] \in PC /\ pc = [pc EXCEPT ![p] = pc[p]]
    BY Zenon DEF Base, IInv, Inv, Places
  <2>2. Moves(p)
    BY <2>1, Zenon DEF Moves
  <2>. QED
    BY <2>2, <1>RMoves, Zenon

\* One of the parts of bread() that may post a request.
<1>RReads.
    ASSUME Base, RInv, NEW p \in Proc, k.state[p] = "RUNNING", falling = NULL, pc[p] \notin Transferring,
           NEW b \in Buffer, NEW cc, Reads(p, b, cc), env' = env
    PROVE  RInv'
  <2> USE <1>RReads
  <2>1. CASE do_blk_request(p, "read_block", b, "read")
    <3>1. mine' = [mine EXCEPT ![p] = b] /\ "read" \in Transferring
      BY Zenon DEF Reads, Transferring
    <3>. QED
      BY <2>1, <3>1, <1>RPosting, Zenon
  <2>2. CASE Goto(p, "hold") /\ UNCHANGED <<k, queue, res, falling>>
    <3>1. Undisturbed(k, k')
      BY <2>2, <1>WakingsOthers, Zenon
    <3>2. Moves(p)
      BY <2>2, <3>1, Zenon DEF Moves, Goto, Reads, PC, Transferring
    <3>. QED
      BY <3>2, <1>RMoves, Zenon
  <2>. QED
    BY <2>1, <2>2, Zenon DEF Reads, LeavesCPU, blk

\* The steps of getblk() and bread().
<1>GetblkRequests.
    ASSUME Base, RInv, NEW p \in Proc, GetblkStep(p)
    PROVE  RInv'
  <2> USE <1>GetblkRequests
  <2> USE DEF At, InGetFree, blk, ghost, Transferring
  <2>k. k \in KType /\ IInv
    BY Zenon DEF Base, TInv
  <2>1. CASE GetblkWaits(p)
    <3>1. k.state[p] = "RUNNING" /\ Undisturbed(k, sleep(k, p, "buffer_wait", FALSE))
      BY <2>1, <2>k, <1>SleepingOther, Zenon DEF GetblkWaits
    <3>. QED
      BY <2>1, <3>1, <1>RStays, Zenon DEF GetblkWaits, Sleeps, LeavesCPU
  <2>3. CASE GetblkHits(p)
    <3>1. PICK b \in Found(want[p]) \ c.LOCKED : Reads(p, b, Locked([c EXCEPT !.free = Unlinked(@, b)], b))
      BY <2>3, Zenon DEF GetblkHits
    <3>2. b \in Buffer /\ k.state[p] = "RUNNING" /\ falling = NULL /\ pc[p] \notin Transferring /\ env' = env
      BY <2>3, Zenon DEF GetblkHits, Found
    <3>. QED
      BY <3>1, <3>2, <1>RReads, Zenon
  <2>4. CASE NoFree(p) \/ FreeIsLocked(p)
    <3>1. k.state[p] = "RUNNING" /\ falling = NULL
      BY <2>4, Zenon DEF NoFree, FreeIsLocked
    <3>2. \E a : k' = sleep(k, p, a, FALSE)
      BY <2>4, Zenon DEF NoFree, FreeIsLocked, Sleeps
    <3>3. Undisturbed(k, k')
      BY <2>k, <3>1, <3>2, <1>SleepingOther, Zenon
    <3>4. falling' = NULL /\ UNCHANGED <<queue, res, env, mine>>
      BY <2>4, <3>1, Zenon DEF NoFree, FreeIsLocked, Sleeps, LeavesCPU
    <3>5. Goto(p, "getblk") \/ Goto(p, "getfree")
      BY <2>4, Zenon DEF NoFree, FreeIsLocked
    <3>6. Moves(p)
      BY <3>1, <3>3, <3>4, <3>5, Zenon DEF Moves, Goto, PC
    <3>. QED
      BY <3>6, <1>RMoves, Zenon
  <2>6. CASE Evicts(p)
    <3>1. /\ k.state[p] = "RUNNING" /\ falling = NULL /\ pc[p] \notin Transferring /\ env' = env
          /\ Head(c.free) \in Buffer /\ do_blk_request(p, "write_block", Head(c.free), "evict")
          /\ mine' = [mine EXCEPT ![p] = Head(c.free)]
      BY <2>6, <2>k, Heads, Zenon DEF Evicts
    <3>. QED
      BY <3>1, <1>RPosting, Zenon
  <2>7. CASE Evicted(p)
    <3>1. /\ k' = brelse_wakes(k, c') /\ falling = NULL /\ falling' = NULL /\ UNCHANGED <<queue, env>>
          /\ k.state[p] = "RUNNING" /\ res' = [res EXCEPT ![p] = "none"] /\ Goto(p, "getblk")
          /\ mine' = [mine EXCEPT ![p] = NULL]
      BY <2>7, Zenon DEF Evicted, KeepsCPU, Freed
    <3>2. Undisturbed(k, k')
      BY <3>1, <1>WakingsOthers, Zenon
    <3>3. Moves(p)
      BY <3>1, <3>2, Zenon DEF Moves, Goto, PC
    <3>. QED
      BY <3>3, <1>RMoves, Zenon
  <2>8. CASE Takes(p)
    <3>1. k.state[p] = "RUNNING" /\ falling = NULL /\ pc[p] \notin Transferring /\ env' = env /\ Head(c.free) \in Buffer
      BY <2>8, <2>k, Heads, Zenon DEF Takes
    <3>2. Reads(p, Head(c.free), [Renamed(want[p]) EXCEPT !.VALID = @ \ {Head(c.free)}])
      BY <2>8, Zenon DEF Takes
    <3>. QED
      BY <3>1, <3>2, <1>RReads, Zenon
  <2>9. CASE ReadDone(p)
    <3>1. /\ k' = k \/ k' = brelse_wakes(k, c')
          /\ falling = NULL /\ falling' = NULL /\ UNCHANGED <<queue, env>>
          /\ k.state[p] = "RUNNING" /\ res' = [res EXCEPT ![p] = "none"]
          /\ mine' = mine \/ mine' = [mine EXCEPT ![p] = NULL]
      BY <2>9, Zenon DEF ReadDone, LeavesCPU, Freed
    <3>2. Undisturbed(k, k')
      BY <3>1, <1>WakingsOthers, Zenon
    <3>3. Goto(p, "hold") \/ Goto(p, "user")
      BY <2>9, Zenon DEF ReadDone
    <3>4. Moves(p)
      BY <3>1, <3>2, <3>3, Zenon DEF Moves, Goto, PC
    <3>. QED
      BY <3>4, <1>RMoves, Zenon
  <2>. QED
    BY <2>1, <2>3, <2>4, <2>6, <2>7, <2>8, <2>9, Zenon DEF GetblkStep

\* The steps of sync_buffers(), sync_buffers_select() and of a user.
<1>SyncRequests.
    ASSUME Base, RInv, NEW p \in Proc,
           \/ SyncStep(p) \/ sync_buffers(p) \/ DirtyIsLocked(p)
           \/ \E w \in BOOLEAN : Releases(p, w)
           \/ \E b \in Block : bread(p, b) \/ sync_buffers_select(p, b)
    PROVE  RInv'
  <2> USE <1>SyncRequests
  <2> USE DEF At, blk, ghost, Transferring
  <2>k. k \in KType /\ IInv
    BY Zenon DEF Base, TInv
  <2>0. ASSUME k.state[p] = "RUNNING", falling = NULL, falling' = NULL, UNCHANGED <<queue, env>>,
               NEW l \in PC \ Transferring, Goto(p, l), Undisturbed(k, k'),
               res' = res \/ res' = [res EXCEPT ![p] = "none"],
               mine' = mine \/ mine' = [mine EXCEPT ![p] = NULL]
        PROVE  RInv'
    <3>1. Moves(p)
      BY <2>0, Zenon DEF Moves, Goto
    <3>. QED
      BY <3>1, <1>RMoves, Zenon
  <2>1. CASE SyncLocks(p)
    <3>1. /\ k.state[p] = "RUNNING" /\ falling = NULL /\ falling' = NULL /\ UNCHANGED <<queue, res, mine, env>>
          /\ pc[p] \notin Transferring
      BY <2>1, Zenon DEF SyncLocks, TakeSync, Sleeps, KeepsCPU, LeavesCPU
    <3>2. CASE k' = k /\ Goto(p, "dirty")
      <4>1. Undisturbed(k, k') /\ "dirty" \in PC \ Transferring
        BY <3>2, <1>WakingsOthers, Zenon DEF PC
      <4>. QED
        BY <2>0, <3>1, <3>2, <4>1, Zenon
    <3>3. CASE k' = sleep(k, p, "sync_resource", FALSE) /\ pc' = pc
      <4>1. Undisturbed(k, k')
        BY <2>k, <3>1, <3>3, <1>SleepingOther, Zenon
      <4>. QED
        BY <3>1, <3>3, <4>1, <1>RStays, Zenon
    <3>. QED
      BY <2>1, <3>2, <3>3, Zenon DEF SyncLocks, TakeSync, Sleeps
  <2>2. CASE SyncWrites(p)
    <3>1. /\ k.state[p] = "RUNNING" /\ falling = NULL /\ pc[p] \notin Transferring /\ env' = env
          /\ FirstDirty \in Buffer /\ do_blk_request(p, "write_block", FirstDirty, "write")
          /\ mine' = [mine EXCEPT ![p] = FirstDirty]
      BY <2>2, <2>k, Heads, Zenon DEF SyncWrites, DirtyFound
    <3>. QED
      BY <3>1, <1>RPosting, Zenon
  <2>3. CASE SyncWritten(p)
    <3>1. /\ k.state[p] = "RUNNING" /\ falling = NULL /\ falling' = NULL /\ UNCHANGED <<queue, env>>
          /\ k' = k \/ k' = WakeFlusher(k, c')
          /\ Goto(p, "dirty") /\ res' = [res EXCEPT ![p] = "none"] /\ mine' = [mine EXCEPT ![p] = NULL]
      BY <2>3, Zenon DEF SyncWritten, KeepsCPU, Freed
    <3>2. Undisturbed(k, k') /\ "dirty" \in PC \ Transferring
      BY <3>1, <1>WakingsOthers, Zenon DEF PC
    <3>. QED
      BY <2>0, <3>1, <3>2, Zenon
  <2>4. CASE SyncDone(p) \/ \E w \in BOOLEAN : Releases(p, w)
    <3>1. /\ k.state[p] = "RUNNING" /\ falling = NULL /\ falling' = NULL /\ UNCHANGED <<queue, res, env>>
          /\ k' = sync_wakes(p) \/ k' = brelse_wakes(k, c')
          /\ Goto(p, "user") /\ (mine' = mine \/ mine' = [mine EXCEPT ![p] = NULL])
      BY <2>4, Zenon DEF SyncDone, Releases, LeavesCPU
    <3>2. Undisturbed(k, k') /\ "user" \in PC \ Transferring
      BY <3>1, <1>WakingsOthers, Zenon DEF PC
    <3>. QED
      BY <2>0, <3>1, <3>2, Zenon
  <2>5. CASE \/ Selected(p) \/ sync_buffers(p) \/ \E b \in Block : bread(p, b)
    <3>1. /\ k.state[p] = "RUNNING" /\ falling = NULL /\ falling' = NULL /\ UNCHANGED <<queue, env>>
          /\ k' = k /\ (res' = res \/ res' = [res EXCEPT ![p] = "none"])
          /\ mine' = mine \/ mine' = [mine EXCEPT ![p] = NULL]
      BY <2>5, Zenon DEF Selected, sync_buffers, bread, KeepsCPU, LeavesCPU, Freed
    <3>2. Goto(p, "user") \/ Goto(p, "lock") \/ Goto(p, "getblk")
      BY <2>5, Zenon DEF Selected, sync_buffers, bread
    <3>3. Undisturbed(k, k') /\ "user" \in PC \ Transferring /\ "lock" \in PC \ Transferring /\ "getblk" \in PC \ Transferring
      BY <3>1, <1>WakingsOthers, Zenon DEF PC
    <3>. QED
      BY <2>0, <3>1, <3>2, <3>3, Zenon
  <2>6. CASE DirtyIsLocked(p)
    <3>1. k.state[p] = "RUNNING" /\ Undisturbed(k, sleep(k, p, "buffer_wait", FALSE))
      BY <2>6, <2>k, <1>SleepingOther, Zenon DEF DirtyIsLocked
    <3>2. pc[p] \notin Transferring /\ falling = NULL
      BY <2>6, Zenon DEF DirtyIsLocked
    <3>. QED
      BY <2>6, <3>1, <3>2, <1>RStays, Zenon DEF DirtyIsLocked, Sleeps, LeavesCPU
  <2>8. ASSUME NEW b \in Block, sync_buffers_select(p, b) PROVE RInv'
    <3>1. PICK x \in Found(b) : do_blk_request(p, "write_block", x, "select") /\ mine' = [mine EXCEPT ![p] = x]
      BY <2>8, Zenon DEF sync_buffers_select
    <3>2. x \in Buffer /\ falling = NULL /\ k.state[p] = "RUNNING" /\ pc[p] \notin Transferring /\ env' = env
      BY <2>8, Zenon DEF sync_buffers_select, Found
    <3>. QED
      BY <3>1, <3>2, <1>RPosting, Zenon
  <2>. QED
    BY <2>1, <2>2, <2>3, <2>4, <2>5, <2>6, <2>8, Zenon DEF SyncStep

\* The steps of kbdflushd().
<1>FlusherRequests.
    ASSUME Base, RInv, FlusherStep
    PROVE  RInv'
  <2> USE <1>FlusherRequests
  <2> USE DEF At, blk, ghost, Transferring
  <2>p. kbdflushd \in Proc
    BY Sizes, Zenon
  <2>k. k \in KType /\ IInv
    BY Zenon DEF Base, TInv
  <2>0. ASSUME k.state[kbdflushd] = "RUNNING", falling = NULL, falling' = NULL, UNCHANGED <<queue, env>>,
               NEW l \in {"ksleep", "klock", "kdirty"}, Goto(kbdflushd, l), Undisturbed(k, k'),
               res' = res \/ res' = [res EXCEPT ![kbdflushd] = "none"],
               mine' = mine \/ mine' = [mine EXCEPT ![kbdflushd] = NULL]
        PROVE  RInv'
    <3>1. Moves(kbdflushd)
      BY <2>0, Zenon DEF Moves, Goto, PC
    <3>. QED
      BY <2>p, <3>1, <1>RMoves, Zenon
  <2>1. CASE FlusherSleeps
    <3>1. /\ k.state[kbdflushd] = "RUNNING" /\ falling = NULL /\ falling' = NULL /\ UNCHANGED <<queue, res, mine, env>>
          /\ k' = sleep(k, kbdflushd, "kbdflushd", FALSE) /\ Goto(kbdflushd, "klock")
      BY <2>1, Zenon DEF FlusherSleeps, Sleeps, LeavesCPU
    <3>2. Undisturbed(k, k')
      BY <2>k, <2>p, <3>1, <1>SleepingOther, Zenon
    <3>. QED
      BY <2>0, <3>1, <3>2, Zenon
  <2>2. CASE FlusherLocks
    <3>1. /\ k.state[kbdflushd] = "RUNNING" /\ falling = NULL /\ falling' = NULL /\ UNCHANGED <<queue, res, mine, env>>
          /\ pc[kbdflushd] \notin Transferring
      BY <2>2, Zenon DEF FlusherLocks, TakeSync, Sleeps, KeepsCPU, LeavesCPU
    <3>2. CASE k' = k /\ Goto(kbdflushd, "kdirty")
      <4>1. Undisturbed(k, k')
        BY <3>2, <1>WakingsOthers, Zenon
      <4>. QED
        BY <2>0, <3>1, <3>2, <4>1, Zenon
    <3>3. CASE k' = sleep(k, kbdflushd, "sync_resource", FALSE) /\ pc' = pc
      <4>1. Undisturbed(k, k')
        BY <2>k, <2>p, <3>1, <3>3, <1>SleepingOther, Zenon
      <4>. QED
        BY <2>p, <3>1, <3>3, <4>1, <1>RStays, Zenon
    <3>. QED
      BY <2>2, <3>2, <3>3, Zenon DEF FlusherLocks, TakeSync, Sleeps
  <2>3. CASE FlusherDone
    <3>1. /\ \/ k' = wakeup(k, "sync_resource")
             \/ k' = WakeFlusher(wakeup(wakeup(k, "buffer_wait"), "sync_resource"), c')
          /\ k.state[kbdflushd] = "RUNNING" /\ falling = NULL /\ falling' = NULL /\ UNCHANGED <<queue, res, mine, env>>
          /\ Goto(kbdflushd, "ksleep")
      BY <2>3, Zenon DEF FlusherDone, FlusherEnds, LeavesCPU
    <3>2. Undisturbed(k, k')
      BY <3>1, <1>WakingsOthers, Zenon
    <3>. QED
      BY <2>0, <3>1, <3>2, Zenon
  <2>4. CASE FlusherWrites
    <3>1. /\ falling = NULL /\ FirstDirty \in Buffer /\ k.state[kbdflushd] = "RUNNING" /\ env' = env
          /\ pc[kbdflushd] \notin Transferring
      BY <2>4, <2>k, Heads, Zenon DEF FlusherWrites, DirtyFound
    <3>2. CASE do_blk_request(kbdflushd, "write_block", FirstDirty, "kwrite") /\ mine' = [mine EXCEPT ![kbdflushd] = FirstDirty]
      BY <2>p, <3>1, <3>2, <1>RPosting, Zenon
    <3>3. CASE UNCHANGED <<k, queue, res, falling, pc, mine>>
      <4>1. Undisturbed(k, k')
        BY <3>3, <1>WakingsOthers, Zenon
      <4>. QED
        BY <2>p, <3>1, <3>3, <4>1, <1>RStays, Zenon
    <3>. QED
      BY <2>4, <3>2, <3>3, Zenon DEF FlusherWrites, KeepsCPU
  <2>5. CASE FlusherWritten
    <3>1. /\ UNCHANGED <<queue, env>> /\ falling = NULL /\ k.state[kbdflushd] = "RUNNING"
          /\ res' = [res EXCEPT ![kbdflushd] = "none"] /\ mine' = [mine EXCEPT ![kbdflushd] = NULL]
      BY <2>5, Zenon DEF FlusherWritten, Freed
    <3>2. /\ \/ k' = WakeFlusher(wakeup(k, "buffer_wait"), c')
             \/ k' = wakeup(wakeup(k, "buffer_wait"), "sync_resource")
             \/ k' = wakeup(k, "buffer_wait")
          /\ falling' = falling
      BY <2>5, Zenon DEF FlusherWritten, FlusherEnds, KeepsCPU, LeavesCPU
    <3>3. Goto(kbdflushd, "kdirty") \/ Goto(kbdflushd, "ksleep")
      BY <2>5, Zenon DEF FlusherWritten, FlusherEnds
    <3>4. Undisturbed(k, k')
      BY <3>2, <1>WakingsOthers, Zenon
    <3>. QED
      BY <2>0, <3>1, <3>2, <3>3, <3>4, Zenon
  <2>. QED
    BY <2>1, <2>2, <2>3, <2>4, <2>5, Zenon DEF FlusherStep

<1> SUFFICES ASSUME Base, RInv, [Next]_vars PROVE RInv'
  BY Zenon
<1>1. CASE UNCHANGED vars
  BY <1>1, ZenonT(60) DEF vars, RInv, Fits, Distinct, Awaits, Asleep
<1>. QED
  BY <1>1, <1>GetblkRequests, <1>SyncRequests, <1>FlusherRequests, <1>RFalling, <1>RInterrupting, Zenon DEF Next, Step

-----------------------------------------------------------------------------
(* What is in the buffers. *)

\* What a process at its place may do, and that the flushes exclude each other.
Uses(p) == /\ pc[p] \in {"getblk", "getfree", "evict", "read", "hold"} => p \in env.users /\ want[p] \in Block
           /\ pc[p] \in {"lock", "dirty", "write"} => p \in env.syncers
           /\ pc[p] \in {"klock", "kdirty", "kwrite"} => p = kbdflushd /\ env.flusher
           /\ pc[p] = "select" => p \in env.selectors
           /\ pc[p] \in {"dirty", "write", "kdirty", "kwrite"} => lock = p

Having == Transferring \cup {"hold"}

\* Whatever is written or to be written is some block's.
Names == /\ \A x \in c.DIRTY \cup dirty : c.block[x] # NULL
         /\ \A p \in Proc : pc[p] \in Having => mine[p] \in Buffer /\ c.block[mine[p]] # NULL

\* What a process knows of the buffer it has; and in get_free_buffer(), that
\* the block is still in no buffer.
Holds(p) == /\ pc[p] = "hold" => mine[p] \in c.VALID /\ c.block[mine[p]] = want[p]
            /\ pc[p] = "read" => /\ mine[p] \notin c.VALID /\ c.block[mine[p]] = want[p]
                                 /\ res[p] = "ok" => mine[p] \in c.current
            /\ pc[p] \in {"evict", "write", "kwrite", "select"} =>
                  mine[p] \in c.VALID /\ (res[p] = "ok" => c.block[mine[p]] \in disk)
            /\ pc[p] = "getfree" => Found(want[p]) = {} /\ OneUser(env)

\* A block is in one buffer; a valid one has what was last written to it, and
\* what the disk does not have is in a dirty one.
Contents == /\ \A x, y \in Buffer : c.block[x] = c.block[y] /\ c.block[x] # NULL => x = y
            /\ c.DIRTY \subseteq c.VALID /\ c.VALID \subseteq c.current
            /\ \A x \in c.VALID : c.block[x] \in Block
            /\ \A B \in Block \ disk : \E x \in c.DIRTY : c.block[x] = B
            /\ dirty \ c.LOCKED \subseteq c.VALID

CInv == /\ \A p \in Proc : Uses(p)
        /\ Names
        /\ Careful(env) => Contents /\ \A p \in Proc : Holds(p)

\* The lists and the flags, except VALID, are changed and nothing else.
SameData(c1, c2) == c1.block = c2.block /\ c1.VALID = c2.VALID /\ c1.current = c2.current

\* A cache nobody has used.
LEMMA InitCInv == Init => CInv
<1> SUFFICES ASSUME Init PROVE CInv
  BY Zenon
<1>1. /\ \A p \in Proc : pc[p] \in {"user", "ksleep"}
      /\ c.VALID = {} /\ c.DIRTY = {} /\ disk = Block /\ c.dirty = <<>> /\ c.current = {}
      /\ \A x \in Buffer : c.block[x] = NULL
  BY Zenon DEF Init
<1>2. dirty = {}
  BY <1>1 DEF dirty, Range
<1>3. \A p \in Proc : Uses(p) /\ Holds(p)
  BY <1>1, Zenon DEF Uses, Holds
<1>4. Names /\ Contents
  BY <1>1, <1>2, Zenon DEF Names, Contents, Having, Transferring
<1>. QED
  BY <1>3, <1>4, Zenon DEF CInv

\* Every step keeps the invariant: what the operations leave alone, then the
\* steps of getblk() and bread(), then those of the flushes and of the barrier.
LEMMA NextCInv == Base /\ RInv /\ CInv /\ [Next]_vars => CInv'

\* That is what the operations do.
<1>Data.
    ASSUME NEW cc, NEW F, NEW D, NEW L, NEW d, View(cc, F, D, L, d), NEW b \in Buffer
    PROVE  /\ SameData(Locked(cc, b), cc) /\ SameData(Unlocked(cc, b), cc) /\ SameData(Cleaned(cc, b), cc)
           /\ SameData(insert_on_dirty_list(cc, b), cc) /\ SameData(remove_from_dirty_list(cc, b), cc)
           /\ SameData(insert_on_free_list(cc, b), cc)
  BY <1>Data, Zenon DEF View, CShape, CType, SameData, Locked, Unlocked, Cleaned, insert_on_dirty_list,
             remove_from_dirty_list, insert_on_free_list

\* brelse() in its two forms.
<1>ReleaseData.
    ASSUME NEW cc, NEW F, NEW D, NEW L, NEW d, View(cc, F, D, L, d), NEW b \in Buffer, b \notin F
    PROVE  /\ SameData(brelse(cc, b), cc)
           /\ SameData(brelse(remove_from_dirty_list(Cleaned(cc, b), b), b), cc)
  <2> USE <1>ReleaseData
  <2>1. ASSUME NEW cc1, NEW F1, NEW D1, NEW L1, NEW d1, View(cc1, F1, D1, L1, d1), b \notin F1
        PROVE  SameData(brelse(cc1, b), cc1)
    <3> DEFINE c1 == IF b \in cc1.DIRTY THEN insert_on_dirty_list(cc1, b) ELSE cc1
               c2 == insert_on_free_list(c1, b)
    <3>1. SameData(c1, cc1) /\ \E D2 : View(c1, F1, D2, L1, d1)
      <4>1. CASE b \in cc1.DIRTY
        BY <2>1, <4>1, <1>Data, Listing, Zenon
      <4>2. CASE b \notin cc1.DIRTY
        BY <2>1, <4>2, Zenon DEF SameData
      <4>. QED
        BY <4>1, <4>2, Zenon
    <3> HIDE DEF c1
    <3>2. SameData(c2, c1) /\ \E F2, D2 : View(c2, F2, D2, L1, d1)
      BY <2>1, <3>1, <1>Data, Listing, Zenon
    <3> HIDE DEF c2
    <3>3. SameData(Unlocked(c2, b), c2)
      BY <3>2, Zenon DEF View, CShape, CType, SameData, Unlocked
    <3>. QED
      BY <3>1, <3>2, <3>3, Zenon DEF brelse, SameData, c1, c2
  <2> DEFINE c3 == Cleaned(cc, b)
             c4 == remove_from_dirty_list(c3, b)
  <2>2. View(c3, F, D, L, d \ {b}) /\ SameData(c3, cc)
    BY Locking, <1>Data, Zenon
  <2> HIDE DEF c3
  <2>3. View(c4, F, D \ {b}, L, d \ {b}) /\ SameData(c4, c3)
    BY <2>2, Listing, <1>Data, Zenon
  <2> HIDE DEF c4
  <2>4. SameData(brelse(c4, b), c4) /\ SameData(brelse(cc, b), cc)
    BY <2>1, <2>3, Zenon
  <2>. QED
    BY <2>2, <2>3, <2>4, Zenon DEF SameData, c3, c4

\* Taking a buffer.
<1>TakenData.
    ASSUME IInv
    PROVE  /\ c.free # <<>> => SameData(Taken, c)
           /\ c.dirty # <<>> => SameData(DirtyTaken, c)
           /\ \A b \in Buffer : SameData(Locked([c EXCEPT !.free = Unlinked(@, b)], b), c)
  BY <1>TakenData, Zenon DEF IInv, CShape, CType, SameData, Taken, DirtyTaken, Locked

\* The places, when p moves.
<1>UsesKept.
    ASSUME Base, \A q \in Proc : Uses(q), NEW p \in Proc, NEW l, Goto(p, l), env' = env,
           \A q \in Proc \ {p} : want'[q] = want[q],
           lock' = lock \/ (lock \in {NULL, p} /\ lock' \in {NULL, p}), Uses(p)'
    PROVE  \A q \in Proc : Uses(q)'
  <2> USE <1>UsesKept
  <2>1. pc \in [Proc -> PC] /\ \A q \in Proc : q # NULL
    BY NullIsNoChan, Channels, Zenon DEF Base, IInv, Inv, Places
  <2>2. ASSUME NEW q \in Proc, q # p PROVE Uses(q)'
    <3>1. pc'[q] = pc[q] /\ want'[q] = want[q] /\ (lock = q => lock' = q)
      BY <2>1, <2>2, Zenon DEF Goto
    <3>. QED
      BY <3>1, Zenon DEF Uses
  <2>. QED
    BY <2>2, Zenon

\* The names.
<1>NamesKept.
    ASSUME Base, Names, NEW p \in Proc, NEW l, NEW x, Goto(p, l), mine' = [mine EXCEPT ![p] = x],
           \A y \in Buffer : c.block[y] # NULL => c'.block[y] # NULL,
           \A y \in c'.DIRTY \cup dirty' : y \in c.DIRTY \cup dirty \/ c'.block[y] # NULL,
           l \in Having => x \in Buffer /\ c'.block[x] # NULL
    PROVE  Names'
  <2> USE <1>NamesKept
  <2>1. pc \in [Proc -> PC] /\ mine \in [Proc -> Buffer \cup {NULL}] /\ c.DIRTY \subseteq Buffer /\ dirty \subseteq Buffer
    <3>1. c.dirty \in Seq(Buffer)
      BY Zenon DEF Base, IInv, CShape, CType
    <3>2. dirty \subseteq Buffer
      BY <3>1, SMTT(60) DEF dirty, Range
    <3>. QED
      BY <3>2, Zenon DEF Base, IInv, Inv, Places, CShape, CType
  <2>2. \A y \in c'.DIRTY \cup dirty' : c'.block[y] # NULL
    BY <2>1, Zenon DEF Names
  <2>3. ASSUME NEW q \in Proc, pc'[q] \in Having PROVE mine'[q] \in Buffer /\ c'.block[mine'[q]] # NULL
    <3>1. CASE q = p
      BY <2>1, <2>3, <3>1, Zenon DEF Goto
    <3>2. CASE q # p
      BY <2>1, <2>3, <3>2, Zenon DEF Goto, Names
    <3>. QED
      BY <3>1, <3>2, Zenon
  <2>. QED
    BY <2>2, <2>3, Zenon DEF Names

\* What the others know, if p leaves their buffers alone.
<1>HoldsKept.
    ASSUME Base, \A q \in Proc : Holds(q), NEW p \in Proc, NEW l, NEW x, Goto(p, l), env' = env,
           mine' = [mine EXCEPT ![p] = x],
           \A q \in Proc \ {p} : want'[q] = want[q] /\ (res'[q] = "ok" => res[q] = "ok"),
           \A q \in Proc \ {p} : pc[q] \in Having =>
              /\ c'.block[mine[q]] = c.block[mine[q]]
              /\ mine[q] \in c'.VALID <=> mine[q] \in c.VALID
              /\ mine[q] \in c.current => mine[q] \in c'.current
              /\ pc[q] \in Transferring \ {"read"} /\ c.block[mine[q]] \in disk => c.block[mine[q]] \in disk',
           \A q \in Proc \ {p} : pc[q] = "getfree" => Found(want[q])' = {},
           Holds(p)'
    PROVE  \A q \in Proc : Holds(q)'
  <2> USE <1>HoldsKept
  <2>1. pc \in [Proc -> PC] /\ mine \in [Proc -> Buffer \cup {NULL}]
    BY Zenon DEF Base, IInv, Inv, Places
  <2>2. ASSUME NEW q \in Proc, q # p PROVE Holds(q)'
    <3>1. pc'[q] = pc[q] /\ mine'[q] = mine[q] /\ want'[q] = want[q] /\ (res'[q] = "ok" => res[q] = "ok")
      BY <2>1, <2>2, Zenon DEF Goto
    <3>2. pc[q] \in Having =>
                /\ c'.block[mine[q]] = c.block[mine[q]]
                /\ mine[q] \in c'.VALID <=> mine[q] \in c.VALID
                /\ mine[q] \in c.current => mine[q] \in c'.current
                /\ pc[q] \in Transferring \ {"read"} /\ c.block[mine[q]] \in disk => c.block[mine[q]] \in disk'
      BY <2>2, Zenon
    <3>3. pc[q] = "getfree" => Found(want[q])' = {}
      BY <2>2, Zenon
    <3>4. Holds(q)
      BY Zenon
    <3>5. pc[q] = "hold" => mine[q] \in c'.VALID /\ c'.block[mine[q]] = want[q]
      BY <3>2, <3>4, Zenon DEF Holds, Having
    <3>6. pc[q] = "read" => /\ mine[q] \notin c'.VALID /\ c'.block[mine[q]] = want[q]
                            /\ res'[q] = "ok" => mine[q] \in c'.current
      BY <3>1, <3>2, <3>4, Zenon DEF Holds, Having, Transferring
    <3>7. pc[q] \in {"evict", "write", "kwrite", "select"} =>
                    mine[q] \in c'.VALID /\ (res'[q] = "ok" => c'.block[mine[q]] \in disk')
      BY <3>1, <3>2, <3>4, Zenon DEF Holds, Having, Transferring
    <3>8. pc[q] = "getfree" => OneUser(env')
      BY <3>4, Zenon DEF Holds
    <3>. QED
      BY <3>1, <3>3, <3>5, <3>6, <3>7, <3>8, Zenon DEF Holds
  <2>. QED
    BY <2>2, Zenon

\* p moves, and no contents do.
<1>CMoves.
    ASSUME Base, CInv, NEW p \in Proc, NEW l, NEW x, Goto(p, l), env' = env, mine' = [mine EXCEPT ![p] = x],
           \A q \in Proc \ {p} : want'[q] = want[q] /\ (res'[q] = "ok" => res[q] = "ok"),
           lock' = lock \/ (lock \in {NULL, p} /\ lock' \in {NULL, p}), disk' = disk,
           SameData(c', c), Uses(p)',
           c'.DIRTY \subseteq c.DIRTY,
           \A y \in dirty' : y \in c.DIRTY \cup dirty \/ c.block[y] # NULL,
           l \in Having => x \in Buffer /\ c.block[x] # NULL,
           Careful(env) => /\ Holds(p)'
                           /\ \A y \in c.DIRTY \ c'.DIRTY : c.block[y] \in disk
                           /\ dirty' \ c'.LOCKED \subseteq c.VALID
    PROVE  CInv'
  <2> USE <1>CMoves
  <2>1. c'.block = c.block /\ c'.VALID = c.VALID /\ c'.current = c.current
    BY Zenon DEF SameData
  <2>2. \A q \in Proc : Uses(q)'
    <3>1. (\A q \in Proc : Uses(q)) /\ \A q \in Proc \ {p} : want'[q] = want[q]
      BY Zenon DEF CInv
    <3>. QED
      BY <3>1, <1>UsesKept, Zenon
  <2>3. Names'
    <3>1. /\ Names
          /\ \A y \in Buffer : c.block[y] # NULL => c'.block[y] # NULL
          /\ \A y \in c'.DIRTY \cup dirty' : y \in c.DIRTY \cup dirty \/ c'.block[y] # NULL
          /\ l \in Having => x \in Buffer /\ c'.block[x] # NULL
      BY <2>1, Zenon DEF CInv
    <3>. QED
      BY <3>1, <1>NamesKept, Zenon
  <2>4. ASSUME Careful(env) PROVE Contents' /\ \A q \in Proc : Holds(q)'
    <3>1. Contents /\ \A q \in Proc : Holds(q)
      BY <2>4, Zenon DEF CInv
    <3>2. Contents'
      <4>1. (\A y \in c.DIRTY \ c'.DIRTY : c.block[y] \in disk) /\ dirty' \ c'.LOCKED \subseteq c.VALID
        BY <2>4, Zenon
      <4>2. ASSUME NEW B \in Block \ disk PROVE \E y \in c'.DIRTY : c.block[y] = B
        <5>1. PICK y \in c.DIRTY : c.block[y] = B
          BY <3>1, Zenon DEF Contents
        <5>2. y \in c'.DIRTY
          BY <4>1, <5>1, Zenon
        <5>. QED
          BY <5>1, <5>2, Zenon
      <4>3. \A y, z \in Buffer : c'.block[y] = c'.block[z] /\ c'.block[y] # NULL => y = z
        <5>1. \A y, z \in Buffer : c.block[y] = c.block[z] /\ c.block[y] # NULL => y = z
          BY <3>1, Zenon DEF Contents
        <5>. QED
          BY <2>1, <5>1, SMTT(60)
      <4>4. c'.DIRTY \subseteq c'.VALID /\ c'.VALID \subseteq c'.current /\ \A y \in c'.VALID : c'.block[y] \in Block
        BY <2>1, <3>1, Zenon DEF Contents
      <4>5. \A B \in Block \ disk' : \E y \in c'.DIRTY : c'.block[y] = B
        BY <2>1, <4>2, Zenon
      <4>6. dirty' \ c'.LOCKED \subseteq c'.VALID
        BY <2>1, <4>1, Zenon
      <4>. QED
        BY <4>3, <4>4, <4>5, <4>6, Zenon DEF Contents
    <3>3. ASSUME NEW q \in Proc \ {p}, pc[q] = "getfree" PROVE Found(want[q])' = {}
      <4>1. Found(want[q]) = {} /\ want'[q] = want[q]
        BY <3>1, <3>3, Zenon DEF Holds
      <4>. QED
        BY <2>1, <4>1, Zenon DEF Found
    <3>4. \A q \in Proc \ {p} : pc[q] \in Having =>
                /\ c'.block[mine[q]] = c.block[mine[q]]
                /\ mine[q] \in c'.VALID <=> mine[q] \in c.VALID
                /\ mine[q] \in c.current => mine[q] \in c'.current
                /\ pc[q] \in Transferring \ {"read"} /\ c.block[mine[q]] \in disk => c.block[mine[q]] \in disk'
      BY <2>1, Zenon
    <3>5. Holds(p)'
      BY <2>4, Zenon
    <3>6. \A q \in Proc : Holds(q)'
      BY <3>1, <3>3, <3>4, <3>5, <1>HoldsKept, Zenon
    <3>. QED
      BY <3>2, <3>6, Zenon
  <2>. QED
    BY <2>2, <2>3, <2>4, Zenon DEF CInv

\* Nobody moves, and p falls asleep or wakes others.
<1>CStays.
    ASSUME Base, CInv, UNCHANGED <<c, pc, mine, want, env, lock, disk, res>>
    PROVE  CInv'
  <2> USE <1>CStays
  <2>1. (\A p \in Proc : Uses(p))' /\ Names'
    BY Zenon DEF CInv, Uses, Names, dirty
  <2>2. Careful(env) => Contents'
    BY Zenon DEF CInv, Contents, dirty
  <2>3. ASSUME Careful(env), NEW p \in Proc PROVE Holds(p)'
    BY <2>3, Zenon DEF CInv, Holds, Found
  <2>. QED
    BY <2>1, <2>2, <2>3, Zenon DEF CInv

\* What do_blk_request() does not do.
<1>Posted.
    ASSUME Base, RInv, NEW p \in Proc, NEW op, NEW b, NEW l, do_blk_request(p, op, b, l)
    PROVE  /\ Goto(p, l) /\ disk' = disk /\ res'[p] # "ok"
           /\ \A q \in Proc \ {p} : res'[q] = "ok" => res[q] = "ok"
  <2> USE <1>Posted
  <2> DEFINE q == add_blk_request(queue, Request(p, op, b))
  <2>1. PICK m \in Refusals(q, env.refuses) :
            /\ res' = [Ended(q, m, "err") EXCEPT ![p] = IF p \in Owners(q, m) THEN "err" ELSE "none"]
            /\ Goto(p, l) /\ disk' = disk
    BY Zenon DEF do_blk_request
  <2>. QED
    BY <2>1, Zenon DEF Ended

\* Beside the barrier of the journal there is no other user.
<1>Alone.
    ASSUME CInv, Careful(env), NEW p \in env.users, NEW q \in Proc, pc[q] = "select"
    PROVE  p = q
  <2> USE <1>Alone
  <2>1. q \in env.selectors
    BY Zenon DEF CInv, Uses
  <2>. QED
    BY <2>1, Zenon DEF Careful

\* A buffer that p has, or that nobody has locked, is no other's.
<1>NotOthers.
    ASSUME Base, CInv, Careful(env), NEW p \in Proc, p \in env.users, NEW b \in Buffer,
           b \notin c.LOCKED \/ Owns(p, b), NEW q \in Proc, q # p, pc[q] \in Having
    PROVE  mine[q] # b
  <2> USE <1>NotOthers
  <2>1. pc[q] # "select"
    BY <1>Alone, Zenon
  <2>2. pc[q] \in {"evict", "read", "hold", "write", "kwrite"} /\ OneOwner
    BY <2>1, Zenon DEF Having, Transferring, Base, IInv, Inv
  <2>. QED
    BY <2>2, Zenon DEF OneOwner, Owns

\* The block is in the cache.
<1>HitsContents.
    ASSUME Base, RInv, CInv, NEW p \in Proc, GetblkHits(p)
    PROVE  CInv'
  <2> USE <1>HitsContents
  <2>1. PICK b \in Found(want[p]) \ c.LOCKED : Reads(p, b, Locked([c EXCEPT !.free = Unlinked(@, b)], b))
    BY Zenon DEF GetblkHits
  <2> DEFINE cc == Locked([c EXCEPT !.free = Unlinked(@, b)], b)
  <2>2. /\ pc[p] = "getblk" /\ UNCHANGED <<want, lock, env>> /\ b \in Buffer /\ c.block[b] = want[p]
        /\ c' = cc /\ mine' = [mine EXCEPT ![p] = b]
    BY <2>1, Zenon DEF GetblkHits, At, Found, Reads, flush, ghost
  <2>3. pc \in [Proc -> PC] /\ mine \in [Proc -> Buffer \cup {NULL}] /\ IInv
    BY Zenon DEF Base, IInv, Inv, Places
  <2>4. SameData(cc, c)
    BY <2>2, <2>3, <1>TakenData, Zenon
  <2>5. View(c, free, dirty, c.LOCKED, c.DIRTY)
    BY <2>3, NowView, Zenon
  <2>6. View(cc, free \ {b}, dirty, c.LOCKED \cup {b}, c.DIRTY)
    BY <2>2, <2>5, Taking, Zenon
  <2> HIDE DEF cc
  <2>7. /\ SameData(c', c) /\ dirty' = dirty /\ c'.DIRTY = c.DIRTY /\ c'.LOCKED = c.LOCKED \cup {b}
        /\ c'.VALID = c.VALID
    BY <2>2, <2>4, <2>6, NextView, Zenon DEF SameData
  <2>8. PICK l \in {"hold", "read"} :
           /\ Goto(p, l) /\ disk' = disk /\ (l = "hold" <=> b \in c.VALID) /\ (l = "read" => res'[p] # "ok")
           /\ \A q \in Proc \ {p} : res'[q] = "ok" => res[q] = "ok"
    <3>1. CASE b \in c.VALID
      <4>1. b \in cc.VALID
        BY <2>2, <2>7, <3>1, Zenon
      <4>2. Goto(p, "hold") /\ UNCHANGED <<queue, res, disk>>
        BY <2>1, <4>1, Zenon DEF Reads, blk, cc
      <4>. QED
        BY <3>1, <4>2, Zenon
    <3>2. CASE b \notin c.VALID
      <4>1. b \notin cc.VALID
        BY <2>2, <2>7, <3>2, Zenon
      <4>2. do_blk_request(p, "read_block", b, "read")
        BY <2>1, <4>1, Zenon DEF Reads, cc
      <4>. QED
        BY <3>2, <4>2, <1>Posted, Zenon
    <3>. QED
      BY <3>1, <3>2, Zenon
  <2>9. pc'[p] = l /\ mine'[p] = b
    BY <2>2, <2>3, <2>8, Zenon DEF Goto
  <2>10. p \in env.users /\ want[p] \in Block /\ c.block[b] # NULL
    BY <2>2, Sizes, Zenon DEF CInv, Uses
  <2>11. Uses(p)'
    BY <2>2, <2>9, <2>10, Zenon DEF Uses
  <2>12. Holds(p)'
    <3>1. c'.block = c.block
      BY <2>7, Zenon DEF SameData
    <3>. QED
      BY <2>2, <2>7, <2>8, <2>9, <3>1, Zenon DEF Holds
  <2>13. Careful(env) => dirty \ c'.LOCKED \subseteq c.VALID
    BY <2>7, Zenon DEF CInv, Contents
  <2>. QED
    BY <2>2, <2>7, <2>8, <2>10, <2>11, <2>12, <2>13, <1>CMoves, Zenon

\* No buffer is taken.
<1>WaitsContents.
    ASSUME Base, RInv, CInv, NEW p \in Proc, NoFree(p) \/ FreeIsLocked(p)
    PROVE  CInv'
  <2> USE <1>WaitsContents
  <2>1. /\ pc[p] = "getblk" \/ pc[p] = "getfree"
        /\ UNCHANGED <<c, want, mine, lock, env, disk, res>>
    BY Zenon DEF NoFree, FreeIsLocked, InGetFree, At, blk, flush, ghost
  <2>2. pc \in [Proc -> PC] /\ mine' = [mine EXCEPT ![p] = mine[p]] /\ SameData(c', c) /\ dirty' = dirty
    BY <2>1, Zenon DEF Base, IInv, Inv, Places, SameData, dirty
  <2>3. PICK l \in {"getblk", "getfree"} : Goto(p, l) /\ (l = "getfree" => FreeIsLocked(p))
    BY Zenon DEF NoFree, FreeIsLocked
  <2>4. pc'[p] = l
    BY <2>2, <2>3, Zenon DEF Goto
  <2>5. Uses(p)'
    BY <2>1, <2>4, Zenon DEF Uses, CInv
  <2>6. ASSUME Careful(env) PROVE Holds(p)'
    <3>1. ASSUME l = "getfree" PROVE Found(want[p]) = {} /\ OneUser(env)
      <4>1. InGetFree(p) /\ c.free # <<>> /\ Head(c.free) \in c.LOCKED
        BY <2>3, <3>1, Zenon DEF FreeIsLocked
      <4>2. Found(want[p]) = {}
        BY <2>6, <4>1, Zenon DEF InGetFree, At, CInv, Holds
      <4>3. Separate /\ LockedIsOwned /\ Lists /\ IInv
        BY <2>6, Zenon DEF Careful, Separate, Base, IInv, Inv
      <4>4. PICK q \in Proc : Owns(q, Head(c.free))
        BY <4>1, <4>3, Zenon DEF LockedIsOwned
      <4>5. Head(c.free) \in free
        BY <4>1, <4>3, Heads, Zenon
      <4>6. pc[q] \in {"write", "kwrite"}
        BY <4>3, <4>4, <4>5, ZenonT(60) DEF Owns, Lists, ByGetblk
      <4>7. env.syncers # {} \/ env.flusher
        BY <4>6, Zenon DEF CInv, Uses
      <4>. QED
        BY <2>6, <4>2, <4>7, Zenon DEF Careful
    <3>. QED
      BY <2>1, <2>3, <2>4, <3>1, Zenon DEF Holds, Found
  <2>7. Careful(env) => dirty \ c.LOCKED \subseteq c.VALID
    BY Zenon DEF CInv, Contents
  <2>8. l \notin Having
    BY <2>3, Zenon DEF Having, Transferring
  <2>. QED
    BY <2>1, <2>2, <2>3, <2>5, <2>6, <2>7, <2>8, <1>CMoves, Zenon

\* A flag is cleared, or a buffer linked, by the process that has the buffer.
<1>EndsContents.
    ASSUME Base, RInv, CInv, NEW p \in Proc, NEW l \in PC \ (Having \cup {"getfree"}), NEW b, b = mine[p],
           pc[p] \in Having, k.state[p] = "RUNNING", falling = NULL,
           Goto(p, l), env' = env, mine' = [mine EXCEPT ![p] = NULL],
           \A q \in Proc \ {p} : want'[q] = want[q], res' = [res EXCEPT ![p] = "none"] \/ res' = res,
           lock' = lock \/ (lock = p /\ lock' = NULL), disk' = disk,
           SameData(c', c), Uses(p)',
           \/ c'.DIRTY = c.DIRTY /\ (pc[p] = "read" /\ Careful(env) => env.selectors = {})
           \/ pc[p] \in Transferring \ {"read"} /\ res[p] # "err" /\ c'.DIRTY = c.DIRTY \ {b},
           dirty' \subseteq dirty \/ (dirty' \subseteq dirty \cup {b} /\ (pc[p] = "read" => b \in c.DIRTY)),
           c.LOCKED \ {b} \subseteq c'.LOCKED
    PROVE  CInv'
  <2> USE <1>EndsContents
  <2>1. pc \in [Proc -> PC] /\ b \in Buffer /\ c.block[b] # NULL /\ pc'[p] = l /\ res \in [Proc -> {"none", "ok", "err"}]
    BY Zenon DEF Base, IInv, Inv, Places, CInv, Names, Goto, RInv
  <2>2. \A q \in Proc \ {p} : want'[q] = want[q] /\ (res'[q] = "ok" => res[q] = "ok")
    BY <2>1, Zenon
  <2>3. c'.DIRTY \subseteq c.DIRTY /\ l \notin Having /\ l # "getfree"
    BY Zenon
  <2>4. \A y \in dirty' : y \in c.DIRTY \cup dirty \/ c.block[y] # NULL
    BY <2>1, Zenon
  <2>5. Holds(p)'
    BY <2>1, <2>3, Zenon DEF Holds, Having, Transferring
  <2>6. ASSUME Careful(env) PROVE /\ \A y \in c.DIRTY \ c'.DIRTY : c.block[y] \in disk
                                  /\ dirty' \ c'.LOCKED \subseteq c.VALID
    <3>1. Contents /\ Holds(p)
      BY <2>6, Zenon DEF CInv
    <3>2. ASSUME NEW y \in c.DIRTY \ c'.DIRTY PROVE c.block[y] \in disk
      <4>1. y = b /\ pc[p] \in Transferring \ {"read"} /\ res[p] # "err"
        BY Zenon
      <4>2. res[p] = "ok"
        BY <4>1, HasSeen, Zenon
      <4>. QED
        BY <3>1, <4>1, <4>2, Zenon DEF Holds, Transferring
    <3>3. ASSUME NEW y \in dirty' \ c'.LOCKED PROVE y \in c.VALID
      <4>1. CASE y # b
        BY <3>1, <4>1, Zenon DEF Contents
      <4>2. CASE y = b
        <5>1. CASE pc[p] = "read"
          <6>1. env.selectors = {} /\ y \in dirty \cup c.DIRTY
            BY <2>6, <4>2, <5>1, Zenon
          <6>2. env.selectors = {} => dirty \subseteq c.DIRTY
            BY Zenon DEF Base, IInv, Inv, Tidy
          <6>. QED
            BY <3>1, <6>1, <6>2, Zenon DEF Contents
        <5>2. CASE pc[p] # "read"
          BY <3>1, <4>2, <5>2, Zenon DEF Holds, Having, Transferring
        <5>. QED
          BY <5>1, <5>2, Zenon
      <4>. QED
        BY <4>1, <4>2, Zenon
    <3>. QED
      BY <3>2, <3>3, Zenon
  <2>7. lock' = lock \/ (lock \in {NULL, p} /\ lock' \in {NULL, p})
    BY Zenon
  <2>. QED
    BY <2>2, <2>3, <2>4, <2>5, <2>6, <2>7, <1>CMoves, Zenon

\* The write of a dirty free buffer has ended.
<1>EvictedContents.
    ASSUME Base, RInv, CInv, NEW p \in Proc, Evicted(p)
    PROVE  CInv'
  <2> USE <1>EvictedContents
  <2> DEFINE b == mine[p]
  <2>1. /\ pc[p] = "evict" /\ k.state[p] = "RUNNING" /\ falling = NULL
        /\ Goto(p, "getblk") /\ mine' = [mine EXCEPT ![p] = NULL] /\ UNCHANGED <<want, lock, env, disk>>
        /\ res' = [res EXCEPT ![p] = "none"]
        /\ c' = brelse(IF res[p] = "err" THEN c ELSE remove_from_dirty_list(Cleaned(c, b), b), b)
    BY Zenon DEF Evicted, At, Freed, flush, ghost
  <2>2. b \in Buffer /\ b \notin free /\ IInv /\ pc \in [Proc -> PC]
    BY <2>1, Zenon DEF Base, IInv, Inv, Places, Lists, Owning, ByGetblk
  <2>3. View(c, free, dirty, c.LOCKED, c.DIRTY)
    BY <2>2, NowView, Zenon
  <2>4. SameData(c', c)
    BY <2>1, <2>2, <2>3, <1>ReleaseData, Zenon
  <2>5. \/ /\ res[p] = "err" /\ c'.DIRTY = c.DIRTY /\ c'.LOCKED = c.LOCKED \ {b}
           /\ dirty' = IF b \in c.DIRTY THEN dirty \cup {b} ELSE dirty
        \/ /\ res[p] # "err" /\ c'.DIRTY = c.DIRTY \ {b} /\ c'.LOCKED = c.LOCKED \ {b} /\ dirty' = dirty \ {b}
    <3>1. CASE res[p] = "err"
      <4>1. c' = brelse(c, b)
        BY <2>1, <3>1, Zenon
      <4> DEFINE D == IF b \in c.DIRTY THEN dirty \cup {b} ELSE dirty
      <4>2. View(c', free \cup {b}, D, c.LOCKED \ {b}, c.DIRTY)
        BY <2>2, <2>3, <4>1, Releasing, Zenon
      <4> HIDE DEF b, D
      <4>3. c'.DIRTY = c.DIRTY /\ c'.LOCKED = c.LOCKED \ {b} /\ dirty' = D
        BY <4>2, NextView, Zenon
      <4>. QED
        BY <3>1, <4>3, Zenon DEF D
    <3>2. CASE res[p] # "err"
      <4>1. c' = brelse(remove_from_dirty_list(Cleaned(c, b), b), b)
        BY <2>1, <3>2, Zenon
      <4>2. View(c', free \cup {b}, dirty \ {b}, c.LOCKED \ {b}, c.DIRTY \ {b})
        BY <2>2, <2>3, <4>1, ReleasingClean, Zenon
      <4>. QED
        BY <3>2, <4>2, NextView, Zenon
    <3>. QED
      BY <3>1, <3>2, Zenon
  <2>6. Uses(p)'
    <3>1. pc'[p] = "getblk"
      BY <2>1, <2>2, Zenon DEF Goto
    <3>. QED
      BY <2>1, <3>1, Zenon DEF Uses, CInv
  <2>7. "getblk" \in PC \ (Having \cup {"getfree"}) /\ pc[p] \in Having /\ pc[p] \in Transferring \ {"read"} /\ b = mine[p]
    BY <2>1, Zenon DEF PC, Having, Transferring
  <2> HIDE DEF b
  <2>8. CASE res[p] # "err"
    <3>1. c'.DIRTY = c.DIRTY \ {b} /\ dirty' \subseteq dirty /\ c.LOCKED \ {b} \subseteq c'.LOCKED
      BY <2>5, <2>8, Zenon
    <3>. QED
      BY <2>1, <2>4, <2>6, <2>7, <2>8, <3>1, <1>EndsContents, Zenon
  <2>9. CASE res[p] = "err"
    <3>1. c'.DIRTY = c.DIRTY /\ dirty' \subseteq dirty \cup {b} /\ c.LOCKED \ {b} \subseteq c'.LOCKED /\ pc[p] # "read"
      BY <2>1, <2>5, <2>9, Zenon
    <3>. QED
      BY <2>1, <2>4, <2>6, <2>7, <3>1, <1>EndsContents, Zenon
  <2>. QED
    BY <2>8, <2>9, Zenon

\* A dirty free buffer is to be written.
<1>EvictsContents.
    ASSUME Base, RInv, CInv, NEW p \in Proc, Evicts(p)
    PROVE  CInv'
  <2> USE <1>EvictsContents
  <2> DEFINE b == Head(c.free)
  <2>1. /\ pc[p] = "getblk" \/ pc[p] = "getfree"
        /\ UNCHANGED <<want, lock, env>> /\ mine' = [mine EXCEPT ![p] = b]
        /\ c.free # <<>> /\ b \in c.DIRTY \ c.LOCKED /\ c' = Taken
        /\ do_blk_request(p, "write_block", b, "evict")
    BY Zenon DEF Evicts, InGetFree, At, flush, ghost
  <2>2. IInv /\ pc \in [Proc -> PC] /\ mine \in [Proc -> Buffer \cup {NULL}]
    BY Zenon DEF Base, IInv, Inv, Places
  <2>3. b \in Buffer /\ View(c', free \ {b}, dirty, c.LOCKED \cup {b}, c.DIRTY) /\ SameData(c', c)
    BY <2>1, <2>2, NowView, Heads, Taking, <1>TakenData, Zenon
  <2>4. dirty' = dirty /\ c'.DIRTY = c.DIRTY /\ c'.LOCKED = c.LOCKED \cup {b}
    BY <2>3, NextView, Zenon
  <2>5. /\ Goto(p, "evict") /\ disk' = disk /\ res'[p] # "ok"
        /\ \A q \in Proc \ {p} : res'[q] = "ok" => res[q] = "ok"
    BY <2>1, <1>Posted, Zenon
  <2> HIDE DEF b
  <2>6. pc'[p] = "evict" /\ mine'[p] = b
    BY <2>1, <2>2, <2>5, Zenon DEF Goto
  <2>7. Uses(p)' /\ c.block[b] # NULL
    BY <2>1, <2>6, Zenon DEF Uses, CInv, Names
  <2>8. ASSUME Careful(env) PROVE Holds(p)' /\ dirty' \ c'.LOCKED \subseteq c.VALID
    <3>1. b \in c'.VALID /\ dirty \ c.LOCKED \subseteq c.VALID
      BY <2>1, <2>3, <2>8, Zenon DEF CInv, Contents, SameData
    <3>. QED
      BY <2>4, <2>5, <2>6, <3>1, Zenon DEF Holds
  <2>. QED
    BY <2>1, <2>3, <2>4, <2>5, <2>7, <2>8, <1>CMoves, Zenon

\* A clean free buffer gets a new name.
<1>TakesContents.
    ASSUME Base, RInv, CInv, NEW p \in Proc, Takes(p)
    PROVE  CInv'
  <2> USE <1>TakesContents
  <2> DEFINE b == Head(c.free)
             cc == [Renamed(want[p]) EXCEPT !.VALID = @ \ {b}]
  <2>1. /\ pc[p] = "getblk" \/ pc[p] = "getfree"
        /\ UNCHANGED <<want, lock, env>> /\ mine' = [mine EXCEPT ![p] = b] /\ c' = cc
        /\ c.free # <<>> /\ b \notin c.DIRTY \cup c.LOCKED
        /\ Reads(p, b, cc)
    BY Zenon DEF Takes, InGetFree, At, flush, ghost, Reads
  <2>2. IInv /\ pc \in [Proc -> PC] /\ mine \in [Proc -> Buffer \cup {NULL}] /\ c \in CType
    BY Zenon DEF Base, IInv, Inv, Places, CShape
  <2>3. b \in Buffer /\ View(Taken, free \ {b}, dirty, c.LOCKED \cup {b}, c.DIRTY) /\ SameData(Taken, c)
    BY <2>1, <2>2, NowView, Heads, Taking, <1>TakenData, Zenon
  <2>4. p \in env.users /\ want[p] \in Block /\ want[p] # NULL
    BY <2>1, Sizes, Zenon DEF CInv, Uses
  <2>5. /\ cc.dirty = Taken.dirty /\ cc.DIRTY = Taken.DIRTY /\ cc.LOCKED = Taken.LOCKED
        /\ cc.VALID = Taken.VALID \ {b} /\ cc.current = Taken.current \ {b}
        /\ cc.block = [Taken.block EXCEPT ![b] = want[p]]
    BY <2>3, Zenon DEF Renamed, View, CShape, CType
  <2> HIDE DEF b, cc
  <2>6. /\ dirty' = dirty /\ c'.DIRTY = c.DIRTY /\ c'.LOCKED = c.LOCKED \cup {b}
        /\ c'.VALID = c.VALID \ {b} /\ c'.current = c.current \ {b}
        /\ c'.block = [c.block EXCEPT ![b] = want[p]]
    BY <2>1, <2>3, <2>5, Zenon DEF View, SameData, dirty
  <2>7. /\ Goto(p, "read") /\ disk' = disk /\ res'[p] # "ok"
        /\ \A q \in Proc \ {p} : res'[q] = "ok" => res[q] = "ok"
    <3>1. b \notin cc.VALID
      BY <2>1, <2>6, Zenon
    <3>2. do_blk_request(p, "read_block", b, "read")
      BY <2>1, <3>1, Zenon DEF Reads
    <3>. QED
      BY <3>2, <1>Posted, Zenon
  <2>8. pc'[p] = "read" /\ mine'[p] = b /\ c'.block[b] = want[p] /\ \A y \in Buffer \ {b} : c'.block[y] = c.block[y]
    BY <2>1, <2>2, <2>3, <2>6, <2>7, Zenon DEF Goto, CType
  <2>9. \A q \in Proc : Uses(q)'
    <3>1. Uses(p)'
      BY <2>1, <2>4, <2>8, Zenon DEF Uses
    <3>2. (\A q \in Proc : Uses(q)) /\ (\A q \in Proc \ {p} : want'[q] = want[q]) /\ lock' = lock /\ env' = env
      BY <2>1, Zenon DEF CInv
    <3>. QED
      BY <2>7, <3>1, <3>2, <1>UsesKept, Zenon
  <2>10. Names'
    <3>1. \A y \in Buffer : c.block[y] # NULL => c'.block[y] # NULL
      BY <2>4, <2>8, Zenon
    <3>2. Names /\ "read" \in Having /\ b \in Buffer /\ c'.block[b] # NULL
      BY <2>3, <2>4, <2>8, Zenon DEF CInv, Having, Transferring
    <3>3. \A y \in c'.DIRTY \cup dirty' : y \in c.DIRTY \cup dirty \/ c'.block[y] # NULL
      BY <2>6, Zenon
    <3>. QED
      BY <2>1, <2>7, <3>1, <3>2, <3>3, <1>NamesKept, Zenon
  <2>11. ASSUME Careful(env) PROVE Contents' /\ \A q \in Proc : Holds(q)'
    <3>1. Contents /\ \A q \in Proc : Holds(q)
      BY <2>11, Zenon DEF CInv
    <3>2. \A y \in Buffer : c.block[y] # want[p]
      <4>1. Found(want[p]) = {}
        BY <3>1, Zenon DEF Takes, InGetFree, At, Holds
      <4>. QED
        BY <4>1, Zenon DEF Found
    <3>3. Contents'
      <4>1. ASSUME NEW x \in Buffer, NEW y \in Buffer, c'.block[x] = c'.block[y], c'.block[x] # NULL PROVE x = y
        <5>1. CASE x = b \/ y = b
          BY <2>8, <3>2, <4>1, <5>1, Zenon
        <5>2. CASE x # b /\ y # b
          <6>1. c.block[x] = c.block[y] /\ c.block[x] # NULL
            BY <2>8, <4>1, <5>2, Zenon
          <6>. QED
            BY <3>1, <6>1, Zenon DEF Contents
        <5>. QED
          BY <5>1, <5>2, Zenon
      <4>2. c'.DIRTY \subseteq c'.VALID /\ c'.VALID \subseteq c'.current /\ dirty' \ c'.LOCKED \subseteq c'.VALID
        BY <2>1, <2>6, <3>1, Zenon DEF Contents
      <4>3. \A x \in c'.VALID : c'.block[x] \in Block
        BY <2>2, <2>6, <2>8, <3>1, Zenon DEF Contents, CType
      <4>4. ASSUME NEW B \in Block \ disk' PROVE \E x \in c'.DIRTY : c'.block[x] = B
        <5>1. PICK x \in c.DIRTY : c.block[x] = B
          BY <2>7, <3>1, Zenon DEF Contents
        <5>2. x \in c'.DIRTY /\ x \in Buffer \ {b}
          BY <2>1, <2>2, <2>6, <5>1, Zenon DEF CType
        <5>. QED
          BY <2>8, <5>1, <5>2, Zenon
      <4>. QED
        BY <4>1, <4>2, <4>3, <4>4, Zenon DEF Contents
    <3>4. ASSUME NEW q \in Proc \ {p}, pc[q] \in Having
          PROVE /\ c'.block[mine[q]] = c.block[mine[q]]
                /\ mine[q] \in c'.VALID <=> mine[q] \in c.VALID
                /\ mine[q] \in c.current => mine[q] \in c'.current
                /\ pc[q] \in Transferring \ {"read"} /\ c.block[mine[q]] \in disk => c.block[mine[q]] \in disk'
      <4>1. mine[q] # b
        BY <2>1, <2>3, <2>4, <2>11, <3>4, <1>NotOthers, Zenon
      <4>2. mine[q] \in Buffer
        BY <3>4, Zenon DEF CInv, Names
      <4>. QED
        BY <2>6, <2>7, <2>8, <4>1, <4>2, Zenon
    <3>5. ASSUME NEW q \in Proc \ {p}, pc[q] = "getfree" PROVE Found(want[q])' = {}
      <4>1. q \in env.users /\ OneUser(env)
        BY <3>1, <3>5, Zenon DEF CInv, Uses, Holds
      <4>. QED
        BY <2>4, <4>1, Zenon DEF OneUser
    <3>6. Holds(p)'
      BY <2>1, <2>6, <2>7, <2>8, Zenon DEF Holds
    <3>7. \A q \in Proc \ {p} : want'[q] = want[q] /\ (res'[q] = "ok" => res[q] = "ok")
      BY <2>1, <2>7, Zenon
    <3>8. \A q \in Proc : Holds(q)'
      BY <2>1, <2>7, <3>1, <3>4, <3>5, <3>6, <3>7, <1>HoldsKept, Zenon
    <3>. QED
      BY <3>3, <3>8, Zenon
  <2>. QED
    BY <2>1, <2>9, <2>10, <2>11, Zenon DEF CInv

\* What the others know, if p changes its own buffer.
<1>HoldsOthers.
    ASSUME Base, CInv, Careful(env), NEW p \in Proc, p \in env.users, NEW b, b = mine[p], Owns(p, b),
           NEW l, NEW x, Goto(p, l), env' = env, mine' = [mine EXCEPT ![p] = x],
           \A q \in Proc \ {p} : want'[q] = want[q] /\ (res'[q] = "ok" => res[q] = "ok"),
           c'.block = c.block,
           \A y \in Buffer \ {b} : (y \in c'.VALID <=> y \in c.VALID) /\ (y \in c.current => y \in c'.current),
           \A B \in disk : B # c.block[b] => B \in disk',
           Holds(p)'
    PROVE  \A q \in Proc : Holds(q)'
  <2> USE <1>HoldsOthers
  <2>1. Contents /\ \A q \in Proc : Holds(q)
    BY Zenon DEF CInv
  <2>2. b \in Buffer
    BY Zenon DEF Owns, CInv, Names, Having, Transferring
  <2>3. ASSUME NEW q \in Proc \ {p}, pc[q] \in Having
        PROVE /\ c'.block[mine[q]] = c.block[mine[q]]
              /\ mine[q] \in c'.VALID <=> mine[q] \in c.VALID
              /\ mine[q] \in c.current => mine[q] \in c'.current
              /\ pc[q] \in Transferring \ {"read"} /\ c.block[mine[q]] \in disk => c.block[mine[q]] \in disk'
    <3>1. mine[q] # b
      BY <2>2, <2>3, <1>NotOthers, Zenon
    <3>2. mine[q] \in Buffer /\ c.block[mine[q]] # NULL
      BY <2>3, Zenon DEF CInv, Names
    <3>3. c.block[mine[q]] # c.block[b]
      BY <2>1, <2>2, <3>1, <3>2, Zenon DEF Contents
    <3>. QED
      BY <3>1, <3>2, <3>3, Zenon
  <2>4. ASSUME NEW q \in Proc \ {p}, pc[q] = "getfree" PROVE Found(want[q])' = {}
    <3>1. Found(want[q]) = {} /\ want'[q] = want[q]
      BY <2>1, <2>4, Zenon DEF Holds
    <3>. QED
      BY <3>1, Zenon DEF Found
  <2>. QED
    BY <2>1, <2>3, <2>4, <1>HoldsKept, Zenon

\* The read has ended well.
<1>ReadContents.
    ASSUME Base, RInv, CInv, NEW p \in Proc, ReadDone(p), res[p] = "ok"
    PROVE  CInv'
  <2> USE <1>ReadContents
  <2> DEFINE b == mine[p]
  <2>1. /\ pc[p] = "read" /\ Goto(p, "hold") /\ UNCHANGED <<want, mine, lock, env, disk>>
        /\ c' = [c EXCEPT !.VALID = @ \cup {b}] /\ res' = [res EXCEPT ![p] = "none"]
    BY Zenon DEF ReadDone, At, Freed, flush, ghost
  <2>2. /\ IInv /\ pc \in [Proc -> PC] /\ mine \in [Proc -> Buffer \cup {NULL}] /\ c \in CType
        /\ res \in [Proc -> {"none", "ok", "err"}]
    BY Zenon DEF Base, IInv, Inv, Places, CShape, RInv
  <2>3. b \in Buffer /\ c.block[b] # NULL /\ p \in env.users /\ want[p] \in Block
    BY <2>1, Zenon DEF CInv, Names, Uses, Having, Transferring
  <2>4. /\ c'.block = c.block /\ c'.VALID = c.VALID \cup {b} /\ c'.current = c.current
        /\ c'.DIRTY = c.DIRTY /\ c'.LOCKED = c.LOCKED /\ dirty' = dirty
    BY <2>1, <2>2, Zenon DEF CType, dirty
  <2>5. pc'[p] = "hold" /\ mine'[p] = b /\ mine' = [mine EXCEPT ![p] = b] /\ Owns(p, b) /\ b = mine[p]
    BY <2>1, <2>2, Zenon DEF Goto, Owns
  <2> HIDE DEF b
  <2>6. \A q \in Proc : Uses(q)'
    <3>1. Uses(p)'
      BY <2>1, <2>3, <2>5, Zenon DEF Uses
    <3>2. (\A q \in Proc : Uses(q)) /\ (\A q \in Proc \ {p} : want'[q] = want[q]) /\ lock' = lock /\ env' = env
      BY <2>1, Zenon DEF CInv
    <3>. QED
      BY <2>1, <3>1, <3>2, <1>UsesKept, Zenon
  <2>7. Names'
    <3>1. /\ Names /\ \A y \in Buffer : c.block[y] # NULL => c'.block[y] # NULL
          /\ \A y \in c'.DIRTY \cup dirty' : y \in c.DIRTY \cup dirty \/ c'.block[y] # NULL
          /\ b \in Buffer /\ c'.block[b] # NULL
      BY <2>3, <2>4, Zenon DEF CInv
    <3>. QED
      BY <2>1, <2>5, <3>1, <1>NamesKept, Zenon
  <2>8. ASSUME Careful(env) PROVE Contents' /\ \A q \in Proc : Holds(q)'
    <3>1. Contents /\ b \in c.current /\ c.block[b] = want[p]
      BY <2>1, <2>5, <2>8, Zenon DEF CInv, Holds
    <3>2. Contents'
      <4>1. \A x, y \in Buffer : c'.block[x] = c'.block[y] /\ c'.block[x] # NULL => x = y
        <5>1. \A x, y \in Buffer : c.block[x] = c.block[y] /\ c.block[x] # NULL => x = y
          BY <3>1, Zenon DEF Contents
        <5>. QED
          BY <2>4, <5>1
      <4>2. c'.DIRTY \subseteq c'.VALID /\ c'.VALID \subseteq c'.current /\ dirty' \ c'.LOCKED \subseteq c'.VALID
        BY <2>4, <3>1, Zenon DEF Contents
      <4>3. \A x \in c'.VALID : c'.block[x] \in Block
        BY <2>3, <2>4, <3>1, Zenon DEF Contents
      <4>4. \A B \in Block \ disk' : \E x \in c'.DIRTY : c'.block[x] = B
        BY <2>1, <2>4, <3>1, ZenonT(60) DEF Contents
      <4>. QED
        BY <4>1, <4>2, <4>3, <4>4, Zenon DEF Contents
    <3>3. Holds(p)'
      BY <2>1, <2>4, <2>5, <3>1, Zenon DEF Holds
    <3>4. /\ \A q \in Proc \ {p} : want'[q] = want[q] /\ (res'[q] = "ok" => res[q] = "ok")
          /\ \A y \in Buffer \ {b} : (y \in c'.VALID <=> y \in c.VALID) /\ (y \in c.current => y \in c'.current)
          /\ \A B \in disk : B # c.block[b] => B \in disk'
      BY <2>1, <2>2, <2>4, Zenon
    <3>5. \A q \in Proc : Holds(q)'
      BY <2>1, <2>3, <2>4, <2>5, <2>8, <3>3, <3>4, <1>HoldsOthers, Zenon
    <3>. QED
      BY <3>2, <3>5, Zenon
  <2>. QED
    BY <2>1, <2>6, <2>7, <2>8, Zenon DEF CInv

\* The read has ended badly.
<1>UnreadContents.
    ASSUME Base, RInv, CInv, NEW p \in Proc, ReadDone(p), res[p] # "ok"
    PROVE  CInv'
  <2> USE <1>UnreadContents
  <2> DEFINE b == mine[p]
             D == IF b \in c.DIRTY THEN dirty \cup {b} ELSE dirty
  <2>1. /\ pc[p] = "read" /\ k.state[p] = "RUNNING" /\ falling = NULL
        /\ Goto(p, "user") /\ mine' = [mine EXCEPT ![p] = NULL] /\ UNCHANGED <<lock, env, disk>>
        /\ want' = [want EXCEPT ![p] = NULL] /\ res' = [res EXCEPT ![p] = "none"] /\ c' = brelse(c, b)
    BY Zenon DEF ReadDone, At, Freed, flush, ghost
  <2>2. b \in Buffer /\ b \notin free /\ IInv /\ pc \in [Proc -> PC] /\ want \in [Proc -> Block \cup {NULL}]
    BY <2>1, Zenon DEF Base, IInv, Inv, Places, Lists, Owning, ByGetblk, Typed
  <2>3. View(c, free, dirty, c.LOCKED, c.DIRTY)
    BY <2>2, NowView, Zenon
  <2>4. SameData(c', c) /\ View(c', free \cup {b}, D, c.LOCKED \ {b}, c.DIRTY)
    BY <2>1, <2>2, <2>3, <1>ReleaseData, Releasing, Zenon
  <2>5. dirty \cup {b} = dirty \cup {b} /\ (D \subseteq dirty \/ (D \subseteq dirty \cup {b} /\ b \in c.DIRTY)) /\ b = mine[p]
    BY Zenon
  <2> HIDE DEF b, D
  <2>6. c'.DIRTY = c.DIRTY /\ c'.LOCKED = c.LOCKED \ {b} /\ dirty' = D
    BY <2>4, NextView, Zenon
  <2>7. Uses(p)'
    <3>1. pc'[p] = "user"
      BY <2>1, <2>2, Zenon DEF Goto
    <3>. QED
      BY <3>1, Zenon DEF Uses
  <2>8. "user" \in PC \ (Having \cup {"getfree"}) /\ pc[p] \in Having
    BY <2>1, Zenon DEF PC, Having, Transferring
  <2>9. ASSUME Careful(env) PROVE env.selectors = {}
    <3>1. res[p] = "err"
      BY <2>1, HasSeen, Zenon DEF Transferring
    <3>2. env.refuses \/ env.fails
      BY <3>1, Zenon DEF RInv
    <3>. QED
      BY <2>9, <3>2, Zenon DEF Careful
  <2>10. /\ \A q \in Proc \ {p} : want'[q] = want[q]
         /\ dirty' \subseteq dirty \/ (dirty' \subseteq dirty \cup {b} /\ (pc[p] = "read" => b \in c.DIRTY))
         /\ c.LOCKED \ {b} \subseteq c'.LOCKED
    BY <2>1, <2>2, <2>5, <2>6, Zenon
  <2>. QED
    BY <2>1, <2>4, <2>5, <2>6, <2>7, <2>8, <2>9, <2>10, <1>EndsContents, Zenon

\* brelse() by a user that has not written.
<1>LooksContents.
    ASSUME Base, RInv, CInv, NEW p \in Proc, Releases(p, FALSE)
    PROVE  CInv'
  <2> USE <1>LooksContents
  <2> DEFINE b == mine[p]
             D == IF b \in c.DIRTY THEN dirty \cup {b} ELSE dirty
  <2>1. /\ pc[p] = "hold" /\ k.state[p] = "RUNNING" /\ falling = NULL
        /\ Goto(p, "user") /\ mine' = [mine EXCEPT ![p] = NULL] /\ UNCHANGED <<lock, env, disk, res>>
        /\ want' = [want EXCEPT ![p] = NULL] /\ c' = brelse(c, b)
    BY Zenon DEF Releases, At, flush
  <2>2. b \in Buffer /\ b \notin free /\ IInv /\ pc \in [Proc -> PC] /\ want \in [Proc -> Block \cup {NULL}]
    BY <2>1, Zenon DEF Base, IInv, Inv, Places, Lists, Owning, ByGetblk, Typed
  <2>3. View(c, free, dirty, c.LOCKED, c.DIRTY)
    BY <2>2, NowView, Zenon
  <2>4. SameData(c', c) /\ View(c', free \cup {b}, D, c.LOCKED \ {b}, c.DIRTY)
    BY <2>1, <2>2, <2>3, <1>ReleaseData, Releasing, Zenon
  <2>5. D \subseteq dirty \cup {b} /\ b = mine[p]
    BY Zenon
  <2> HIDE DEF b, D
  <2>6. c'.DIRTY = c.DIRTY /\ c'.LOCKED = c.LOCKED \ {b} /\ dirty' = D
    BY <2>4, NextView, Zenon
  <2>7. Uses(p)'
    <3>1. pc'[p] = "user"
      BY <2>1, <2>2, Zenon DEF Goto
    <3>. QED
      BY <3>1, Zenon DEF Uses
  <2>8. "user" \in PC \ (Having \cup {"getfree"}) /\ pc[p] \in Having /\ pc[p] # "read"
    BY <2>1, Zenon DEF PC, Having, Transferring
  <2>9. /\ \A q \in Proc \ {p} : want'[q] = want[q]
        /\ dirty' \subseteq dirty \cup {b} /\ c.LOCKED \ {b} \subseteq c'.LOCKED
    BY <2>1, <2>2, <2>5, <2>6, Zenon
  <2>. QED
    BY <2>1, <2>4, <2>5, <2>6, <2>7, <2>8, <2>9, <1>EndsContents, Zenon

\* bwrite().
<1>WritesContents.
    ASSUME Base, RInv, CInv, NEW p \in Proc, Releases(p, TRUE)
    PROVE  CInv'
  <2> USE <1>WritesContents
  <2> DEFINE b == mine[p]
             N == c.block[b]
             cw == [c EXCEPT !.current = (@ \ Found(N)) \cup {b}, !.DIRTY = @ \cup {b}, !.VALID = @ \cup {b}]
             d == c.DIRTY \cup {b}
             D == IF b \in d THEN dirty \cup {b} ELSE dirty
  <2>1. /\ pc[p] = "hold" /\ Goto(p, "user") /\ mine' = [mine EXCEPT ![p] = NULL] /\ UNCHANGED <<lock, env, res>>
        /\ want' = [want EXCEPT ![p] = NULL] /\ c' = brelse(cw, b) /\ disk' = disk \ {N}
    BY Zenon DEF Releases, At, flush
  <2>2. /\ b \in Buffer /\ b \notin free /\ IInv /\ pc \in [Proc -> PC] /\ want \in [Proc -> Block \cup {NULL}]
        /\ c \in CType
    BY <2>1, Zenon DEF Base, IInv, Inv, Places, Lists, Owning, ByGetblk, Typed, CShape
  <2>3. View(c, free, dirty, c.LOCKED, c.DIRTY)
    BY <2>2, NowView, Zenon
  <2>4. View(cw, free, dirty, c.LOCKED, d)
    BY <2>2, <2>3, Zenon DEF View, CShape, CType
  <2>5. cw.block = c.block /\ cw.VALID = c.VALID \cup {b} /\ cw.current = (c.current \ Found(N)) \cup {b}
    BY <2>2, Zenon DEF CType
  <2>6. D = dirty \cup {b} /\ b = mine[p] /\ N = c.block[b]
    BY Zenon
  <2> HIDE DEF b, N, cw, d, D
  <2>7. View(brelse(cw, b), free \cup {b}, D, c.LOCKED \ {b}, d) /\ SameData(brelse(cw, b), cw)
    BY <2>2, <2>4, <1>ReleaseData, Releasing, Zenon DEF D
  <2>8. /\ c'.DIRTY = c.DIRTY \cup {b} /\ c'.LOCKED = c.LOCKED \ {b} /\ dirty' = dirty \cup {b}
        /\ c'.block = c.block /\ c'.VALID = c.VALID \cup {b} /\ c'.current = (c.current \ Found(N)) \cup {b}
    BY <2>1, <2>5, <2>6, <2>7, NextView, Zenon DEF SameData, d
  <2>9. /\ N # NULL /\ p \in env.users /\ want[p] \in Block
        /\ pc'[p] = "user" /\ Owns(p, b) /\ \A q \in Proc \ {p} : want'[q] = want[q]
    BY <2>1, <2>2, <2>6, Zenon DEF CInv, Names, Uses, Having, Transferring, Goto, Owns
  <2>10. \A q \in Proc : Uses(q)'
    <3>1. Uses(p)' /\ (\A q \in Proc : Uses(q))
      BY <2>9, Zenon DEF Uses, CInv
    <3>. QED
      BY <2>1, <2>9, <3>1, <1>UsesKept, Zenon
  <2>11. Names'
    <3>1. /\ Names /\ \A y \in Buffer : c.block[y] # NULL => c'.block[y] # NULL
          /\ \A y \in c'.DIRTY \cup dirty' : y \in c.DIRTY \cup dirty \/ c'.block[y] # NULL
          /\ "user" \notin Having
      BY <2>6, <2>8, <2>9, Zenon DEF CInv, Having, Transferring
    <3>. QED
      BY <2>1, <3>1, <1>NamesKept, Zenon
  <2>12. ASSUME Careful(env) PROVE Contents' /\ \A q \in Proc : Holds(q)'
    <3>1. Contents /\ b \in c.VALID /\ N = want[p]
      BY <2>1, <2>6, <2>12, Zenon DEF CInv, Holds
    <3>2. \A x, y \in Buffer : c.block[x] = c.block[y] /\ c.block[x] # NULL => x = y
      BY <3>1, Zenon DEF Contents
    <3>3. \A y \in Found(N) : y = b
      BY <2>2, <2>6, <2>9, <3>2, Zenon DEF Found
    <3>4. Contents'
      <4>1. \A x, y \in Buffer : c'.block[x] = c'.block[y] /\ c'.block[x] # NULL => x = y
        BY <2>8, <3>2
      <4>2. c'.DIRTY \subseteq c'.VALID /\ c'.VALID \subseteq c'.current
        BY <2>8, <3>1, <3>3, Zenon DEF Contents
      <4>3. dirty' \ c'.LOCKED \subseteq c'.VALID
        BY <2>8, <3>1, Zenon DEF Contents
      <4>4. \A x \in c'.VALID : c'.block[x] \in Block
        BY <2>8, <3>1, Zenon DEF Contents
      <4>5. ASSUME NEW B \in Block \ disk' PROVE \E x \in c'.DIRTY : c'.block[x] = B
        <5>1. CASE B = N
          BY <2>6, <2>8, <5>1, Zenon
        <5>2. CASE B # N
          <6>1. B \in Block \ disk
            BY <2>1, <5>2, Zenon
          <6>. QED
            BY <2>8, <3>1, <6>1, Zenon DEF Contents
        <5>. QED
          BY <5>1, <5>2, Zenon
      <4>. QED
        BY <4>1, <4>2, <4>3, <4>4, <4>5, Zenon DEF Contents
    <3>5. Holds(p)'
      BY <2>9, Zenon DEF Holds
    <3>6. /\ \A q \in Proc \ {p} : want'[q] = want[q] /\ (res'[q] = "ok" => res[q] = "ok")
          /\ \A y \in Buffer \ {b} : (y \in c'.VALID <=> y \in c.VALID) /\ (y \in c.current => y \in c'.current)
          /\ \A B \in disk : B # c.block[b] => B \in disk'
      BY <2>1, <2>6, <2>8, <2>9, <3>3, Zenon
    <3>7. \A q \in Proc : Holds(q)'
      BY <2>1, <2>6, <2>8, <2>9, <2>12, <3>5, <3>6, <1>HoldsOthers, Zenon
    <3>. QED
      BY <3>4, <3>7, Zenon
  <2>. QED
    BY <2>1, <2>10, <2>11, <2>12, Zenon DEF CInv

\* p goes on without a buffer, and the cache stays as it is.
<1>GoesContents.
    ASSUME Base, CInv, NEW p \in Proc, NEW l \in PC \ (Having \cup {"getfree"}), Goto(p, l),
           UNCHANGED <<c, mine, env, disk, res>>, \A q \in Proc \ {p} : want'[q] = want[q],
           lock' = lock \/ (lock \in {NULL, p} /\ lock' \in {NULL, p}), Uses(p)'
    PROVE  CInv'
  <2> USE <1>GoesContents
  <2>1. /\ pc \in [Proc -> PC] /\ mine' = [mine EXCEPT ![p] = mine[p]] /\ SameData(c', c) /\ dirty' = dirty
        /\ c'.DIRTY = c.DIRTY /\ c'.LOCKED = c.LOCKED
    BY Zenon DEF Base, IInv, Inv, Places, SameData, dirty
  <2>2. pc'[p] = l /\ l \notin Having /\ l # "getfree"
    BY <2>1, Zenon DEF Goto
  <2>3. Holds(p)'
    BY <2>2, Zenon DEF Holds, Having, Transferring
  <2>4. Careful(env) => dirty \ c.LOCKED \subseteq c.VALID
    BY Zenon DEF CInv, Contents
  <2>. QED
    BY <2>1, <2>2, <2>3, <2>4, <1>CMoves, Zenon

\* A flush takes the first dirty buffer.
<1>FlushesContents.
    ASSUME Base, RInv, CInv, NEW p \in Proc, NEW l \in {"write", "kwrite"}, DirtyFound, c' = DirtyTaken,
           pc[p] = IF l = "write" THEN "dirty" ELSE "kdirty",
           mine' = [mine EXCEPT ![p] = FirstDirty], do_blk_request(p, "write_block", FirstDirty, l),
           UNCHANGED <<want, lock, env>>
    PROVE  CInv'
  <2> USE <1>FlushesContents
  <2> DEFINE b == FirstDirty
  <2>2. IInv /\ pc \in [Proc -> PC] /\ mine \in [Proc -> Buffer \cup {NULL}] /\ c.dirty # <<>> /\ b \notin c.LOCKED
    BY Zenon DEF Base, IInv, Inv, Places, DirtyFound
  <2>3. b \in Buffer /\ b \in dirty /\ View(c', free, dirty \ {b}, c.LOCKED \cup {b}, c.DIRTY) /\ SameData(c', c)
    BY <2>2, NowView, Heads, Taking, <1>TakenData, Zenon
  <2>4. dirty' = dirty \ {b} /\ c'.DIRTY = c.DIRTY /\ c'.LOCKED = c.LOCKED \cup {b}
    BY <2>3, NextView, Zenon
  <2>5. /\ Goto(p, l) /\ disk' = disk /\ res'[p] # "ok"
        /\ \A q \in Proc \ {p} : res'[q] = "ok" => res[q] = "ok"
    BY <1>Posted, Zenon
  <2>6. pc'[p] = l /\ mine'[p] = b
    BY <2>2, <2>5, Zenon DEF Goto
  <2>7. Uses(p)' /\ c.block[b] # NULL
    <3>1. c.block[b] # NULL
      BY <2>3, Zenon DEF CInv, Names
    <3>2. CASE l = "write"
      BY <2>6, <3>1, <3>2, Zenon DEF Uses, CInv
    <3>3. CASE l = "kwrite"
      BY <2>6, <3>1, <3>3, Zenon DEF Uses, CInv
    <3>. QED
      BY <3>2, <3>3, Zenon
  <2>8. ASSUME Careful(env) PROVE Holds(p)' /\ dirty' \ c'.LOCKED \subseteq c.VALID
    <3>1. b \in c'.VALID /\ dirty \ c.LOCKED \subseteq c.VALID
      BY <2>2, <2>3, <2>8, Zenon DEF CInv, Contents, SameData
    <3>. QED
      BY <2>4, <2>5, <2>6, <3>1, Zenon DEF Holds
  <2>9. (\A y \in dirty' : y \in c.DIRTY \cup dirty) /\ c'.DIRTY \subseteq c.DIRTY
    BY <2>4, Zenon
  <2>. QED
    BY <2>3, <2>4, <2>5, <2>7, <2>8, <2>9, <1>CMoves, Zenon

\* The write of a flush has ended.
<1>FlushedContents.
    ASSUME Base, RInv, CInv, NEW p \in Proc, pc[p] \in {"write", "kwrite"}, NEW l \in {"dirty", "kdirty", "ksleep"},
           k.state[p] = "RUNNING", falling = NULL, Goto(p, l), mine' = [mine EXCEPT ![p] = NULL],
           UNCHANGED <<want, env, disk>>, lock' = lock \/ (lock = p /\ lock' = NULL),
           res' = [res EXCEPT ![p] = "none"], Uses(p)',
           c' = Unlocked(IF res[p] = "err" THEN insert_on_dirty_list(c, mine[p]) ELSE Cleaned(c, mine[p]), mine[p])
    PROVE  CInv'
  <2> USE <1>FlushedContents
  <2> DEFINE b == mine[p]
             c1 == IF res[p] = "err" THEN insert_on_dirty_list(c, b) ELSE Cleaned(c, b)
             D == IF res[p] = "err" THEN dirty \cup {b} ELSE dirty
             d == IF res[p] = "err" THEN c.DIRTY ELSE c.DIRTY \ {b}
  <2>1. b \in Buffer /\ IInv /\ b = mine[p]
    BY Zenon DEF Base, IInv, Inv, Places, Owning, ByFlush
  <2>2. View(c, free, dirty, c.LOCKED, c.DIRTY)
    BY <2>1, NowView, Zenon
  <2>3. View(c1, free, D, c.LOCKED, d) /\ SameData(c1, c)
    <3>1. CASE res[p] = "err"
      BY <2>1, <2>2, <3>1, Listing, <1>Data, Zenon
    <3>2. CASE res[p] # "err"
      BY <2>1, <2>2, <3>2, Locking, <1>Data, Zenon
    <3>. QED
      BY <3>1, <3>2, Zenon
  <2>4. c' = Unlocked(c1, b)
    BY Zenon
  <2>5. /\ D \subseteq dirty \cup {b}
        /\ d = c.DIRTY \/ (res[p] # "err" /\ d = c.DIRTY \ {b})
    BY Zenon
  <2> HIDE DEF b, c1, D, d
  <2>6. View(c', free, D, c.LOCKED \ {b}, d) /\ SameData(c', c1)
    <3>1. View(Unlocked(c1, b), free, D, c.LOCKED \ {b}, d)
      BY <2>3, Locking, Zenon
    <3>2. SameData(Unlocked(c1, b), c1)
      BY <2>1, <2>3, <1>Data, Zenon
    <3>. QED
      BY <2>4, <3>1, <3>2, Zenon
  <2>7. SameData(c', c) /\ dirty' = D /\ c'.LOCKED = c.LOCKED \ {b} /\ c'.DIRTY = d
    BY <2>3, <2>6, NextView, Zenon DEF SameData
  <2>8. l \in PC \ (Having \cup {"getfree"}) /\ pc[p] \in Having /\ pc[p] \in Transferring \ {"read"} /\ pc[p] # "read"
    BY Zenon DEF PC, Having, Transferring
  <2>9. dirty' \subseteq dirty \cup {b} /\ c.LOCKED \ {b} \subseteq c'.LOCKED /\ \A q \in Proc \ {p} : want'[q] = want[q]
    BY <2>5, <2>7, Zenon
  <2>. QED
    BY <2>1, <2>5, <2>7, <2>8, <2>9, <1>EndsContents, Zenon

\* The steps of getblk() and bread().
<1>GetblkContents.
    ASSUME Base, RInv, CInv, NEW p \in Proc, GetblkStep(p)
    PROVE  CInv'
  <2> USE <1>GetblkContents
  <2>1. CASE GetblkWaits(p)
    BY <2>1, <1>CStays, Zenon DEF GetblkWaits, blk, flush, ghost
  <2>2. CASE ReadDone(p)
    BY <2>2, <1>ReadContents, <1>UnreadContents, Zenon
  <2>. QED
    BY <2>1, <2>2, <1>HitsContents, <1>WaitsContents, <1>EvictsContents, <1>EvictedContents, <1>TakesContents, Zenon DEF GetblkStep

\* The steps of sync_buffers(), sync_buffers_select() and of a user.
<1>SyncContents.
    ASSUME Base, RInv, CInv, NEW p \in Proc,
           \/ SyncStep(p) \/ sync_buffers(p) \/ DirtyIsLocked(p) \/ FallsAsleep(p)
           \/ \E w \in BOOLEAN : Releases(p, w)
           \/ \E b \in Block : bread(p, b) \/ sync_buffers_select(p, b)
    PROVE  CInv'
  <2> USE <1>SyncContents
  <2> USE DEF At, blk, flush, ghost
  <2>0. /\ pc \in [Proc -> PC] /\ mine \in [Proc -> Buffer \cup {NULL}] /\ want \in [Proc -> Block \cup {NULL}]
        /\ Uses(p) /\ IInv
    BY Zenon DEF Base, IInv, Inv, Places, Typed, CInv
  <2>l. /\ "dirty" \in PC \ (Having \cup {"getfree"}) /\ "user" \in PC \ (Having \cup {"getfree"})
        /\ "lock" \in PC \ (Having \cup {"getfree"}) /\ "getblk" \in PC \ (Having \cup {"getfree"})
    BY Zenon DEF PC, Having, Transferring
  <2>1. CASE SyncLocks(p)
    <3>1. pc[p] = "lock" /\ UNCHANGED <<c, mine, want, env, disk, res>>
      BY <2>1, Zenon DEF SyncLocks
    <3>2. CASE lock = NULL /\ lock' = p /\ Goto(p, "dirty")
      <4>1. pc'[p] = "dirty"
        BY <2>0, <3>2, Zenon DEF Goto
      <4>2. Uses(p)'
        BY <2>0, <3>1, <3>2, <4>1, Zenon DEF Uses
      <4>. QED
        BY <2>l, <3>1, <3>2, <4>2, <1>GoesContents, Zenon
    <3>3. CASE UNCHANGED <<lock, pc>>
      BY <3>1, <3>3, <1>CStays, Zenon
    <3>. QED
      BY <2>1, <3>2, <3>3, Zenon DEF SyncLocks, TakeSync
  <2>2. CASE SyncWrites(p)
    <3>1. /\ DirtyFound /\ c' = DirtyTaken /\ pc[p] = "dirty" /\ mine' = [mine EXCEPT ![p] = FirstDirty]
          /\ do_blk_request(p, "write_block", FirstDirty, "write") /\ UNCHANGED <<want, lock, env>>
      BY <2>2, Zenon DEF SyncWrites
    <3>. QED
      BY <3>1, <1>FlushesContents, Zenon
  <2>3. CASE SyncWritten(p)
    <3>1. /\ pc[p] = "write" /\ k.state[p] = "RUNNING" /\ falling = NULL /\ Goto(p, "dirty")
          /\ mine' = [mine EXCEPT ![p] = NULL] /\ UNCHANGED <<want, lock, env, disk>>
          /\ res' = [res EXCEPT ![p] = "none"]
          /\ c' = Unlocked(IF res[p] = "err" THEN insert_on_dirty_list(c, mine[p]) ELSE Cleaned(c, mine[p]), mine[p])
      BY <2>3, Zenon DEF SyncWritten, Freed
    <3>2. pc'[p] = "dirty"
      BY <2>0, <3>1, Zenon DEF Goto
    <3>3. Uses(p)'
      BY <2>0, <3>1, <3>2, Zenon DEF Uses
    <3>. QED
      BY <3>1, <3>3, <1>FlushedContents, Zenon
  <2>4. CASE SyncDone(p)
    <3>1. /\ pc[p] = "dirty" /\ lock' = NULL /\ Goto(p, "user") /\ UNCHANGED <<c, mine, want, env, disk, res>>
      BY <2>4, Zenon DEF SyncDone
    <3>2. pc'[p] = "user" /\ lock = p
      BY <2>0, <3>1, Zenon DEF Goto, Uses
    <3>3. Uses(p)'
      BY <3>2, Zenon DEF Uses
    <3>. QED
      BY <2>l, <3>1, <3>2, <3>3, <1>GoesContents, Zenon
  <2>5. CASE Selected(p)
    <3> DEFINE b == mine[p]
               d == IF res[p] = "err" THEN c.DIRTY ELSE c.DIRTY \ {b}
    <3>1. /\ pc[p] = "select" /\ k.state[p] = "RUNNING" /\ falling = NULL /\ Goto(p, "user")
          /\ mine' = [mine EXCEPT ![p] = NULL] /\ want' = [want EXCEPT ![p] = NULL] /\ UNCHANGED <<lock, env, disk>>
          /\ res' = [res EXCEPT ![p] = "none"]
          /\ c' = IF res[p] = "err" THEN c ELSE Cleaned(c, b)
      BY <2>5, Zenon DEF Selected, Freed
    <3>2. b \in Buffer /\ b = mine[p] /\ View(c, free, dirty, c.LOCKED, c.DIRTY) /\ pc'[p] = "user"
      BY <2>0, <3>1, NowView, Zenon DEF CInv, Names, Having, Transferring, Goto
    <3>3. View(c', free, dirty, c.LOCKED, d) /\ SameData(c', c)
      <4>1. CASE res[p] = "err"
        BY <3>1, <3>2, <4>1, Zenon DEF SameData
      <4>2. CASE res[p] # "err"
        BY <3>1, <3>2, <4>2, Locking, <1>Data, Zenon
      <4>. QED
        BY <4>1, <4>2, Zenon
    <3>4. d = c.DIRTY \/ (res[p] # "err" /\ d = c.DIRTY \ {b})
      BY Zenon
    <3> HIDE DEF b, d
    <3>5. dirty' = dirty /\ c'.LOCKED = c.LOCKED /\ c'.DIRTY = d
      BY <3>3, NextView, Zenon
    <3>6. Uses(p)' /\ pc[p] \in Having /\ pc[p] \in Transferring \ {"read"} /\ pc[p] # "read"
      BY <3>1, <3>2, Zenon DEF Uses, Having, Transferring
    <3>7. \A q \in Proc \ {p} : want'[q] = want[q]
      BY <2>0, <3>1, Zenon
    <3>8. dirty' \subseteq dirty /\ c.LOCKED \ {b} \subseteq c'.LOCKED
      BY <3>5, Zenon
    <3>. QED
      BY <2>l, <3>1, <3>2, <3>3, <3>4, <3>5, <3>6, <3>7, <3>8, <1>EndsContents, Zenon
  <2>6. CASE sync_buffers(p)
    <3>1. p \in env.syncers /\ Goto(p, "lock") /\ UNCHANGED <<c, mine, want, env, disk, res, lock>>
      BY <2>6, Zenon DEF sync_buffers
    <3>2. pc'[p] = "lock"
      BY <2>0, <3>1, Zenon DEF Goto
    <3>3. Uses(p)'
      BY <3>1, <3>2, Zenon DEF Uses
    <3>. QED
      BY <2>l, <3>1, <3>3, <1>GoesContents, Zenon
  <2>7. ASSUME NEW b \in Block, bread(p, b) PROVE CInv'
    <3>1. /\ p \in env.users /\ Goto(p, "getblk") /\ UNCHANGED <<c, mine, env, disk, res, lock>>
          /\ want' = [want EXCEPT ![p] = b]
      BY <2>7, Zenon DEF bread
    <3>2. pc'[p] = "getblk" /\ want'[p] = b /\ \A q \in Proc \ {p} : want'[q] = want[q]
      BY <2>0, <3>1, Zenon DEF Goto
    <3>3. Uses(p)'
      BY <3>1, <3>2, Zenon DEF Uses
    <3>. QED
      BY <2>l, <3>1, <3>2, <3>3, <1>GoesContents, Zenon
  <2>8. CASE DirtyIsLocked(p) \/ FallsAsleep(p)
    BY <2>8, <1>CStays, Zenon DEF DirtyIsLocked, FallsAsleep
  <2>9. ASSUME NEW b \in Block, sync_buffers_select(p, b) PROVE CInv'
    <3>1. PICK x \in Found(b) : /\ x \in c.DIRTY \ c.LOCKED /\ mine' = [mine EXCEPT ![p] = x]
                                /\ want' = [want EXCEPT ![p] = b] /\ do_blk_request(p, "write_block", x, "select")
      BY <2>9, Zenon DEF sync_buffers_select
    <3>2. p \in env.selectors /\ UNCHANGED <<c, env, lock>> /\ x \in Buffer /\ c.block[x] # NULL
      BY <2>9, <3>1, Sizes, Zenon DEF sync_buffers_select, Found
    <3>3. /\ Goto(p, "select") /\ disk' = disk /\ res'[p] # "ok"
          /\ \A q \in Proc \ {p} : want'[q] = want[q] /\ (res'[q] = "ok" => res[q] = "ok")
      BY <2>0, <3>1, <1>Posted, Zenon
    <3>4. pc'[p] = "select" /\ mine'[p] = x /\ SameData(c', c) /\ dirty' = dirty
      BY <2>0, <3>1, <3>2, <3>3, Zenon DEF Goto, SameData, dirty
    <3>5. Uses(p)'
      BY <3>2, <3>4, Zenon DEF Uses
    <3>6. ASSUME Careful(env) PROVE Holds(p)' /\ dirty' \ c'.LOCKED \subseteq c.VALID
      <4>1. x \in c.VALID /\ dirty \ c.LOCKED \subseteq c.VALID
        BY <3>1, <3>6, Zenon DEF CInv, Contents
      <4>. QED
        BY <3>2, <3>3, <3>4, <4>1, Zenon DEF Holds
    <3>7. (\A y \in dirty' : y \in c.DIRTY \cup dirty) /\ c'.DIRTY = c.DIRTY
      BY <3>2, <3>4, Zenon
    <3>. QED
      BY <3>1, <3>2, <3>3, <3>4, <3>5, <3>6, <3>7, <1>CMoves, Zenon
  <2>10. ASSUME NEW w \in BOOLEAN, Releases(p, w) PROVE CInv'
    <3>1. CASE w = TRUE
      BY <2>10, <3>1, <1>WritesContents, Zenon
    <3>2. CASE w = FALSE
      BY <2>10, <3>2, <1>LooksContents, Zenon
    <3>. QED
      BY <3>1, <3>2, Zenon
  <2>. QED
    BY <2>1, <2>2, <2>3, <2>4, <2>5, <2>6, <2>7, <2>8, <2>9, <2>10, Zenon DEF SyncStep

\* The steps of kbdflushd().
<1>FlusherContents.
    ASSUME Base, RInv, CInv, FlusherStep
    PROVE  CInv'
  <2> USE <1>FlusherContents
  <2> DEFINE p == kbdflushd
  <2> USE DEF At, blk, flush, ghost
  <2>p. p \in Proc
    BY Sizes, Zenon
  <2>0. pc \in [Proc -> PC] /\ mine \in [Proc -> Buffer \cup {NULL}] /\ Uses(p) /\ IInv
    BY <2>p, Zenon DEF Base, IInv, Inv, Places, CInv
  <2>l. /\ "kdirty" \in PC \ (Having \cup {"getfree"}) /\ "ksleep" \in PC \ (Having \cup {"getfree"})
        /\ "klock" \in PC \ (Having \cup {"getfree"})
    BY Zenon DEF PC, Having, Transferring
  <2>1. CASE FlusherSleeps
    <3>1. Goto(p, "klock") /\ env.flusher /\ UNCHANGED <<c, mine, want, env, disk, res, lock>>
      BY <2>1, Zenon DEF FlusherSleeps
    <3>2. pc'[p] = "klock"
      BY <2>0, <2>p, <3>1, Zenon DEF Goto
    <3>3. Uses(p)'
      BY <3>1, <3>2, Zenon DEF Uses
    <3> HIDE DEF p
    <3>. QED
      BY <2>l, <2>p, <3>1, <3>3, <1>GoesContents, Zenon
  <2>2. CASE FlusherLocks
    <3>1. pc[p] = "klock" /\ UNCHANGED <<c, mine, want, env, disk, res>>
      BY <2>2, Zenon DEF FlusherLocks
    <3>2. CASE lock = NULL /\ lock' = p /\ Goto(p, "kdirty")
      <4>1. pc'[p] = "kdirty"
        BY <2>0, <2>p, <3>2, Zenon DEF Goto
      <4>2. Uses(p)'
        BY <2>0, <3>1, <3>2, <4>1, Zenon DEF Uses
      <4> HIDE DEF p
      <4>. QED
        BY <2>l, <2>p, <3>1, <3>2, <4>2, <1>GoesContents, Zenon
    <3>3. CASE UNCHANGED <<lock, pc>>
      BY <3>1, <3>3, <1>CStays, Zenon
    <3>. QED
      BY <2>2, <3>2, <3>3, Zenon DEF FlusherLocks, TakeSync
  <2>3. CASE FlusherDone
    <3>1. pc[p] = "kdirty" /\ Goto(p, "ksleep") /\ lock' = NULL /\ UNCHANGED <<mine, want, env, disk, res>>
      BY <2>3, Zenon DEF FlusherDone, FlusherEnds
    <3>2. pc'[p] = "ksleep" /\ lock = p
      BY <2>0, <2>p, <3>1, Zenon DEF Goto, Uses
    <3>3. Uses(p)' /\ Holds(p)'
      BY <3>2, Zenon DEF Uses, Holds
    <3>4. CASE UNCHANGED c
      <4> HIDE DEF p
      <4>. QED
        BY <2>l, <2>p, <3>1, <3>2, <3>3, <3>4, <1>GoesContents, Zenon
    <3>5. CASE DirtyFound /\ c' = Unlocked(insert_on_dirty_list(DirtyTaken, FirstDirty), FirstDirty)
      <4> DEFINE b == FirstDirty
                 D == dirty \ {b}
                 L == c.LOCKED \cup {b}
                 c2 == insert_on_dirty_list(DirtyTaken, b)
      <4>1. c.dirty # <<>> /\ b \notin c.LOCKED /\ b \in Buffer /\ b \in dirty
        BY <2>0, <3>5, Heads, Zenon DEF DirtyFound
      <4>2. View(DirtyTaken, free, D, L, c.DIRTY) /\ SameData(DirtyTaken, c)
        BY <2>0, <4>1, NowView, Taking, <1>TakenData, Zenon
      <4>3. D \cup {b} = dirty /\ L \ {b} = c.LOCKED
        BY <4>1, Zenon
      <4>4. c' = Unlocked(c2, b)
        BY <3>5, Zenon
      <4> HIDE DEF b, D, L
      <4>5. View(c2, free, D \cup {b}, L, c.DIRTY) /\ SameData(c2, DirtyTaken)
        BY <4>1, <4>2, Listing, <1>Data, Zenon
      <4> HIDE DEF c2
      <4>6. View(Unlocked(c2, b), free, D \cup {b}, L \ {b}, c.DIRTY)
        BY <4>5, Locking, Zenon
      <4>7. SameData(Unlocked(c2, b), c2)
        BY <4>1, <4>5, <1>Data, Zenon
      <4>8. SameData(c', c) /\ dirty' = dirty /\ c'.LOCKED = c.LOCKED /\ c'.DIRTY = c.DIRTY
        <5>1. View(c', free, dirty, c.LOCKED, c.DIRTY)
          BY <4>3, <4>4, <4>6, Zenon
        <5>. QED
          BY <4>2, <4>4, <4>5, <4>7, <5>1, NextView, Zenon DEF SameData
      <4>9. Careful(env) => dirty \ c.LOCKED \subseteq c.VALID
        BY Zenon DEF CInv, Contents
      <4>10. mine' = [mine EXCEPT ![p] = mine[p]] /\ "ksleep" \notin Having
        BY <2>0, <2>l, <3>1, Zenon
      <4> HIDE DEF p
      <4>. QED
        BY <2>p, <3>1, <3>2, <3>3, <4>8, <4>9, <4>10, <1>CMoves, Zenon
    <3>. QED
      BY <2>3, <3>4, <3>5, Zenon DEF FlusherDone
  <2>4. CASE FlusherWrites
    <3> DEFINE b == FirstDirty
    <3>1. DirtyFound /\ c' = DirtyTaken /\ UNCHANGED <<want, lock, env>> /\ pc[p] = "kdirty"
      BY <2>4, Zenon DEF FlusherWrites
    <3>2. CASE mine' = [mine EXCEPT ![p] = b] /\ do_blk_request(p, "write_block", b, "kwrite")
      <4> HIDE DEF p
      <4>. QED
        BY <2>p, <3>1, <3>2, <1>FlushesContents, Zenon
    <3>3. CASE UNCHANGED <<queue, res, disk, pc, mine>>
      <4>1. c.dirty # <<>> /\ b \notin c.LOCKED /\ b \in Buffer /\ b \in dirty
        BY <2>0, <3>1, Heads, Zenon DEF DirtyFound
      <4>2. View(c', free, dirty \ {b}, c.LOCKED \cup {b}, c.DIRTY) /\ SameData(c', c)
        BY <2>0, <3>1, <4>1, NowView, Taking, <1>TakenData, Zenon
      <4>3. dirty' = dirty \ {b} /\ c'.LOCKED = c.LOCKED \cup {b} /\ c'.DIRTY = c.DIRTY
        BY <4>2, NextView, Zenon
      <4>4. Uses(p)' /\ Holds(p)'
        BY <2>0, <3>1, <3>3, Zenon DEF Uses, Holds
      <4>5. Careful(env) => dirty' \ c'.LOCKED \subseteq c.VALID
        BY <4>3, Zenon DEF CInv, Contents
      <4>6. mine' = [mine EXCEPT ![p] = mine[p]] /\ "kdirty" \notin Having /\ Goto(p, "kdirty")
        BY <2>0, <2>l, <2>p, <3>1, <3>3, Zenon DEF Goto
      <4>7. (\A y \in dirty' : y \in c.DIRTY \cup dirty) /\ c'.DIRTY \subseteq c.DIRTY
        BY <4>3, Zenon
      <4> HIDE DEF p, b
      <4>. QED
        BY <2>p, <3>1, <3>3, <4>2, <4>3, <4>4, <4>5, <4>6, <4>7, <1>CMoves, Zenon
    <3>. QED
      BY <2>4, <3>2, <3>3, Zenon DEF FlusherWrites
  <2>5. CASE FlusherWritten
    <3>1. /\ pc[p] = "kwrite" /\ k.state[p] = "RUNNING" /\ falling = NULL
          /\ mine' = [mine EXCEPT ![p] = NULL] /\ UNCHANGED <<want, env, disk>> /\ res' = [res EXCEPT ![p] = "none"]
      BY <2>5, Zenon DEF FlusherWritten, Freed
    <3>2. \/ Goto(p, "kdirty") /\ lock' = lock
          \/ Goto(p, "ksleep") /\ lock' = NULL
      BY <2>5, Zenon DEF FlusherWritten, FlusherEnds
    <3>3. c' = Unlocked(IF res[p] = "err" THEN insert_on_dirty_list(c, mine[p]) ELSE Cleaned(c, mine[p]), mine[p])
      <4>1. CASE res[p] = "err"
        BY <2>5, <4>1, Zenon DEF FlusherWritten
      <4>2. CASE res[p] # "err"
        BY <2>5, <4>2, Zenon DEF FlusherWritten
      <4>. QED
        BY <4>1, <4>2, Zenon
    <3>4. lock = p
      BY <2>0, <3>1, Zenon DEF Uses
    <3>5. CASE Goto(p, "kdirty") /\ lock' = lock
      <4>1. pc'[p] = "kdirty"
        BY <2>0, <2>p, <3>5, Zenon DEF Goto
      <4>2. Uses(p)'
        BY <2>0, <3>1, <3>5, <4>1, Zenon DEF Uses
      <4> HIDE DEF p
      <4>. QED
        BY <2>p, <3>1, <3>3, <3>5, <4>2, <1>FlushedContents, Zenon
    <3>6. CASE Goto(p, "ksleep") /\ lock' = NULL
      <4>1. pc'[p] = "ksleep"
        BY <2>0, <2>p, <3>6, Zenon DEF Goto
      <4>2. Uses(p)'
        BY <4>1, Zenon DEF Uses
      <4> HIDE DEF p
      <4>. QED
        BY <2>p, <3>1, <3>3, <3>4, <3>6, <4>2, <1>FlushedContents, Zenon
    <3>. QED
      BY <3>2, <3>5, <3>6, Zenon
  <2>. QED
    BY <2>1, <2>2, <2>3, <2>4, <2>5, Zenon DEF FlusherStep

\* The interrupt: what was read is what was last written, and so is what is now
\* on the disk.
<1>InterruptContents.
    ASSUME Base, RInv, CInv, NEW ok \in BOOLEAN, Interrupt(ok)
    PROVE  CInv'
  <2> USE <1>InterruptContents
  <2> DEFINE r == Head(queue)
             h == r.proc
             b == r.buffer
  <2>1. r \in Req /\ Fits(r) /\ h \in Proc /\ b = mine[h] /\ b \in Buffer
    BY Tells, Zenon DEF Req, Fits
  <2>2. /\ UNCHANGED <<pc, want, mine, lock, env>>
        /\ disk' = IF ok /\ r.op = "write_block" THEN Put(disk, c.block[b], b \in c.current) ELSE disk
        /\ c' = IF ok /\ r.op = "read_block"
                  THEN [c EXCEPT !.current = Put(@, b, c.block[b] \in disk)] ELSE c
    BY Zenon DEF Interrupt, flush, ghost
  <2>3. /\ res'[h] = "ok" => ok
        /\ \A q \in Proc \ {h} : res'[q] = "ok" => res[q] = "ok"
    BY Tells, Zenon
  <2>4. c \in CType /\ pc[h] \in Transferring /\ (r.op = "read_block" <=> pc[h] = "read") /\ r.op \in {"read_block", "write_block"}
    BY <2>1, Zenon DEF Base, IInv, CShape, Fits, Req
  <2> HIDE DEF r, h, b
  <2>5. /\ c'.block = c.block /\ c'.VALID = c.VALID /\ c'.DIRTY = c.DIRTY /\ c'.LOCKED = c.LOCKED /\ dirty' = dirty
        /\ c'.current = IF ok /\ r.op = "read_block" THEN Put(c.current, b, c.block[b] \in disk) ELSE c.current
    BY <2>2, <2>4, Zenon DEF CType, dirty
  <2>6. (\A q \in Proc : Uses(q))' /\ Names'
    BY <2>2, <2>5, Zenon DEF CInv, Uses, Names
  <2>7. ASSUME Careful(env) PROVE Contents' /\ \A q \in Proc : Holds(q)'
    <3>1. Contents /\ (\A q \in Proc : Holds(q)) /\ Uses(h)
      BY <2>1, <2>7, Zenon DEF CInv
    <3>2. ASSUME ok, r.op = "read_block" PROVE c'.current = c.current \cup {b} /\ disk' = disk
      <4>1. b \notin c.VALID /\ c.block[b] = want[h] /\ want[h] \in Block /\ want[h] # NULL
        BY <2>1, <2>4, <3>1, <3>2, Sizes, Zenon DEF Holds, Uses
      <4>2. ASSUME c.block[b] \notin disk PROVE FALSE
        <5>1. PICK x \in c.DIRTY : c.block[x] = c.block[b]
          BY <3>1, <4>1, <4>2, Zenon DEF Contents
        <5>2. x = b
          BY <2>1, <2>4, <3>1, <4>1, <5>1, Zenon DEF Contents, CType
        <5>. QED
          BY <3>1, <4>1, <5>1, <5>2, Zenon DEF Contents
      <4>3. r.op # "write_block"
        BY <3>2, Zenon
      <4>. QED
        BY <2>2, <2>5, <3>2, <4>2, <4>3, Zenon DEF Put
    <3>3. ASSUME ok, r.op = "write_block" PROVE c'.current = c.current /\ disk' = disk \cup {c.block[b]}
      <4>1. b \in c.current /\ r.op # "read_block"
        BY <2>1, <2>4, <3>1, <3>3, Zenon DEF Holds, Contents, Transferring
      <4>. QED
        BY <2>2, <2>5, <3>3, <4>1, Zenon DEF Put
    <3>4. ASSUME ~ok PROVE c'.current = c.current /\ disk' = disk
      BY <2>2, <2>5, <3>4, Zenon
    <3>5. c.current \subseteq c'.current /\ disk \subseteq disk'
      BY <2>4, <3>2, <3>3, <3>4, Zenon
    <3>6. Contents'
      <4>1. \A x, y \in Buffer : c'.block[x] = c'.block[y] /\ c'.block[x] # NULL => x = y
        <5>1. \A x, y \in Buffer : c.block[x] = c.block[y] /\ c.block[x] # NULL => x = y
          BY <3>1, Zenon DEF Contents
        <5>. QED
          BY <2>5, <5>1
      <4>2. c'.DIRTY \subseteq c'.VALID /\ c'.VALID \subseteq c'.current /\ dirty' \ c'.LOCKED \subseteq c'.VALID
        BY <2>5, <3>1, <3>5, Zenon DEF Contents
      <4>3. \A x \in c'.VALID : c'.block[x] \in Block
        BY <2>5, <3>1, Zenon DEF Contents
      <4>4. \A B \in Block \ disk' : \E x \in c'.DIRTY : c'.block[x] = B
        BY <2>5, <3>1, <3>5, Zenon DEF Contents
      <4>. QED
        BY <4>1, <4>2, <4>3, <4>4, Zenon DEF Contents
    <3>7. ASSUME NEW q \in Proc PROVE Holds(q)'
      <4>1. Holds(q)
        BY <3>1, Zenon
      <4>2. (pc[q] = "getfree" => Found(want[q])' = {} /\ OneUser(env'))
        BY <2>2, <2>5, <4>1, Zenon DEF Holds, Found
      <4>3. pc[q] = "read" /\ res'[q] = "ok" => mine[q] \in c'.current
        <5>1. CASE q = h
          BY <2>1, <2>3, <2>4, <3>2, <5>1, Zenon
        <5>2. CASE q # h
          BY <2>3, <3>5, <4>1, <5>2, Zenon DEF Holds
        <5>. QED
          BY <5>1, <5>2, Zenon
      <4>4. pc[q] \in {"evict", "write", "kwrite", "select"} /\ res'[q] = "ok" => c.block[mine[q]] \in disk'
        <5>1. CASE q = h
          BY <2>1, <2>3, <2>4, <3>3, <5>1, Zenon
        <5>2. CASE q # h
          BY <2>3, <3>5, <4>1, <5>2, Zenon DEF Holds
        <5>. QED
          BY <5>1, <5>2, Zenon
      <4>. QED
        BY <2>2, <2>5, <4>1, <4>2, <4>3, <4>4, Zenon DEF Holds
    <3>. QED
      BY <3>6, <3>7, Zenon
  <2>. QED
    BY <2>2, <2>6, <2>7, Zenon DEF CInv

<1> SUFFICES ASSUME Base, RInv, CInv, [Next]_vars PROVE CInv'
  BY Zenon
<1>1. CASE UNCHANGED vars
  BY <1>1, <1>CStays, Zenon DEF vars
<1>. QED
  BY <1>1, <1>GetblkContents, <1>SyncContents, <1>FlusherContents, <1>InterruptContents, Zenon DEF Next, Step

-----------------------------------------------------------------------------
(* The remaining variables, and what follows from it all. *)

Locals == /\ disk \subseteq Block
          /\ lock \in Proc \cup {NULL} /\ cpu \in Proc \cup {NULL} /\ falling \in Proc \cup {NULL}
          /\ flushed \in [Proc -> Nat] /\ first \in Buffer \cup {NULL}
          /\ intr \in BOOLEAN /\ owed \in [Proc -> SUBSET Block]

Whole == Base /\ RInv /\ CInv /\ Locals

\* It holds at the start.
LEMMA InitWhole == Init => Whole
<1>1. Init => Locals
  BY DEF Init, Locals
<1>. QED
  BY <1>1, InitBase, InitRInv, InitCInv, Zenon DEF Whole

\* All of it is preserved by every step.
LEMMA NextWhole == Whole /\ [Next]_vars => Whole'

\* The disk gets blocks.
<1>NextDisk.
    ASSUME Whole, [Next]_vars
    PROVE  disk' \subseteq Block
  <2> USE <1>NextDisk
  <2>0. disk \subseteq Block
    BY Zenon DEF Whole, Locals
  <2> USE DEF blk, do_blk_request, Freed
  <2>1. ASSUME NEW p \in Proc, GetblkStep(p) PROVE disk' = disk
    BY <2>1, Zenon DEF GetblkStep, GetblkWaits, GetblkHits, NoFree, FreeIsLocked, Evicts, Evicted, Takes, ReadDone, Reads
  <2>2. ASSUME NEW p \in Proc, SyncStep(p) PROVE disk' = disk
    BY <2>2, Zenon DEF SyncStep, SyncLocks, SyncWrites, SyncWritten, SyncDone, Selected
  <2>3. ASSUME NEW p \in Proc, FallsAsleep(p) \/ DirtyIsLocked(p) \/ sync_buffers(p) PROVE disk' = disk
    BY <2>3, Zenon DEF FallsAsleep, DirtyIsLocked, sync_buffers
  <2>4. ASSUME NEW p \in Proc, NEW b \in Block, bread(p, b) \/ sync_buffers_select(p, b) PROVE disk' = disk
    BY <2>4, Zenon DEF bread, sync_buffers_select
  <2>5. ASSUME NEW p \in Proc, NEW w \in BOOLEAN, Releases(p, w) PROVE disk' \subseteq disk
    BY <2>5, Zenon DEF Releases
  <2>6. ASSUME FlusherStep PROVE disk' = disk
    BY <2>6, Zenon DEF FlusherStep, FlusherSleeps, FlusherLocks, FlusherDone, FlusherWrites, FlusherWritten
  <2>7. ASSUME NEW ok \in BOOLEAN, Interrupt(ok) PROVE disk' \subseteq Block
    <3> DEFINE r == Head(queue)
    <3>1. r \in Req /\ Fits(r)
      BY <2>7, Tells, Zenon DEF Whole
    <3>2. c.block[r.buffer] \in Block
      <4>1. r.proc \in Proc /\ pc[r.proc] \in Having /\ mine[r.proc] = r.buffer
        BY <3>1, Zenon DEF Req, Fits, Having
      <4>2. r.buffer \in Buffer /\ c.block[r.buffer] # NULL
        BY <4>1, Zenon DEF Whole, CInv, Names
      <4>3. c.block \in [Buffer -> Block \cup {NULL}]
        BY Zenon DEF Whole, Base, IInv, CShape, CType
      <4>. QED
        BY <4>2, <4>3, Zenon
    <3>3. disk' = disk \/ disk' = Put(disk, c.block[r.buffer], r.buffer \in c.current)
      BY <2>7, Zenon DEF Interrupt
    <3>. QED
      BY <2>0, <3>2, <3>3, Zenon DEF Put
  <2>. QED
    BY <2>0, <2>1, <2>2, <2>3, <2>4, <2>5, <2>6, <2>7, Zenon DEF Next, Step, vars

\* Who has the CPU, and who is about to sleep.
<1>NextTurn.
    ASSUME Whole, [Next]_vars
    PROVE  cpu' \in Proc \cup {NULL} /\ falling' \in Proc \cup {NULL} /\ intr' \in BOOLEAN
  <2> USE <1>NextTurn
  <2>0. cpu \in Proc \cup {NULL} /\ falling \in Proc \cup {NULL} /\ intr \in BOOLEAN /\ kbdflushd \in Proc
    BY Sizes, Zenon DEF Whole, Locals
  <2> DEFINE Turn == cpu' \in Proc \cup {NULL} /\ falling' \in Proc \cup {NULL} /\ intr' \in BOOLEAN
  <2>a. ASSUME LeavesCPU PROVE Turn
    BY <2>0, <2>a, Zenon DEF LeavesCPU
  <2>b. ASSUME NEW p \in Proc, KeepsCPU(p) PROVE Turn
    BY <2>0, <2>b, Zenon DEF KeepsCPU
  <2>c. ASSUME NEW p \in Proc, NEW op, NEW b, NEW l, do_blk_request(p, op, b, l) PROVE Turn
    <3>1. cpu' = p /\ (falling' = p \/ falling' = NULL) /\ intr' = (intr /\ FlagsRestored(queue'))
      BY <2>c, Zenon DEF do_blk_request
    <3>2. intr' \in BOOLEAN
      BY <3>1, Zenon
    <3>. QED
      BY <3>1, <3>2, Zenon
  <2> HIDE DEF Turn
  <2>1. ASSUME NEW p \in Proc, GetblkStep(p) PROVE Turn
    BY <2>1, <2>a, <2>b, <2>c, Zenon DEF GetblkStep, GetblkWaits, GetblkHits, NoFree, FreeIsLocked, Evicts, Evicted, Takes, ReadDone, Reads, Sleeps
  <2>2. ASSUME NEW p \in Proc, SyncStep(p) PROVE Turn
    BY <2>2, <2>a, <2>b, <2>c, Zenon DEF SyncStep, SyncLocks, TakeSync, Sleeps, SyncWrites, SyncWritten, SyncDone, Selected
  <2>3. ASSUME NEW p \in Proc, DirtyIsLocked(p) \/ sync_buffers(p) PROVE Turn
    BY <2>3, <2>a, <2>b, Zenon DEF DirtyIsLocked, Sleeps, sync_buffers
  <2>4. ASSUME NEW p \in Proc, NEW b \in Block, bread(p, b) \/ sync_buffers_select(p, b) PROVE Turn
    BY <2>4, <2>b, <2>c, Zenon DEF bread, sync_buffers_select
  <2>5. ASSUME NEW p \in Proc, NEW w \in BOOLEAN, Releases(p, w) PROVE Turn
    BY <2>5, <2>a, Zenon DEF Releases
  <2>6. ASSUME FlusherStep PROVE Turn
    BY <2>0, <2>6, <2>a, <2>b, <2>c, Zenon DEF FlusherStep, FlusherSleeps, FlusherLocks, TakeSync, Sleeps, FlusherDone,
                                FlusherWrites, FlusherWritten, FlusherEnds
  <2>7. ASSUME NEW ok \in BOOLEAN, Interrupt(ok) PROVE Turn
    BY <2>0, <2>7, Zenon DEF Interrupt, turn, Turn
  <2>8. ASSUME NEW p \in Proc, FallsAsleep(p) PROVE Turn
    BY <2>0, <2>8, Zenon DEF FallsAsleep, Turn
  <2>9. ASSUME UNCHANGED vars PROVE Turn
    BY <2>0, <2>9, Zenon DEF vars, Turn
  <2>10. Turn
    BY <2>1, <2>2, <2>3, <2>4, <2>5, <2>6, <2>7, <2>8, <2>9, Zenon DEF Next, Step
  <2>. QED
    BY <2>10, Zenon DEF Turn

\* What the flushes keep: sync_resource, their counts, the first buffer of a
\* round of kbdflushd(); and what sync_buffers() owes.
<1>NextFlush.
    ASSUME Whole, [Next]_vars
    PROVE  /\ lock' \in Proc \cup {NULL} /\ flushed' \in [Proc -> Nat]
           /\ first' \in Buffer \cup {NULL} /\ owed' \in [Proc -> SUBSET Block]
  <2> USE <1>NextFlush
  <2>0. /\ lock \in Proc \cup {NULL} /\ flushed \in [Proc -> Nat]
        /\ first \in Buffer \cup {NULL} /\ owed \in [Proc -> SUBSET Block]
        /\ kbdflushd \in Proc
    BY Sizes, Zenon DEF Whole, Locals
  <2>n. 0 \in Nat /\ 1 \in Nat /\ NR_BUF_RECLAIM \in Nat /\ \A m \in Nat : m + 1 \in Nat
    BY Sizes
  <2> DEFINE Counts == \E p \in Proc, m \in Nat : flushed' = [flushed EXCEPT ![p] = m]
             Owes == \E p \in Proc, S \in SUBSET Block : owed' = [owed EXCEPT ![p] = S]
             Flush == /\ lock' = lock \/ lock' \in Proc \cup {NULL}
                      /\ flushed' = flushed \/ Counts
                      /\ first' = first \/ first' \in Buffer \cup {NULL}
                      /\ owed' = owed \/ Owes \/ \E B : owed' = [q \in Proc |-> owed[q] \ {B}]
  <2> HIDE DEF Counts, Owes
  <2>1. ASSUME NEW p \in Proc, GetblkStep(p) PROVE UNCHANGED flush /\ owed' = owed
    BY <2>1, Zenon DEF GetblkStep, GetblkWaits, GetblkHits, NoFree, FreeIsLocked, Evicts, Evicted, Takes, ReadDone, ghost
  <2>2. ASSUME NEW p \in Proc, SyncStep(p) PROVE Flush
    <3>1. CASE SyncLocks(p)
      BY <3>1, Zenon DEF SyncLocks, TakeSync, ghost
    <3>2. CASE SyncWrites(p) \/ Selected(p)
      BY <3>2, Zenon DEF SyncWrites, Selected, flush, ghost
    <3>3. CASE SyncWritten(p)
      <4>1. flushed' = flushed \/ flushed' = [flushed EXCEPT ![p] = 1]
        BY <3>3, Zenon DEF SyncWritten
      <4>2. flushed' = flushed \/ Counts
        BY <4>1, <2>n, Zenon DEF Counts
      <4>. QED
        BY <3>3, <4>2, Zenon DEF SyncWritten, ghost
    <3>4. CASE SyncDone(p)
      <4>1. Counts
        BY <3>4, <2>n, Zenon DEF SyncDone, Counts
      <4>2. Owes
        BY <3>4, Zenon DEF SyncDone, Owes
      <4>. QED
        BY <3>4, <4>1, <4>2, Zenon DEF SyncDone
    <3>. QED
      BY <2>2, <3>1, <3>2, <3>3, <3>4, Zenon DEF SyncStep
  <2>3. ASSUME NEW p \in Proc, FallsAsleep(p) \/ DirtyIsLocked(p) PROVE UNCHANGED flush /\ owed' = owed
    BY <2>3, Zenon DEF FallsAsleep, DirtyIsLocked, ghost
  <2>4. ASSUME NEW p \in Proc, NEW b \in Block, bread(p, b) \/ sync_buffers_select(p, b)
        PROVE UNCHANGED flush /\ owed' = owed
    BY <2>4, Zenon DEF bread, sync_buffers_select, ghost
  <2>5. ASSUME NEW p \in Proc, sync_buffers(p) PROVE Flush
    BY <2>5, Zenon DEF sync_buffers, flush, Owes
  <2>6. ASSUME NEW p \in Proc, NEW w \in BOOLEAN, Releases(p, w) PROVE Flush
    <3>1. owed' = owed \/ owed' = [q \in Proc |-> owed[q] \ {c.block[mine[p]]}]
      BY <2>6, Zenon DEF Releases
    <3>. QED
      BY <2>6, <3>1, Zenon DEF Releases, flush
  <2>7. ASSUME FlusherStep PROVE Flush
    <3>a. ASSUME FlusherEnds PROVE Counts /\ lock' = NULL /\ first' = NULL
      BY <2>0, <2>n, <3>a, Zenon DEF FlusherEnds, Counts
    <3>1. CASE FlusherSleeps
      BY <3>1, Zenon DEF FlusherSleeps, flush, ghost
    <3>2. CASE FlusherLocks
      BY <2>0, <3>2, Zenon DEF FlusherLocks, TakeSync, ghost
    <3>3. CASE FlusherDone
      BY <3>3, <3>a, Zenon DEF FlusherDone, ghost
    <3>4. CASE FlusherWrites
      <4>1. FirstDirty \in Buffer
        BY <3>4, Popping, ListsOf, NowView, Zenon DEF FlusherWrites, DirtyFound, FirstDirty, Whole, Base
      <4>. QED
        BY <3>4, <4>1, Zenon DEF FlusherWrites, ghost
    <3>5. CASE FlusherWritten
      <4> DEFINE n == flushed[kbdflushd] + 1
      <4>1. n \in Nat
        BY <2>0
      <4>2. UNCHANGED flush \/ FlusherEnds
            \/ (flushed' = [flushed EXCEPT ![kbdflushd] = IF n < NR_BUF_RECLAIM THEN n ELSE NR_BUF_RECLAIM] /\ UNCHANGED <<lock, first>>)
        BY <3>5, Zenon DEF FlusherWritten
      <4>3. owed' = owed
        BY <3>5, Zenon DEF FlusherWritten, ghost
      <4> HIDE DEF n
      <4>4. ASSUME flushed' = [flushed EXCEPT ![kbdflushd] = IF n < NR_BUF_RECLAIM THEN n ELSE NR_BUF_RECLAIM] PROVE Counts
        BY <2>0, <2>n, <4>1, <4>4, Zenon DEF Counts
      <4>. QED
        BY <3>a, <4>2, <4>3, <4>4, Zenon DEF flush
    <3>. QED
      BY <2>7, <3>1, <3>2, <3>3, <3>4, <3>5, Zenon DEF FlusherStep
  <2>8. ASSUME NEW ok \in BOOLEAN, Interrupt(ok) PROVE UNCHANGED flush /\ owed' = owed
    BY <2>8, Zenon DEF Interrupt, ghost
  <2>9. ASSUME UNCHANGED vars PROVE UNCHANGED flush /\ owed' = owed
    BY <2>9, Zenon DEF vars, flush, ghost
  <2>10. Flush
    BY <2>1, <2>2, <2>3, <2>4, <2>5, <2>6, <2>7, <2>8, <2>9, Zenon DEF Next, Step, flush
  <2>11. flushed' \in [Proc -> Nat]
    BY <2>0, <2>10, Zenon DEF Counts
  <2>12. owed' \in [Proc -> SUBSET Block]
    BY <2>0, <2>10, Zenon DEF Owes
  <2>. QED
    BY <2>0, <2>10, <2>11, <2>12, Zenon

<1> SUFFICES ASSUME Whole, [Next]_vars PROVE Whole'
  BY Zenon
<1>1. Base' /\ RInv' /\ CInv'
  BY NextBase, NextRInv, NextCInv, Zenon DEF Whole
<1>2. Locals'
  BY <1>NextDisk, <1>NextTurn, <1>NextFlush, Zenon DEF Locals
<1>. QED
  BY <1>1, <1>2, Zenon DEF Whole

\* Every variable of the cache keeps its type in every environment; on the way,
\* the block that a transfer writes is one, the buffer being some block's.
THEOREM BufferCacheTyped == Spec => []TypeOK
<1>1. Whole => TypeOK
  <2> SUFFICES ASSUME Whole PROVE TypeOK
    BY Zenon
  <2>1. c \in CType /\ IsInjective(c.free) /\ IsInjective(c.dirty)
    BY Zenon DEF Whole, Base, IInv, CShape
  <2>2. k \in KType /\ queue \in Seq(Req) /\ want \in [Proc -> Block \cup {NULL}]
    BY Zenon DEF Whole, Base, Typed, TInv
  <2>3. pc \in [Proc -> PC] /\ mine \in [Proc -> Buffer \cup {NULL}]
    BY Zenon DEF Whole, Base, IInv, Inv, Places
  <2>4. res \in [Proc -> {"none", "ok", "err"}] /\ Locals
    BY Zenon DEF Whole, RInv
  <2>. QED
    BY <2>1, <2>2, <2>3, <2>4, Zenon DEF TypeOK, CType, Req, Locals
<1>. QED
  BY <1>1, InitWhole, NextWhole, PTL DEF Spec

\* The cache is the disk, whatever evictions, flushes and failed transfers
\* there were: what bread() returns is the wanted block with what was last
\* written to it, and what the disk does not have is in a dirty buffer; where
\* those who flush and those who read keep out of each other's way (Careful).
THEOREM CoherentHolds == Spec => [](Careful(env) => Coherent)
<1>1. Whole => (Careful(env) => Coherent)
  <2> SUFFICES ASSUME Whole, Careful(env) PROVE Coherent
    BY Zenon
  <2>1. Contents /\ \A p \in Proc : Holds(p)
    BY Zenon DEF Whole, CInv
  <2>2. c.VALID \subseteq c.current /\ c.DIRTY \subseteq c.VALID
    BY <2>1, Zenon DEF Contents
  <2>3. ASSUME NEW p \in Proc, pc[p] = "hold"
        PROVE mine[p] \in c.VALID \cap c.current /\ c.block[mine[p]] = want[p]
    BY <2>1, <2>2, <2>3, Zenon DEF Holds
  <2>4. ASSUME NEW b \in Block \ disk PROVE Found(b) \cap c.DIRTY \cap c.VALID \cap c.current # {}
    <3>1. PICK x \in c.DIRTY : c.block[x] = b
      BY <2>1, <2>4, Zenon DEF Contents
    <3>2. c.DIRTY \subseteq Buffer
      BY Zenon DEF Whole, Base, IInv, CShape, CType
    <3>. QED
      BY <2>2, <3>1, <3>2, Zenon DEF Found
  <2>. QED
    BY <2>3, <2>4, Zenon DEF Coherent
<1>. QED
  BY <1>1, InitWhole, NextWhole, PTL DEF Spec

\* sync_buffers() returns with everything on the disk that was written before
\* the call, also what another flush had taken off the dirty list by then, in
\* an environment where the cache is coherent.
THEOREM SyncIsDurableHolds == Spec /\ Careful(env) => SyncIsDurable

\* The environment does not change.
<1>NextEnv. [Next]_vars => env' = env
  <2> SUFFICES ASSUME [Next]_vars PROVE env' = env
    BY Zenon
  <2> USE DEF ghost
  <2>1. ASSUME NEW p \in Proc, GetblkStep(p) PROVE env' = env
    BY <2>1, Zenon DEF GetblkStep, GetblkWaits, GetblkHits, NoFree, FreeIsLocked, Evicts, Evicted, Takes, ReadDone
  <2>2. ASSUME NEW p \in Proc, SyncStep(p) PROVE env' = env
    BY <2>2, Zenon DEF SyncStep, SyncLocks, SyncWrites, SyncWritten, SyncDone, Selected
  <2>3. ASSUME NEW p \in Proc, FallsAsleep(p) \/ DirtyIsLocked(p) \/ sync_buffers(p) PROVE env' = env
    BY <2>3, Zenon DEF FallsAsleep, DirtyIsLocked, sync_buffers
  <2>4. ASSUME NEW p \in Proc, NEW b \in Block, bread(p, b) \/ sync_buffers_select(p, b) PROVE env' = env
    BY <2>4, Zenon DEF bread, sync_buffers_select
  <2>5. ASSUME NEW p \in Proc, NEW w \in BOOLEAN, Releases(p, w) PROVE env' = env
    BY <2>5, Zenon DEF Releases
  <2>6. ASSUME FlusherStep PROVE env' = env
    BY <2>6, Zenon DEF FlusherStep, FlusherSleeps, FlusherLocks, FlusherDone, FlusherWrites, FlusherWritten
  <2>7. ASSUME NEW ok \in BOOLEAN, Interrupt(ok) PROVE env' = env
    BY <2>7, Zenon DEF Interrupt
  <2>. QED
    BY <2>1, <2>2, <2>3, <2>4, <2>5, <2>6, <2>7, Zenon DEF Next, Step, vars

\* Who finds the dirty list empty, having sync_resource, finds no dirty buffer:
\* another flush, which could have one off the list, has sync_resource too.
<1>AllWritten.
    ASSUME Whole, NEW p \in Proc, pc[p] = "dirty", c.dirty = <<>>
    PROVE  c.DIRTY = {}
  <2> USE <1>AllWritten
  <2> SUFFICES ASSUME NEW x \in c.DIRTY PROVE FALSE
    BY Zenon
  <2>1. dirty = {}
    BY DEF dirty, Range
  <2>2. PICK q \in Proc : mine[q] = x /\ pc[q] \in ByFlush
    BY <2>1, Zenon DEF Whole, Base, IInv, Inv, Lists
  <2>3. pc[q] \in {"dirty", "write", "kdirty", "kwrite"} /\ pc[p] \in {"dirty", "write", "kdirty", "kwrite"}
    BY <2>2, Zenon DEF ByFlush
  <2>4. lock = q /\ lock = p
    BY <2>3, Zenon DEF Whole, CInv, Uses
  <2>5. pc[q] \in {"write", "kwrite"} /\ pc[q] = "dirty"
    BY <2>2, <2>4, Zenon DEF ByFlush
  <2>. QED
    BY <2>5

\* A process leaves its place by its own steps.
<1>Lone.
    ASSUME Whole, NEW p \in Proc, NEW q \in Proc, NEW l, Goto(q, l), p # q
    PROVE  pc'[p] = pc[p]
  BY <1>Lone, Zenon DEF Whole, Base, IInv, Inv, Places, Goto

\* sync_buffers() returns from its loop in one place.
<1>Returns.
    ASSUME Whole, [Next]_vars, NEW p \in Proc, pc[p] = "dirty", pc'[p] = "user"
    PROVE  SyncDone(p)
  <2> USE <1>Returns
  <2>0. pc'[p] # pc[p]
    OBVIOUS
  <2>a. ASSUME NEW q \in Proc, NEW l, NEW m, At(q, m), m # "dirty", Goto(q, l) PROVE FALSE
    <3>1. q # p
      BY <2>a, Zenon DEF At
    <3>. QED
      BY <2>0, <2>a, <3>1, <1>Lone, Zenon
  <2>b. "getblk" # "dirty" /\ "getfree" # "dirty" /\ "evict" # "dirty" /\ "read" # "dirty" /\ "hold" # "dirty"
        /\ "user" # "dirty" /\ "lock" # "dirty" /\ "write" # "dirty" /\ "select" # "dirty" /\ "ksleep" # "dirty"
        /\ "klock" # "dirty" /\ "kdirty" # "dirty" /\ "kwrite" # "dirty" /\ "write" # "user"
    OBVIOUS
  <2>c. ASSUME NEW q \in Proc, NEW l, InGetFree(q), Goto(q, l) PROVE FALSE
    BY <2>a, <2>b, <2>c, Zenon DEF InGetFree
  <2>d. ASSUME NEW q, NEW op, NEW b, NEW l, do_blk_request(q, op, b, l) PROVE Goto(q, l)
    BY <2>d, Zenon DEF do_blk_request
  <2>e. ASSUME NEW q, NEW b, NEW cc, Reads(q, b, cc) PROVE \E l : Goto(q, l)
    BY <2>d, <2>e, Zenon DEF Reads
  <2>1. ASSUME NEW q \in Proc, GetblkStep(q) PROVE FALSE
    <3>1. CASE GetblkWaits(q)
      BY <2>0, <3>1, Zenon DEF GetblkWaits
    <3>2. CASE GetblkHits(q)
      BY <2>a, <2>b, <2>e, <3>2, Zenon DEF GetblkHits
    <3>3. CASE NoFree(q) \/ FreeIsLocked(q)
      BY <2>c, <3>3, Zenon DEF NoFree, FreeIsLocked
    <3>4. CASE Evicts(q)
      BY <2>c, <2>d, <3>4, Zenon DEF Evicts
    <3>5. CASE Evicted(q)
      BY <2>a, <2>b, <3>5, Zenon DEF Evicted
    <3>6. CASE Takes(q)
      BY <2>c, <2>e, <3>6, Zenon DEF Takes
    <3>7. CASE ReadDone(q)
      BY <2>a, <2>b, <3>7, Zenon DEF ReadDone
    <3>. QED
      BY <2>1, <3>1, <3>2, <3>3, <3>4, <3>5, <3>6, <3>7, Zenon DEF GetblkStep
  <2>2. ASSUME NEW q \in Proc, SyncStep(q) PROVE SyncDone(p)
    <3>1. CASE SyncLocks(q)
      BY <2>0, <2>a, <2>b, <3>1, Zenon DEF SyncLocks, TakeSync
    <3>2. CASE SyncWrites(q)
      <4>1. Goto(q, "write")
        BY <2>d, <3>2, Zenon DEF SyncWrites
      <4>2. q = p
        BY <2>0, <4>1, <1>Lone, Zenon
      <4>3. pc'[p] = "write"
        BY <4>1, <4>2, Zenon DEF Goto, Whole, Base, IInv, Inv, Places
      <4>. QED
        BY <4>3
    <3>3. CASE SyncWritten(q)
      BY <2>a, <2>b, <3>3, Zenon DEF SyncWritten
    <3>4. CASE SyncDone(q)
      <4>1. q = p
        BY <2>0, <3>4, <1>Lone, Zenon DEF SyncDone
      <4>. QED
        BY <3>4, <4>1, Zenon
    <3>5. CASE Selected(q)
      BY <2>a, <2>b, <3>5, Zenon DEF Selected
    <3>. QED
      BY <2>2, <3>1, <3>2, <3>3, <3>4, <3>5, Zenon DEF SyncStep
  <2>3. ASSUME NEW q \in Proc, FallsAsleep(q) \/ DirtyIsLocked(q) PROVE FALSE
    BY <2>0, <2>3, Zenon DEF FallsAsleep, DirtyIsLocked
  <2>4. ASSUME NEW q \in Proc, NEW b \in Block, bread(q, b) \/ sync_buffers_select(q, b) PROVE FALSE
    BY <2>a, <2>b, <2>d, <2>4, Zenon DEF bread, sync_buffers_select
  <2>5. ASSUME NEW q \in Proc, sync_buffers(q) PROVE FALSE
    BY <2>a, <2>b, <2>5, Zenon DEF sync_buffers
  <2>6. ASSUME NEW q \in Proc, NEW w \in BOOLEAN, Releases(q, w) PROVE FALSE
    BY <2>a, <2>b, <2>6, Zenon DEF Releases
  <2>7. ASSUME FlusherStep PROVE FALSE
    BY <2>0, <2>7, <2>a, <2>b, <2>d, Sizes, Zenon DEF FlusherStep, FlusherSleeps, FlusherLocks, TakeSync, FlusherDone,
                                FlusherWrites, FlusherWritten, FlusherEnds
  <2>8. ASSUME NEW ok \in BOOLEAN, Interrupt(ok) PROVE FALSE
    BY <2>0, <2>8, Zenon DEF Interrupt
  <2>. QED
    BY <2>0, <2>1, <2>2, <2>3, <2>4, <2>5, <2>6, <2>7, <2>8, Zenon DEF Next, Step, vars
<1> DEFINE Durable == \A p \in Proc : pc[p] = "dirty" /\ pc'[p] = "user" => owed[p] \subseteq disk
           Sure == Whole /\ Careful(env)
<1>1. Init /\ Careful(env) => Sure
  BY InitWhole, Zenon
<1>2. Sure /\ [Next]_vars => Sure'
  <2> SUFFICES ASSUME Sure, [Next]_vars PROVE Sure'
    BY Zenon
  <2>1. Whole' /\ env' = env
    BY NextWhole, <1>NextEnv, Zenon
  <2>2. Careful(env')
    BY <2>1, Zenon
  <2>. QED
    BY <2>1, <2>2, Zenon
<1>3. Sure /\ [Next]_vars => [Durable]_vars
  <2> SUFFICES ASSUME Sure, [Next]_vars, NEW p \in Proc, pc[p] = "dirty", pc'[p] = "user"
               PROVE owed[p] \subseteq disk
    BY Zenon
  <2>1. c.dirty = <<>>
    BY <1>Returns, Zenon DEF SyncDone
  <2>2. c.DIRTY = {}
    BY <2>1, <1>AllWritten, Zenon
  <2>3. Contents
    BY Zenon DEF Whole, CInv
  <2>4. Block \subseteq disk
    BY <2>2, <2>3, Zenon DEF Contents
  <2>5. owed[p] \subseteq Block
    BY Zenon DEF Whole, Locals
  <2>. QED
    BY <2>4, <2>5, Zenon
<1> HIDE DEF Sure, Durable
<1>4. Spec /\ Careful(env) => [][Durable]_vars
  BY <1>1, <1>2, <1>3, PTL DEF Spec
<1>. QED
  BY <1>4 DEF SyncIsDurable, Durable

=============================================================================
