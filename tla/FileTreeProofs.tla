---------------------------- MODULE FileTreeProofs ----------------------------
(* Paths and trees: what the proofs about the back end and the shell need  *)
(* of prefixes, of the path a file has after a move, and of the changes    *)
(* that system calls make to a tree.                                       *)
EXTENDS FileTree, SequenceTheorems, WellFoundedInduction, TLAPS

-----------------------------------------------------------------------------
(* Paths.                                                                  *)

(* A path is a sequence of names of bounded length.                        *)
LEMMA PathIsSequence ==
  \A p : p \in Path <=> p \in Seq(Names) /\ Len(p) <= Depth
<1>1. ASSUME NEW p, p \in Path
      PROVE  p \in Seq(Names) /\ Len(p) <= Depth
  BY <1>1, DepthAssumption DEF Path
<1>2. ASSUME NEW p, p \in Seq(Names), Len(p) <= Depth
      PROVE  p \in Path
  <2>1. Len(p) \in 0..Depth /\ p \in [1..Len(p) -> Names]
    BY <1>2, LenProperties, DepthAssumption
  <2> QED BY <2>1 DEF Path
<1> QED BY <1>1, <1>2

(* Two paths are equal when they have the same names.                      *)
LEMMA PathEqual ==
  \A p, q \in Path :
    p = q <=> Len(p) = Len(q) /\ \A i \in 1..Len(p) : p[i] = q[i]
BY PathIsSequence, SeqEqual

LEMMA PathTypes ==
  /\ << >> \in Path
  /\ \A p \in Path : Len(p) \in 0..Depth /\ \A i \in 1..Len(p) : p[i] \in Names
  /\ \A p \in Path : p = << >> <=> Len(p) = 0
<1>1. << >> \in Path
  <2>1. << >> \in Seq(Names) /\ Len(<< >>) = 0
    OBVIOUS
  <2>2. Len(<< >>) <= Depth
    BY <2>1, DepthAssumption
  <2> QED BY <2>1, <2>2, PathIsSequence
<1>2. ASSUME NEW p \in Path
      PROVE  /\ Len(p) \in 0..Depth /\ \A i \in 1..Len(p) : p[i] \in Names
             /\ p = << >> <=> Len(p) = 0
  <2>1. p \in Seq(Names) /\ Len(p) <= Depth /\ Len(p) \in Nat
    BY PathIsSequence, LenProperties
  <2>2. \A i \in 1..Len(p) : p[i] \in Names
    BY <2>1, ElementOfSeq
  <2>3. p = << >> <=> Len(p) = 0
    BY <2>1, EmptySeq
  <2> QED BY <2>1, <2>2, <2>3, DepthAssumption
<1> QED BY <1>1, <1>2

LEMMA PrefixPointwise ==
  \A p, q \in Path :
    IsPrefix(p, q) <=> Len(p) <= Len(q) /\ \A i \in 1..Len(p) : p[i] = q[i]
<1> SUFFICES ASSUME NEW p \in Path, NEW q \in Path
             PROVE  IsPrefix(p, q) <=> Len(p) <= Len(q) /\ \A i \in 1..Len(p) : p[i] = q[i]
  OBVIOUS
<1>1. p \in Seq(Names) /\ q \in Seq(Names) /\ Len(p) \in Nat /\ Len(q) \in Nat
  BY PathIsSequence, LenProperties
<1>2. CASE Len(p) <= Len(q)
  <2> DEFINE u == SubSeq(p, 1, Len(p))
             v == SubSeq(q, 1, Len(p))
  <2>1. /\ u \in Seq(Names) /\ Len(u) = Len(p) /\ \A i \in 1..Len(p) : u[i] = p[i]
        /\ v \in Seq(Names) /\ Len(v) = Len(p) /\ \A i \in 1..Len(p) : v[i] = q[i]
    BY <1>1, <1>2, SubSeqProperties
  <2> HIDE DEF u, v
  <2>2. u = v <=> \A i \in 1..Len(p) : p[i] = q[i]
    BY <2>1, <1>1, SeqEqual
  <2> QED BY <2>2, <1>2 DEF IsPrefix, u, v
<1> QED BY <1>2 DEF IsPrefix

(* The names of a path with one name more, and of the path without its     *)
(* last name.                                                              *)
LEMMA AppendPath ==
  \A p \in Path : \A n \in Names : Len(p) < Depth =>
    /\ Append(p, n) \in Path
    /\ Append(p, n) # << >>
    /\ Len(Append(p, n)) = Len(p) + 1
    /\ Append(p, n)[Len(p) + 1] = n
    /\ \A i \in 1..Len(p) : Append(p, n)[i] = p[i]
<1> SUFFICES ASSUME NEW p \in Path, NEW n \in Names, Len(p) < Depth
             PROVE  /\ Append(p, n) \in Path
                    /\ Append(p, n) # << >>
                    /\ Len(Append(p, n)) = Len(p) + 1
                    /\ Append(p, n)[Len(p) + 1] = n
                    /\ \A i \in 1..Len(p) : Append(p, n)[i] = p[i]
  OBVIOUS
<1>1. p \in Seq(Names) /\ Len(p) \in Nat
  BY PathIsSequence, LenProperties
<1> DEFINE c == Append(p, n)
<1>2. /\ c \in Seq(Names) /\ c # << >> /\ Len(c) = Len(p) + 1
      /\ \A i \in 1..Len(p) : c[i] = p[i]
      /\ c[Len(p) + 1] = n
  BY <1>1, AppendProperties
<1> HIDE DEF c
<1>3. c \in Path
  BY <1>1, <1>2, PathIsSequence, DepthAssumption
<1> QED BY <1>2, <1>3 DEF c

LEMMA ParentPath ==
  \A p \in Path : p # << >> =>
    /\ Parent(p) \in Path
    /\ Len(Parent(p)) = Len(p) - 1
    /\ \A i \in 1..(Len(p) - 1) : Parent(p)[i] = p[i]
    /\ Last(p) \in Names /\ Last(p) = p[Len(p)]
    /\ p = Append(Parent(p), Last(p))
<1> SUFFICES ASSUME NEW p \in Path, p # << >>
             PROVE  /\ Parent(p) \in Path
                    /\ Len(Parent(p)) = Len(p) - 1
                    /\ \A i \in 1..(Len(p) - 1) : Parent(p)[i] = p[i]
                    /\ Last(p) \in Names /\ Last(p) = p[Len(p)]
                    /\ p = Append(Parent(p), Last(p))
  OBVIOUS
<1>1. p \in Seq(Names) /\ Len(p) \in 1..Depth
  BY PathIsSequence, PathTypes
<1>2. /\ Parent(p) \in Seq(Names) /\ Len(Parent(p)) = Len(p) - 1
      /\ \A i \in 1..(Len(p) - 1) : Parent(p)[i] = p[i]
  <2>1. Len(p) - 1 \in Int /\ \A i \in 1..(Len(p) - 1) : p[i] \in Names
    BY <1>1, PathTypes, DepthAssumption
  <2> DEFINE k == Len(p) - 1
  <2>2. /\ SubSeq(p, 1, k) \in Seq(Names)
        /\ Len(SubSeq(p, 1, k)) = IF 1 <= k THEN k - 1 + 1 ELSE 0
        /\ \A i \in 1..(k - 1 + 1) : SubSeq(p, 1, k)[i] = p[1 + i - 1]
    <3>1. k \in Int /\ \A i \in 1..k : p[i] \in Names
      BY <2>1
    <3> HIDE DEF k
    <3> QED BY <3>1, SubSeqProperties
  <2>3. k \in Nat /\ k = Len(p) - 1
    BY <1>1, DepthAssumption
  <2>4. Parent(p) = SubSeq(p, 1, k)
    BY DEF Parent, Front
  <2> HIDE DEF k
  <2> QED BY <2>2, <2>3, <2>4
<1>3. Last(p) \in Names /\ Last(p) = p[Len(p)]
  BY <1>1, ElementOfSeq DEF Last
<1>4. Parent(p) \in Path
  BY <1>1, <1>2, PathIsSequence, DepthAssumption
<1>5. p = Append(Parent(p), Last(p))
  <2> DEFINE c == Append(Parent(p), Last(p))
  <2>1. Len(p) \in Nat /\ Len(p) >= 1 /\ Len(p) <= Depth
    BY <1>1, DepthAssumption
  <2>2. /\ c \in Path /\ Len(c) = Len(Parent(p)) + 1
        /\ c[Len(Parent(p)) + 1] = Last(p)
        /\ \A i \in 1..Len(Parent(p)) : c[i] = Parent(p)[i]
    BY <1>2, <1>3, <1>4, <2>1, AppendPath, DepthAssumption
  <2> HIDE DEF c
  <2>3. Len(c) = Len(p) /\ \A i \in 1..Len(p) : c[i] = p[i]
    BY <1>2, <1>3, <2>1, <2>2
  <2>4. c = p
    BY <2>2, <2>3, PathEqual
  <2> QED BY <2>4 DEF c
<1> QED BY <1>2, <1>3, <1>4, <1>5

-----------------------------------------------------------------------------
(* Prefixes.                                                               *)

LEMMA PrefixOrder ==
  /\ \A p \in Path : IsPrefix(p, p)
  /\ \A p, q \in Path : IsPrefix(p, q) => Len(p) <= Len(q)
  /\ \A p, q \in Path : IsPrefix(p, q) /\ Len(p) = Len(q) => p = q
  /\ \A p, q, r \in Path : IsPrefix(p, q) /\ IsPrefix(q, r) => IsPrefix(p, r)
<1>1. \A p \in Path : IsPrefix(p, p)
  BY PrefixPointwise, PathTypes
<1>2. \A p, q \in Path : IsPrefix(p, q) /\ Len(p) = Len(q) => p = q
  BY PrefixPointwise, PathTypes, PathEqual
<1>3. \A p, q, r \in Path : IsPrefix(p, q) /\ IsPrefix(q, r) => IsPrefix(p, r)
  <2> SUFFICES ASSUME NEW p \in Path, NEW q \in Path, NEW r \in Path,
                      IsPrefix(p, q), IsPrefix(q, r)
               PROVE  Len(p) <= Len(r) /\ \A i \in 1..Len(p) : p[i] = r[i]
    BY PrefixPointwise
  <2> QED BY PrefixPointwise, PathTypes
<1> QED BY <1>1, <1>2, <1>3, PrefixPointwise

LEMMA EmptyPrefix ==
  \A p \in Path : IsPrefix(<< >>, p)
BY PrefixPointwise, PathTypes

(* Of two prefixes of a path one is a prefix of the other.                 *)
LEMMA PrefixesComparable ==
  \A p, q, r \in Path : IsPrefix(p, r) /\ IsPrefix(q, r) /\ Len(p) <= Len(q) => IsPrefix(p, q)
<1> SUFFICES ASSUME NEW p \in Path, NEW q \in Path, NEW r \in Path,
                    IsPrefix(p, r), IsPrefix(q, r), Len(p) <= Len(q)
             PROVE  \A i \in 1..Len(p) : p[i] = q[i]
  BY PrefixPointwise
<1> QED BY PrefixPointwise, PathTypes

(* What lies strictly below p lies at or below a child of p, and its       *)
(* parent at or below p.                                                   *)
LEMMA PrefixChild ==
  \A p, q \in Path : IsPrefix(p, q) /\ p # q =>
    /\ Len(p) < Len(q) /\ Len(p) < Depth /\ q # << >>
    /\ q[Len(p) + 1] \in Names
    /\ IsPrefix(Append(p, q[Len(p) + 1]), q)
    /\ IsPrefix(p, Parent(q))
<1> SUFFICES ASSUME NEW p \in Path, NEW q \in Path, IsPrefix(p, q), p # q
             PROVE  /\ Len(p) < Len(q) /\ Len(p) < Depth /\ q # << >>
                    /\ q[Len(p) + 1] \in Names
                    /\ IsPrefix(Append(p, q[Len(p) + 1]), q)
                    /\ IsPrefix(p, Parent(q))
  OBVIOUS
<1>1. /\ Len(p) \in Nat /\ Len(q) \in Nat /\ Len(p) < Len(q) /\ Len(q) <= Depth
      /\ q # << >> /\ \A i \in 1..Len(p) : p[i] = q[i]
  BY PrefixOrder, PrefixPointwise, PathTypes, DepthAssumption
<1>2. q[Len(p) + 1] \in Names
  BY <1>1, PathTypes
<1>3. IsPrefix(Append(p, q[Len(p) + 1]), q)
  <2> DEFINE c == Append(p, q[Len(p) + 1])
  <2>1. /\ c \in Path /\ Len(c) = Len(p) + 1 /\ c[Len(p) + 1] = q[Len(p) + 1]
        /\ \A i \in 1..Len(p) : c[i] = p[i]
    BY <1>1, <1>2, AppendPath, DepthAssumption
  <2> HIDE DEF c
  <2>2. Len(c) <= Len(q) /\ \A i \in 1..Len(c) : c[i] = q[i]
    BY <1>1, <2>1
  <2>3. IsPrefix(c, q)
    BY <2>1, <2>2, PrefixPointwise
  <2> QED BY <2>3 DEF c
<1>4. IsPrefix(p, Parent(q))
  BY <1>1, ParentPath, PrefixPointwise
<1> QED BY <1>1, <1>2, <1>3, <1>4, DepthAssumption

LEMMA PrefixOfChild ==
  \A p \in Path : \A n \in Names : Len(p) < Depth =>
    /\ Append(p, n) \in Path /\ Append(p, n) # << >> /\ Append(p, n) # p
    /\ Len(Append(p, n)) = Len(p) + 1
    /\ Parent(Append(p, n)) = p /\ Last(Append(p, n)) = n
    /\ IsPrefix(p, Append(p, n))
    /\ \A q \in Path : IsPrefix(Append(p, n), q) =>
         IsPrefix(p, q) /\ p # q /\ q[Len(p) + 1] = n
    /\ \A q \in Path : IsPrefix(q, Append(p, n)) => q = Append(p, n) \/ IsPrefix(q, p)
<1> SUFFICES ASSUME NEW p \in Path, NEW n \in Names, Len(p) < Depth
             PROVE  /\ Append(p, n) \in Path /\ Append(p, n) # << >> /\ Append(p, n) # p
                    /\ Len(Append(p, n)) = Len(p) + 1
                    /\ Parent(Append(p, n)) = p /\ Last(Append(p, n)) = n
                    /\ IsPrefix(p, Append(p, n))
                    /\ \A q \in Path : IsPrefix(Append(p, n), q) =>
                         IsPrefix(p, q) /\ p # q /\ q[Len(p) + 1] = n
                    /\ \A q \in Path : IsPrefix(q, Append(p, n)) =>
                         q = Append(p, n) \/ IsPrefix(q, p)
  OBVIOUS
<1> DEFINE c == Append(p, n)
<1>1. /\ c \in Path /\ c # << >> /\ Len(c) = Len(p) + 1 /\ c[Len(p) + 1] = n
      /\ \A i \in 1..Len(p) : c[i] = p[i]
  BY AppendPath
<1>2. Len(p) \in Nat
  BY PathTypes
<1> HIDE DEF c
<1>3. Last(c) = n /\ c # p
  BY <1>1, <1>2 DEF Last
<1>4. Parent(c) = p
  BY <1>1, <1>2, ParentPath, PathEqual
<1>5. IsPrefix(p, c)
  BY <1>1, <1>2, PrefixPointwise
<1>6. \A q \in Path : IsPrefix(c, q) => IsPrefix(p, q) /\ p # q /\ q[Len(p) + 1] = n
  <2> SUFFICES ASSUME NEW q \in Path, IsPrefix(c, q)
               PROVE  IsPrefix(p, q) /\ p # q /\ q[Len(p) + 1] = n
    OBVIOUS
  <2>1. Len(c) <= Len(q) /\ \A i \in 1..Len(c) : c[i] = q[i]
    BY <1>1, PrefixPointwise
  <2>2. q[Len(p) + 1] = n
    BY <2>1, <1>1, <1>2
  <2> QED BY <2>1, <2>2, <1>1, <1>2, <1>5, PrefixOrder
<1>7. \A q \in Path : IsPrefix(q, c) => q = c \/ IsPrefix(q, p)
  BY <1>1, <1>4, PrefixChild
<1> QED BY <1>1, <1>3, <1>4, <1>5, <1>6, <1>7 DEF c

LEMMA ParentAbove ==
  \A p \in Path : p # << >> =>
    /\ Parent(p) \in Path /\ IsPrefix(Parent(p), p) /\ Parent(p) # p
    /\ Len(Parent(p)) < Depth /\ Len(Parent(p)) = Len(p) - 1
    /\ Last(p) \in Names /\ p = Append(Parent(p), Last(p))
<1> SUFFICES ASSUME NEW p \in Path, p # << >>
             PROVE  /\ Parent(p) \in Path /\ IsPrefix(Parent(p), p) /\ Parent(p) # p
                    /\ Len(Parent(p)) < Depth /\ Len(Parent(p)) = Len(p) - 1
                    /\ Last(p) \in Names /\ p = Append(Parent(p), Last(p))
  OBVIOUS
<1>1. /\ Parent(p) \in Path /\ Len(Parent(p)) = Len(p) - 1
      /\ \A i \in 1..(Len(p) - 1) : Parent(p)[i] = p[i]
      /\ Last(p) \in Names /\ p = Append(Parent(p), Last(p))
  BY ParentPath
<1>2. Len(p) \in Nat /\ Len(p) <= Depth
  BY PathTypes, DepthAssumption
<1>3. Len(Parent(p)) < Depth /\ Parent(p) # p
  BY <1>1, <1>2, DepthAssumption
<1>4. IsPrefix(Parent(p), p)
  BY <1>1, <1>2, PrefixPointwise
<1> QED BY <1>1, <1>3, <1>4

-----------------------------------------------------------------------------
(* The path that an entry below src has below dst.                         *)

(* Its names are those of dst, then those that follow src.                 *)
LEMMA RebasedNames ==
  \A src, dst, q \in Path : IsPrefix(src, q) =>
    /\ Rebased(q, src, dst) \in Seq(Names)
    /\ Len(Rebased(q, src, dst)) = Len(dst) + Len(q) - Len(src)
    /\ \A i \in 1..Len(dst) : Rebased(q, src, dst)[i] = dst[i]
    /\ \A i \in 1..(Len(q) - Len(src)) :
         Rebased(q, src, dst)[Len(dst) + i] = q[Len(src) + i]
<1> SUFFICES ASSUME NEW src \in Path, NEW dst \in Path, NEW q \in Path, IsPrefix(src, q)
             PROVE  /\ Rebased(q, src, dst) \in Seq(Names)
                    /\ Len(Rebased(q, src, dst)) = Len(dst) + Len(q) - Len(src)
                    /\ \A i \in 1..Len(dst) : Rebased(q, src, dst)[i] = dst[i]
                    /\ \A i \in 1..(Len(q) - Len(src)) :
                         Rebased(q, src, dst)[Len(dst) + i] = q[Len(src) + i]
  OBVIOUS
<1> DEFINE m == Len(src) + 1
           n == Len(q)
           u == SubSeq(q, m, n)
<1>1. /\ Len(src) \in Nat /\ Len(q) \in Nat /\ Len(dst) \in Nat /\ Len(src) <= Len(q)
      /\ dst \in Seq(Names) /\ \A i \in 1..Len(q) : q[i] \in Names
  BY PathTypes, PathIsSequence, PrefixOrder
<1>2. m \in Int /\ n \in Int /\ \A i \in m..n : q[i] \in Names
  BY <1>1
<1>3. /\ u \in Seq(Names)
      /\ Len(u) = IF m <= n THEN n - m + 1 ELSE 0
      /\ \A i \in 1..(n - m + 1) : u[i] = q[m + i - 1]
  <2> HIDE DEF m, n
  <2> QED BY <1>2, SubSeqProperties
<1> HIDE DEF u
<1>4. Len(u) = Len(q) - Len(src) /\ \A i \in 1..(Len(q) - Len(src)) : u[i] = q[Len(src) + i]
  <2>1. n - m + 1 = Len(q) - Len(src)
    BY <1>1
  <2>2. Len(u) = Len(q) - Len(src)
    BY <1>1, <1>3
  <2>3. ASSUME NEW i \in 1..(Len(q) - Len(src))
        PROVE  u[i] = q[Len(src) + i]
    <3>1. i \in 1..(n - m + 1) /\ m + i - 1 = Len(src) + i
      BY <1>1
    <3> QED BY <3>1, <1>3
  <2> QED BY <2>2, <2>3
<1> DEFINE r == dst \o u
<1>5. /\ r \in Seq(Names) /\ Len(r) = Len(dst) + Len(u)
      /\ \A i \in 1..(Len(dst) + Len(u)) :
           r[i] = IF i <= Len(dst) THEN dst[i] ELSE u[i - Len(dst)]
  BY <1>1, <1>3, ConcatProperties
<1>6. r = Rebased(q, src, dst)
  BY DEF Rebased, u
<1> HIDE DEF r
<1>7. Len(r) = Len(dst) + Len(q) - Len(src) /\ \A i \in 1..Len(dst) : r[i] = dst[i]
  <2>1. /\ Len(dst) + Len(u) = Len(dst) + Len(q) - Len(src)
        /\ Len(dst) + Len(u) \in Nat /\ Len(dst) <= Len(dst) + Len(u)
    BY <1>1, <1>4
  <2>2. ASSUME NEW i \in 1..Len(dst)
        PROVE  r[i] = dst[i]
    <3>1. i \in 1..(Len(dst) + Len(u)) /\ i <= Len(dst)
      BY <2>1, <1>1
    <3> QED BY <3>1, <1>5
  <2> QED BY <2>1, <2>2, <1>5
<1>8. ASSUME NEW i \in 1..(Len(q) - Len(src))
      PROVE  r[Len(dst) + i] = q[Len(src) + i]
  <2>1. /\ Len(dst) + i \in 1..(Len(dst) + Len(u))
        /\ ~(Len(dst) + i <= Len(dst)) /\ Len(dst) + i - Len(dst) = i
    BY <1>1, <1>4
  <2> QED BY <2>1, <1>4, <1>5
<1> QED BY <1>5, <1>6, <1>7, <1>8

LEMMA RebasedPath ==
  \A src, dst, q \in Path : IsPrefix(src, q) /\ Len(Rebased(q, src, dst)) <= Depth =>
    /\ Rebased(q, src, dst) \in Path
    /\ IsPrefix(dst, Rebased(q, src, dst))
<1> SUFFICES ASSUME NEW src \in Path, NEW dst \in Path, NEW q \in Path, IsPrefix(src, q),
                    Len(Rebased(q, src, dst)) <= Depth
             PROVE  /\ Rebased(q, src, dst) \in Path
                    /\ IsPrefix(dst, Rebased(q, src, dst))
  OBVIOUS
<1> DEFINE r == Rebased(q, src, dst)
<1>1. /\ r \in Seq(Names) /\ Len(r) = Len(dst) + Len(q) - Len(src)
      /\ \A i \in 1..Len(dst) : r[i] = dst[i] /\ Len(r) <= Depth
  BY RebasedNames, PathTypes
<1> HIDE DEF r
<1>2. r \in Path
  BY <1>1, PathIsSequence, PathTypes, RebasedNames DEF r
<1>3. Len(dst) <= Len(r)
  BY <1>1, PathTypes, PrefixOrder
<1>4. IsPrefix(dst, r)
  BY <1>1, <1>2, <1>3, PrefixPointwise
<1> QED BY <1>2, <1>4 DEF r

(* The source itself goes to dst, a child of q to the same child of q's    *)
(* new place, no two entries to the same place, and the way back leads     *)
(* back.                                                                   *)
LEMMA RebasedSource ==
  \A src, dst \in Path : Rebased(src, src, dst) = dst
<1> SUFFICES ASSUME NEW src \in Path, NEW dst \in Path
             PROVE  Rebased(src, src, dst) = dst
  OBVIOUS
<1> DEFINE r == Rebased(src, src, dst)
<1>1. /\ r \in Seq(Names) /\ Len(r) = Len(dst) + Len(src) - Len(src)
      /\ \A i \in 1..Len(dst) : r[i] = dst[i]
  BY RebasedNames, PrefixOrder
<1> HIDE DEF r
<1>2. Len(r) = Len(dst) /\ dst \in Seq(Names)
  BY <1>1, PathTypes, PathIsSequence
<1>3. r = dst
  BY <1>1, <1>2, SeqEqual
<1> QED BY <1>3 DEF r

LEMMA RebasedChild ==
  \A src, dst, q \in Path : \A n \in Names :
    IsPrefix(src, q) /\ Len(q) < Depth /\ Len(Rebased(q, src, dst)) < Depth =>
      /\ IsPrefix(src, Append(q, n))
      /\ Rebased(Append(q, n), src, dst) = Append(Rebased(q, src, dst), n)
<1> SUFFICES ASSUME NEW src \in Path, NEW dst \in Path, NEW q \in Path, NEW n \in Names,
                    IsPrefix(src, q), Len(q) < Depth, Len(Rebased(q, src, dst)) < Depth
             PROVE  /\ IsPrefix(src, Append(q, n))
                    /\ Rebased(Append(q, n), src, dst) = Append(Rebased(q, src, dst), n)
  OBVIOUS
<1> DEFINE c == Append(q, n)
           r == Rebased(q, src, dst)
           s == Rebased(c, src, dst)
           a == Append(r, n)
<1>1. /\ c \in Path /\ IsPrefix(q, c) /\ Len(c) = Len(q) + 1 /\ c[Len(q) + 1] = n
      /\ \A i \in 1..Len(q) : c[i] = q[i]
  BY PrefixOfChild, AppendPath
<1>2. IsPrefix(src, c)
  BY <1>1, PrefixOrder
<1>3. /\ r \in Path /\ Len(r) = Len(dst) + Len(q) - Len(src)
      /\ \A i \in 1..Len(dst) : r[i] = dst[i]
      /\ \A i \in 1..(Len(q) - Len(src)) : r[Len(dst) + i] = q[Len(src) + i]
  <2>1. Len(r) <= Depth
    BY RebasedNames, PathTypes, DepthAssumption
  <2> QED BY <2>1, RebasedNames, RebasedPath
<1>4. /\ a \in Path /\ Len(a) = Len(r) + 1 /\ a[Len(r) + 1] = n
      /\ \A i \in 1..Len(r) : a[i] = r[i]
  BY <1>3, AppendPath
<1>5. /\ s \in Seq(Names) /\ Len(s) = Len(dst) + Len(c) - Len(src)
      /\ \A i \in 1..Len(dst) : s[i] = dst[i]
      /\ \A i \in 1..(Len(c) - Len(src)) : s[Len(dst) + i] = c[Len(src) + i]
  BY <1>1, <1>2, RebasedNames
<1>6. /\ Len(src) \in Nat /\ Len(dst) \in Nat /\ Len(q) \in Nat /\ Len(src) <= Len(q)
      /\ Len(r) \in Nat /\ a \in Seq(Names)
  BY PathTypes, PrefixOrder, <1>3, <1>4, PathIsSequence
<1> HIDE DEF c, r, s, a
<1>7. Len(s) = Len(a)
  BY <1>1, <1>3, <1>4, <1>5, <1>6
<1>8. ASSUME NEW i \in 1..Len(s)
      PROVE  s[i] = a[i]
  <2>1. CASE i <= Len(dst)
    BY <2>1, <1>3, <1>4, <1>5, <1>6, <1>7
  <2>2. CASE i > Len(dst)
    <3> DEFINE j == i - Len(dst)
    <3>1. /\ j \in 1..(Len(c) - Len(src)) /\ i = Len(dst) + j
          /\ j = Len(q) - Len(src) + 1 \/ j \in 1..(Len(q) - Len(src))
      BY <2>2, <1>1, <1>5, <1>6
    <3>2. s[i] = c[Len(src) + j]
      BY <3>1, <1>5
    <3>3. CASE j = Len(q) - Len(src) + 1
      <4>1. Len(src) + j = Len(q) + 1 /\ i = Len(r) + 1
        BY <3>3, <3>1, <1>3, <1>6
      <4> QED BY <4>1, <3>2, <1>1, <1>4
    <3>4. CASE j \in 1..(Len(q) - Len(src))
      <4>1. Len(src) + j \in 1..Len(q) /\ i \in 1..Len(r)
        BY <3>4, <3>1, <1>3, <1>6
      <4>2. a[i] = q[Len(src) + j]
        BY <4>1, <3>1, <3>4, <1>3, <1>4
      <4> QED BY <4>1, <4>2, <3>2, <1>1
    <3> QED BY <3>1, <3>3, <3>4
  <2> QED BY <2>1, <2>2, <1>5, <1>6
<1>9. s = a
  BY <1>5, <1>6, <1>7, <1>8, SeqEqual
<1> QED BY <1>2, <1>9 DEF c, r, s, a

LEMMA RebasedApart ==
  \A src, dst, p, q \in Path :
    IsPrefix(src, p) /\ IsPrefix(src, q) /\ Rebased(p, src, dst) = Rebased(q, src, dst) => p = q
<1> SUFFICES ASSUME NEW src \in Path, NEW dst \in Path, NEW p \in Path, NEW q \in Path,
                    IsPrefix(src, p), IsPrefix(src, q),
                    Rebased(p, src, dst) = Rebased(q, src, dst)
             PROVE  p = q
  OBVIOUS
<1>1. Len(p) = Len(q) /\ Len(src) <= Len(p)
  <2> DEFINE r == Rebased(p, src, dst)
             s == Rebased(q, src, dst)
  <2>1. /\ Len(r) = Len(dst) + Len(p) - Len(src)
        /\ Len(s) = Len(dst) + Len(q) - Len(src)
        /\ r = s
    BY RebasedNames
  <2> HIDE DEF r, s
  <2> QED BY <2>1, PathTypes, PrefixOrder
<1>2. ASSUME NEW i \in 1..Len(p)
      PROVE  p[i] = q[i]
  <2>1. CASE i <= Len(src)
    BY <2>1, PrefixPointwise, PathTypes
  <2>2. CASE i > Len(src)
    <3> DEFINE j == i - Len(src)
    <3>1. /\ j \in 1..(Len(p) - Len(src)) /\ j \in 1..(Len(q) - Len(src))
          /\ i = Len(src) + j
      BY <2>2, <1>1, PathTypes
    <3> HIDE DEF j
    <3>2. /\ Rebased(p, src, dst)[Len(dst) + j] = p[Len(src) + j]
          /\ Rebased(q, src, dst)[Len(dst) + j] = q[Len(src) + j]
      BY <3>1, RebasedNames
    <3> QED BY <3>1, <3>2
  <2> QED BY <2>1, <2>2, PathTypes
<1> QED BY <1>1, <1>2, PathEqual

LEMMA RebasedBack ==
  \A src, dst, q \in Path : IsPrefix(src, q) /\ Len(Rebased(q, src, dst)) <= Depth =>
    Rebased(Rebased(q, src, dst), dst, src) = q
<1> SUFFICES ASSUME NEW src \in Path, NEW dst \in Path, NEW q \in Path,
                    IsPrefix(src, q), Len(Rebased(q, src, dst)) <= Depth
             PROVE  Rebased(Rebased(q, src, dst), dst, src) = q
  OBVIOUS
<1> DEFINE r == Rebased(q, src, dst)
           b == Rebased(r, dst, src)
<1>1. /\ r \in Path /\ IsPrefix(dst, r) /\ Len(r) = Len(dst) + Len(q) - Len(src)
      /\ \A i \in 1..(Len(q) - Len(src)) : r[Len(dst) + i] = q[Len(src) + i]
  BY RebasedNames, RebasedPath
<1> HIDE DEF r
<1>2. /\ b \in Seq(Names) /\ Len(b) = Len(src) + Len(r) - Len(dst)
      /\ \A i \in 1..Len(src) : b[i] = src[i]
      /\ \A i \in 1..(Len(r) - Len(dst)) : b[Len(src) + i] = r[Len(dst) + i]
  BY <1>1, RebasedNames
<1> HIDE DEF b
<1>3. /\ Len(src) \in Nat /\ Len(dst) \in Nat /\ Len(q) \in Nat /\ Len(src) <= Len(q)
      /\ q \in Seq(Names) /\ \A i \in 1..Len(src) : src[i] = q[i]
  BY PathTypes, PrefixOrder, PathIsSequence, PrefixPointwise
<1>4. Len(b) = Len(q)
  BY <1>1, <1>2, <1>3
<1>5. ASSUME NEW i \in 1..Len(b)
      PROVE  b[i] = q[i]
  <2>1. CASE i <= Len(src)
    BY <2>1, <1>2, <1>3
  <2>2. CASE i > Len(src)
    <3> DEFINE j == i - Len(src)
    <3>1. /\ j \in 1..(Len(r) - Len(dst)) /\ j \in 1..(Len(q) - Len(src))
          /\ i = Len(src) + j
      BY <2>2, <1>1, <1>3, <1>4
    <3> HIDE DEF j
    <3> QED BY <3>1, <1>1, <1>2
  <2> QED BY <2>1, <2>2, <1>3, <1>4
<1> QED BY <1>2, <1>3, <1>4, <1>5, SeqEqual DEF b, r

LEMMA RebasedSame ==
  \A p, q \in Path : IsPrefix(p, q) => Rebased(q, p, p) = q
<1> SUFFICES ASSUME NEW p \in Path, NEW q \in Path, IsPrefix(p, q)
             PROVE  Rebased(q, p, p) = q
  OBVIOUS
<1> DEFINE r == Rebased(q, p, p)
<1>1. /\ r \in Seq(Names) /\ Len(r) = Len(p) + Len(q) - Len(p)
      /\ \A i \in 1..Len(p) : r[i] = p[i]
      /\ \A i \in 1..(Len(q) - Len(p)) : r[Len(p) + i] = q[Len(p) + i]
  BY RebasedNames
<1> HIDE DEF r
<1>2. /\ Len(p) \in Nat /\ Len(q) \in Nat /\ Len(p) <= Len(q) /\ q \in Seq(Names)
      /\ \A i \in 1..Len(p) : p[i] = q[i]
  BY PathTypes, PathIsSequence, PrefixPointwise
<1>3. Len(r) = Len(q)
  BY <1>1, <1>2
<1>4. ASSUME NEW i \in 1..Len(r)
      PROVE  r[i] = q[i]
  <2>1. CASE i <= Len(p)
    BY <2>1, <1>1, <1>2
  <2>2. CASE i > Len(p)
    <3> DEFINE j == i - Len(p)
    <3>1. j \in 1..(Len(q) - Len(p)) /\ i = Len(p) + j
      BY <2>2, <1>2, <1>3
    <3> HIDE DEF j
    <3> QED BY <3>1, <1>1
  <2> QED BY <2>1, <2>2, <1>2, <1>3
<1> QED BY <1>1, <1>2, <1>3, <1>4, SeqEqual DEF r

-----------------------------------------------------------------------------
(* Trees.                                                                  *)

(* What the three kinds of nodes are told apart by.                        *)
LEMMA NodeKinds ==
  /\ Nothing # Dir /\ Nothing.kind # "file" /\ Dir.kind # "file"
  /\ \A d : File(d) # Dir /\ File(d) # Nothing /\ File(d).kind = "file" /\ File(d).data = d
  /\ \A d, e : File(d) = File(e) => d = e
<1>1. Nothing.kind = "nothing" /\ Dir.kind = "dir"
  BY DEF Nothing, Dir
<1>2. \A d : File(d).kind = "file" /\ File(d).data = d
  BY DEF File
<1> QED BY <1>1, <1>2

(* Every nonempty set of natural numbers has a least element.              *)
LEMMA LeastNatural ==
  \A S \in SUBSET Nat : S # {} => \E n \in S : \A m \in S : n <= m
<1> SUFFICES ASSUME NEW S \in SUBSET Nat, S # {}
             PROVE  \E n \in S : \A m \in S : n <= m
  OBVIOUS
<1>1. \E x \in S : \A y \in S : ~ (<<y, x>> \in OpToRel(<, Nat))
  BY NatLessThanWellFounded, WFMin
<1>2. PICK n \in S : \A y \in S : ~ (<<y, n>> \in OpToRel(<, Nat))
  BY <1>1
<1>3. ASSUME NEW m \in S
      PROVE  n <= m
  <2>1. m \in Nat /\ n \in Nat
    OBVIOUS
  <2>2. ~ (m < n)
    BY <1>2, <2>1 DEF OpToRel
  <2> QED BY <2>1, <2>2
<1> QED BY <1>3

(* Every directory above something that exists exists, and has the child   *)
(* that leads there.                                                       *)
LEMMA Ancestors ==
  \A t : IsTree(t) =>
    \A p, q \in Path : IsPrefix(p, q) /\ p # q /\ t[q] # Nothing =>
      t[p] = Dir /\ q[Len(p) + 1] \in Children(t, p)
<1> SUFFICES ASSUME NEW t, IsTree(t), NEW p \in Path, NEW q \in Path,
                    IsPrefix(p, q), p # q, t[q] # Nothing
             PROVE  t[p] = Dir /\ q[Len(p) + 1] \in Children(t, p)
  OBVIOUS
<1> DEFINE Between(r) == IsPrefix(p, r) /\ p # r /\ IsPrefix(r, q) /\ t[r] # Nothing
           S == {n \in Nat : \E r \in Path : Len(r) = n /\ Between(r)}
<1>1. Len(q) \in S
  BY PrefixOrder, PathTypes
<1>2. PICK n \in S : \A m \in S : n <= m
  <2> HIDE DEF S
  <2>1. S \in SUBSET Nat
    BY DEF S
  <2> QED BY <1>1, <2>1, LeastNatural
<1>3. PICK r \in Path : Len(r) = n /\ Between(r)
  BY <1>2
<1>4. /\ r # << >> /\ Parent(r) \in Path /\ Len(Parent(r)) = Len(r) - 1
      /\ IsPrefix(p, Parent(r)) /\ r = Append(Parent(r), Last(r)) /\ Last(r) \in Names
      /\ Last(r) = r[Len(r)]
  BY <1>3, PrefixChild, ParentPath
<1>5. t[Parent(r)] = Dir
  BY <1>3, <1>4 DEF IsTree
<1>6. Parent(r) = p
  <2> SUFFICES ASSUME Parent(r) # p
               PROVE  FALSE
    OBVIOUS
  <2>1. Len(r) \in Nat /\ Len(Parent(r)) \in Nat /\ Len(Parent(r)) < Depth
    BY <1>4, PathTypes, DepthAssumption
  <2>2. IsPrefix(Parent(r), q)
    <3>1. IsPrefix(Parent(r), r)
      BY <1>4, ParentAbove
    <3> QED BY <3>1, <1>3, <1>4, PrefixOrder
  <2>3. Between(Parent(r))
    BY <2>2, <1>4, <1>5, NodeKinds
  <2>4. Len(Parent(r)) \in S
    BY <2>3, <2>1, <1>4
  <2> QED BY <2>4, <2>1, <1>2, <1>3, <1>4
<1>7. Len(r) = Len(p) + 1 /\ Len(p) \in Nat /\ Len(r) \in Nat /\ Len(r) <= Depth
  BY <1>4, <1>6, PathTypes, DepthAssumption
<1>8. r[Len(r)] = q[Len(p) + 1]
  BY <1>3, <1>7, PrefixPointwise
<1>9. t[p] = Dir /\ Last(r) = q[Len(p) + 1] /\ t[Append(p, Last(r))] # Nothing
  BY <1>3, <1>4, <1>5, <1>6, <1>8
<1>10. Len(p) < Depth /\ Last(r) \in Names
  BY <1>4, <1>7, DepthAssumption
<1> QED BY <1>9, <1>10 DEF Children

LEMMA OnlyDirsHaveChildren ==
  \A t : IsTree(t) => \A p \in Path : t[p] # Dir => Children(t, p) = {}
<1> SUFFICES ASSUME NEW t, IsTree(t), NEW p \in Path, t[p] # Dir, NEW n \in Children(t, p)
             PROVE  FALSE
  OBVIOUS
<1>1. n \in Names /\ Len(p) < Depth /\ t[Append(p, n)] # Nothing
  BY DEF Children
<1>2. Append(p, n) \in Path /\ Append(p, n) # << >> /\ Parent(Append(p, n)) = p
  BY <1>1, PrefixOfChild
<1> QED BY <1>1, <1>2 DEF IsTree

(* One node of a tree changes.                                             *)
LEMMA TreeExcept ==
  ASSUME NEW S, NEW t \in [Path -> S], IsTree(t),
         NEW p \in Path, NEW v, p # << >>,
         v = Nothing \/ t[Parent(p)] = Dir,
         v = Dir \/ Children(t, p) = {}
  PROVE  IsTree([t EXCEPT ![p] = v])
<1> DEFINE u == [t EXCEPT ![p] = v]
<1>1. u[p] = v /\ \A q \in Path : q # p => u[q] = t[q]
  OBVIOUS
<1> HIDE DEF u
<1>2. u[<< >>] = Dir
  BY <1>1, PathTypes DEF IsTree
<1>3. ASSUME NEW q \in Path, q # << >>, u[q] # Nothing
      PROVE  u[Parent(q)] = Dir
  <2>1. /\ Parent(q) \in Path /\ Parent(q) # q /\ q = Append(Parent(q), Last(q))
        /\ Last(q) \in Names /\ Len(Parent(q)) < Depth
    BY <1>3, ParentPath, PathTypes, DepthAssumption
  <2>2. CASE q = p
    BY <2>1, <2>2, <1>1, <1>3
  <2>3. CASE q # p
    <3>1. t[q] # Nothing /\ t[Parent(q)] = Dir
      BY <2>3, <1>1, <1>3 DEF IsTree
    <3>2. CASE Parent(q) = p
      <4>1. Last(q) \in Children(t, p)
        BY <3>1, <3>2, <2>1 DEF Children
      <4> QED BY <4>1, <3>2, <1>1
    <3> QED BY <3>1, <3>2, <2>1, <1>1
  <2> QED BY <2>2, <2>3
<1> QED BY <1>2, <1>3 DEF IsTree, u

-----------------------------------------------------------------------------
(* rename(2).                                                              *)

LEMMA RenamedAt ==
  ASSUME NEW t, NEW src \in Path, NEW dst \in Path, src # dst, NEW p \in Path
  PROVE  /\ IsPrefix(dst, p) =>
              /\ Rebased(p, dst, src) \in Path =>
                   Renamed(t, src, dst)[p] = t[Rebased(p, dst, src)]
              /\ Rebased(p, dst, src) \notin Path => Renamed(t, src, dst)[p] = Nothing
         /\ ~IsPrefix(dst, p) /\ IsPrefix(src, p) => Renamed(t, src, dst)[p] = Nothing
         /\ ~IsPrefix(dst, p) /\ ~IsPrefix(src, p) => Renamed(t, src, dst)[p] = t[p]
BY DEF Renamed, Rebased

LEMMA RenamedType ==
  ASSUME NEW S, Nothing \in S, NEW t \in [Path -> S], NEW src \in Path, NEW dst \in Path
  PROVE  Renamed(t, src, dst) \in [Path -> S]
BY DEF Renamed

(* Nothing lies below the place that a rename replaces.                    *)
LEMMA NothingBelowTarget ==
  ASSUME NEW t, IsTree(t), NEW src \in Path, NEW dst \in Path, src # dst,
         Renames(t, src, dst),
         NEW p \in Path, IsPrefix(dst, p), p # dst
  PROVE  t[p] = Nothing
<1> SUFFICES ASSUME t[p] # Nothing
             PROVE  FALSE
  OBVIOUS
<1>1. t[dst] = Dir /\ Children(t, dst) # {}
  BY Ancestors
<1> QED BY <1>1, NodeKinds DEF Renames

LEMMA RenamedTree ==
  ASSUME NEW t, IsTree(t), NEW src \in Path, NEW dst \in Path,
         src # << >>, dst # << >>, Renames(t, src, dst)
  PROVE  IsTree(Renamed(t, src, dst))
<1>1. CASE src = dst
  BY <1>1 DEF Renamed
<1>2. CASE src # dst
  <2> DEFINE u == Renamed(t, src, dst)
  <2>1. ~IsPrefix(src, dst) /\ ~IsPrefix(dst, src)
    BY <1>2 DEF Renames, IsStrictPrefix
  <2>2. u[<< >>] = Dir
    <3>1. ~IsPrefix(src, << >>) /\ ~IsPrefix(dst, << >>)
      BY PrefixOrder, PathTypes
    <3> QED BY <3>1, <1>2, RenamedAt, PathTypes DEF IsTree
  <2>3. ASSUME NEW p \in Path, p # << >>, u[p] # Nothing
        PROVE  u[Parent(p)] = Dir
    <3>1. Parent(p) \in Path /\ IsPrefix(Parent(p), p) /\ Parent(p) # p
          /\ p = Append(Parent(p), Last(p)) /\ Last(p) \in Names /\ Len(Parent(p)) < Depth
      BY <2>3, ParentAbove
    <3>2. CASE ~IsPrefix(dst, p)
      <4>1. ~IsPrefix(src, p) /\ u[p] = t[p]
        BY <3>2, <2>3, <1>2, RenamedAt
      <4>2. ~IsPrefix(dst, Parent(p)) /\ ~IsPrefix(src, Parent(p))
        BY <4>1, <3>1, <3>2, PrefixOrder
      <4> QED BY <4>1, <4>2, <3>1, <2>3, <1>2, RenamedAt DEF IsTree
    <3>3. CASE p = dst
      <4>1. t[Parent(dst)] = Dir
        BY DEF Renames
      <4>2. ~IsPrefix(dst, Parent(p))
        BY <3>1, <3>3, PrefixOrder, PathTypes
      <4>3. ~IsPrefix(src, Parent(p))
        BY <3>1, <3>3, <2>1, PrefixOrder
      <4> QED BY <4>1, <4>2, <4>3, <3>1, <3>3, <1>2, RenamedAt
    <3>4. CASE IsPrefix(dst, p) /\ p # dst
      <4> DEFINE q == Rebased(p, dst, src)
                 r == Rebased(Parent(p), dst, src)
      <4>1. q \in Path /\ t[q] # Nothing
        BY <3>4, <2>3, <1>2, RenamedAt
      <4>2. IsPrefix(dst, Parent(p))
        BY <3>4, PrefixChild
      <4>3. r \in Path /\ Len(r) < Depth
        <5>1. /\ Len(q) = Len(src) + Len(p) - Len(dst)
              /\ Len(r) = Len(src) + Len(Parent(p)) - Len(dst)
              /\ Len(Parent(p)) = Len(p) - 1
          BY <3>1, <3>4, <4>2, RebasedNames, ParentPath, <2>3
        <5>2. Len(r) < Depth
          <6> HIDE DEF q, r
          <6> QED BY <5>1, <4>1, <3>1, PathTypes, DepthAssumption
        <5>3. Len(r) <= Depth
          <6>1. Len(r) \in Int
            BY <5>1, PathTypes, <3>1
          <6> QED BY <5>2, <6>1, DepthAssumption
        <5> QED BY <5>2, <5>3, <3>1, <4>2, RebasedPath
      <4>4. q = Append(r, Last(p))
        <5> DEFINE x == Parent(p)
                   n == Last(p)
        <5>1. /\ x \in Path /\ n \in Names /\ IsPrefix(dst, x) /\ Len(x) < Depth
              /\ p = Append(x, n) /\ Len(Rebased(x, dst, src)) < Depth
          BY <3>1, <4>2, <4>3
        <5> HIDE DEF x, n
        <5>2. Rebased(Append(x, n), dst, src) = Append(Rebased(x, dst, src), n)
          BY <5>1, RebasedChild
        <5> QED BY <5>1, <5>2 DEF x, n
      <4>5. Parent(q) = r /\ q # << >>
        BY <4>3, <4>4, <3>1, PrefixOfChild
      <4>6. t[r] = Dir
        BY <4>1, <4>5 DEF IsTree
      <4> QED BY <4>2, <4>3, <4>6, <3>1, <1>2, RenamedAt
    <3> QED BY <3>2, <3>3, <3>4
  <2> QED BY <2>2, <2>3 DEF IsTree
<1> QED BY <1>1, <1>2

(* A rename replaces no directory by a file and no file by a directory.    *)
LEMMA RenamedKind ==
  ASSUME NEW t, IsTree(t), NEW src \in Path, NEW dst \in Path, src # dst,
         Renames(t, src, dst),
         NEW p \in Path, ~IsPrefix(src, p)
  PROVE  /\ t[p] = Dir => Renamed(t, src, dst)[p] = Dir
         /\ t[p].kind = "file" => Renamed(t, src, dst)[p] # Dir
<1>1. CASE ~IsPrefix(dst, p)
  BY <1>1, RenamedAt, NodeKinds
<1>2. CASE p = dst
  <2>1. Renamed(t, src, dst)[p] = t[src]
    BY <1>2, RenamedAt, RebasedSource, PrefixOrder
  <2> QED BY <2>1, <1>2, NodeKinds DEF Renames
<1>3. CASE IsPrefix(dst, p) /\ p # dst
  BY <1>3, NothingBelowTarget, NodeKinds
<1> QED BY <1>1, <1>2, <1>3

(* When a file is renamed it goes to its new place and nothing else moves. *)
LEMMA RenamedFile ==
  ASSUME NEW S, NEW t \in [Path -> S], IsTree(t),
         NEW src \in Path, NEW dst \in Path, src # dst,
         t[src] # Dir, Renames(t, src, dst)
  PROVE  /\ t[dst] # Dir
         /\ Renamed(t, src, dst) = [t EXCEPT ![src] = Nothing, ![dst] = t[src]]
<1> DEFINE u == Renamed(t, src, dst)
           v == [t EXCEPT ![src] = Nothing, ![dst] = t[src]]
<1>1. t[dst] # Dir
  BY NodeKinds DEF Renames
<1>2. ASSUME NEW p \in Path
      PROVE  u[p] = v[p]
  <2>1. CASE p = dst
    <3>1. u[p] = t[src]
      BY <2>1, RenamedAt, RebasedSource, PrefixOrder
    <3> QED BY <3>1, <2>1
  <2>2. CASE p = src
    <3>1. ~IsPrefix(dst, src)
      BY DEF Renames, IsStrictPrefix
    <3>2. u[p] = Nothing
      BY <3>1, <2>2, RenamedAt, PrefixOrder
    <3> QED BY <3>2, <2>2
  <2>3. CASE p # src /\ p # dst
    <3>1. v[p] = t[p]
      BY <2>3
    <3>2. CASE ~IsPrefix(dst, p) /\ ~IsPrefix(src, p)
      BY <3>1, <3>2, RenamedAt
    <3>3. CASE ~IsPrefix(dst, p) /\ IsPrefix(src, p)
      <4>1. u[p] = Nothing
        BY <3>3, RenamedAt
      <4>2. t[p] = Nothing
        BY <3>3, <2>3, Ancestors
      <4> QED BY <3>1, <4>1, <4>2
    <3>4. CASE IsPrefix(dst, p)
      <4>1. t[p] = Nothing
        BY <3>4, <2>3, NothingBelowTarget
      <4>2. u[p] = Nothing
        <5> DEFINE q == Rebased(p, dst, src)
        <5>1. CASE q \in Path
          <6>1. IsPrefix(src, q)
            BY <5>1, <3>4, RebasedPath, PathTypes
          <6>2. q # src
            BY <5>1, <3>4, <2>3, RebasedSource, RebasedApart, PrefixOrder
          <6>3. t[q] = Nothing
            BY <5>1, <6>1, <6>2, Ancestors
          <6> QED BY <5>1, <6>3, <3>4, RenamedAt
        <5>2. CASE q \notin Path
          BY <5>2, <3>4, RenamedAt
        <5> QED BY <5>1, <5>2
      <4> QED BY <3>1, <4>1, <4>2
    <3> QED BY <3>2, <3>3, <3>4
  <2> QED BY <2>1, <2>2, <2>3
<1>3. u = [p \in Path |-> u[p]]
  BY DEF Renamed
<1>4. v = [p \in Path |-> v[p]]
  OBVIOUS
<1>5. u = v
  <2> HIDE DEF u, v
  <2> QED BY <1>2, <1>3, <1>4
<1> QED BY <1>1, <1>5
=============================================================================
