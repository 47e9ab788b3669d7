------------------------- MODULE RootfsReplayProofs -------------------------
(***************************************************************************)
(* Proofs about RootfsReplay, for every image, limit, order of the blobs   *)
(* and number of disturbances: the projection is always a tree with its    *)
(* census (AlwaysATree), what is retained is the stack of the              *)
(* authenticated layers (RetainedExactly), and what is refused had a cause *)
(* outside the staging (RefusedForACause).                                 *)
(*                                                                         *)
(* The argument follows the code: what the journal holds of a layer stands *)
(* for its transcript (JournalInv); the transcripts are compared with the  *)
(* image layer by layer and their order is validated (SealInv); the        *)
(* projection is a tree (TreeInv) and counted (CountInv); at every cursor  *)
(* it stands for the stack below with the part of the layer applied so far *)
(* (MirrorInv); and the spool holds what the extents say when it was last  *)
(* read (SpoolInv).  For the converse, that no check refuses what is       *)
(* right, every live path knows what touched it last (EffectInv), and as   *)
(* long as nothing goes wrong the transcripts begin the layers of the      *)
(* image, and journal, extents, seals and spool agree (CalmInv).           *)
(*                                                                         *)
(* Induction over the length of a layer or the height of a stack is done   *)
(* with the least element of a set of counterexamples.                     *)
(***************************************************************************)
EXTENDS RootfsReplay, FiniteSetTheorems, SequenceTheorems, WellFoundedInduction, TLAPS

(***************************************************************************)
(* Numbers, sequences and paths                                            *)
(***************************************************************************)

\* A set of natural numbers has a least element: induction, for sets.
LEMMA Least ==
  ASSUME NEW T \in SUBSET Nat, T # {}
  PROVE  \E x \in T : \A y \in T : x <= y
<1> DEFINE R == {ss \in Nat \X Nat : ss[1] < ss[2]}
<1>0. IsWellFoundedOn(R, Nat)
  BY NatLessThanWellFounded, Zenon DEF OpToRel
<1> HIDE DEF R
<1>1. PICK x \in T : \A y \in T : ~(<<y, x>> \in R)
  BY <1>0, WFMin
<1>2. \A y \in T : ~(y < x)
  BY <1>1 DEF R
<1>3. QED
  BY <1>2

PathOf == Seq(1..MaxName)

\* Below and Parent, component by component.
LEMMA PrefixIs ==
  ASSUME NEW p \in PathOf, NEW n \in 0..Len(p)
  PROVE  /\ SubSeq(p, 1, n) \in PathOf /\ Len(SubSeq(p, 1, n)) = n
         /\ \A i \in 1..n : SubSeq(p, 1, n)[i] = p[i]
<1>2. Len(p) \in Nat /\ p \in [1..Len(p) -> 1..MaxName]
  BY LenProperties DEF PathOf
<1>1. \A i \in 1..n : p[i] \in 1..MaxName
  BY <1>2
<1>3. QED
  BY <1>1, <1>2, SubSeqProperties DEF PathOf

LEMMA BelowIs ==
  ASSUME NEW p \in PathOf, NEW q \in PathOf
  PROVE  Below(p, q) <=> Len(p) > Len(q) /\ \A i \in 1..Len(q) : p[i] = q[i]
<1>0. Len(p) \in Nat /\ Len(q) \in Nat
  BY LenProperties DEF PathOf
<1> SUFFICES ASSUME Len(p) > Len(q)
             PROVE  SubSeq(p, 1, Len(q)) = q <=> \A i \in 1..Len(q) : p[i] = q[i]
  BY DEF Below
<1>1. /\ SubSeq(p, 1, Len(q)) \in PathOf /\ Len(SubSeq(p, 1, Len(q))) = Len(q)
      /\ \A i \in 1..Len(q) : SubSeq(p, 1, Len(q))[i] = p[i]
  BY <1>0, PrefixIs
<1>2. QED
  BY <1>1, SeqEqual DEF PathOf

\* A path lies below each of its proper prefixes, and every path it lies below
\* is one of them.
LEMMA PrefixBelow ==
  ASSUME NEW p \in PathOf, NEW q \in PathOf
  PROVE  /\ \A n \in 0..(Len(p) - 1) : Below(p, SubSeq(p, 1, n))
         /\ Below(p, q) => Len(q) \in 0..(Len(p) - 1) /\ q = SubSeq(p, 1, Len(q))
<1>0. Len(p) \in Nat /\ Len(q) \in Nat
  BY LenProperties DEF PathOf
<1>1. ASSUME NEW n \in 0..(Len(p) - 1) PROVE Below(p, SubSeq(p, 1, n))
  <2>1. n \in 0..Len(p) /\ n < Len(p)
    BY <1>0
  <2>2. /\ SubSeq(p, 1, n) \in PathOf /\ Len(SubSeq(p, 1, n)) = n
    BY <2>1, PrefixIs
  <2>3. QED
    BY <2>1, <2>2 DEF Below
<1>2. QED
  BY <1>0, <1>1 DEF Below

LEMMA BelowTransitive ==
  ASSUME NEW p \in PathOf, NEW q \in PathOf, NEW r \in PathOf, Below(p, q), Below(q, r)
  PROVE  Below(p, r)
<1>0. Len(p) \in Nat /\ Len(q) \in Nat /\ Len(r) \in Nat
  BY LenProperties DEF PathOf
<1>1. QED
  BY <1>0, BelowIs

\* Of two paths above a third, the shorter is above the longer.
LEMMA AboveLinear ==
  ASSUME NEW p \in PathOf, NEW q \in PathOf, NEW r \in PathOf,
         Below(p, q), Below(p, r), Len(r) < Len(q)
  PROVE  Below(q, r)
<1>0. Len(p) \in Nat /\ Len(q) \in Nat /\ Len(r) \in Nat
  BY LenProperties DEF PathOf
<1>1. QED
  BY <1>0, BelowIs

LEMMA ParentIs ==
  ASSUME NEW p \in PathOf, p # <<>>
  PROVE  /\ Len(p) >= 1 /\ Parent(p) \in PathOf /\ Len(Parent(p)) = Len(p) - 1
         /\ Below(p, Parent(p))
<1>0. Len(p) \in Nat /\ Len(p) # 0
  BY LenProperties, EmptySeq DEF PathOf
<1>1. Len(p) - 1 \in 0..(Len(p) - 1) /\ Len(p) - 1 \in 0..Len(p)
  BY <1>0
<1>2. /\ Parent(p) \in PathOf /\ Len(Parent(p)) = Len(p) - 1
  BY <1>1, PrefixIs DEF Parent
<1>3. Below(p, Parent(p))
  BY <1>1, PrefixBelow DEF Parent
<1>4. QED
  BY <1>0, <1>2, <1>3

(***************************************************************************)
(* The order of a layer                                                    *)
(***************************************************************************)

LEMMA PrecedesTransitive ==
  ASSUME NEW p \in Seq(Nat), NEW q \in Seq(Nat), NEW r \in Seq(Nat),
         Precedes(p, q), Precedes(q, r)
  PROVE  Precedes(p, r)
<1>0. /\ Len(p) \in Nat /\ Len(q) \in Nat /\ Len(r) \in Nat
      /\ p \in [1..Len(p) -> Nat] /\ q \in [1..Len(q) -> Nat] /\ r \in [1..Len(r) -> Nat]
  BY LenProperties
<1>1. PICK i \in 1..Len(q) :
        /\ \A k \in 1..(i - 1) : k <= Len(p) /\ p[k] = q[k]
        /\ i = Len(p) + 1 \/ (i <= Len(p) /\ p[i] < q[i])
  BY DEF Precedes
<1>2. PICK j \in 1..Len(r) :
        /\ \A k \in 1..(j - 1) : k <= Len(q) /\ q[k] = r[k]
        /\ j = Len(q) + 1 \/ (j <= Len(q) /\ q[j] < r[j])
  BY DEF Precedes
<1>3. CASE j < i
  <2>1. j \in 1..(i - 1) /\ j <= Len(q) /\ q[j] < r[j]
    BY <1>0, <1>1, <1>2, <1>3
  <2>2. j <= Len(p) /\ p[j] < r[j]
    BY <1>1, <2>1
  <2>3. \A k \in 1..(j - 1) : k <= Len(p) /\ p[k] = r[k]
    BY <1>0, <1>1, <1>2, <1>3
  <2>4. QED
    BY <2>2, <2>3 DEF Precedes
<1>4. CASE j = i
  <2>1. i <= Len(q) /\ q[i] < r[i] /\ i \in 1..Len(r)
    BY <1>0, <1>1, <1>2, <1>4
  <2>2. i = Len(p) + 1 \/ (i <= Len(p) /\ p[i] < r[i])
    BY <1>0, <1>1, <2>1
  <2>3. \A k \in 1..(i - 1) : k <= Len(p) /\ p[k] = r[k]
    BY <1>0, <1>1, <1>2, <1>4
  <2>4. QED
    BY <2>1, <2>2, <2>3 DEF Precedes
<1>5. CASE i < j
  <2>1. i \in 1..(j - 1) /\ i \in 1..Len(r)
    BY <1>0, <1>1, <1>2, <1>5
  <2>2. i = Len(p) + 1 \/ (i <= Len(p) /\ p[i] < r[i])
    BY <1>1, <1>2, <2>1
  <2>3. \A k \in 1..(i - 1) : k <= Len(p) /\ p[k] = r[k]
    BY <1>0, <1>1, <1>2, <1>5
  <2>4. QED
    BY <2>1, <2>2, <2>3 DEF Precedes
<1>6. QED
  BY <1>0, <1>1, <1>2, <1>3, <1>4, <1>5

LEMMA PrecedesNotItself ==
  ASSUME NEW p \in Seq(Nat), Precedes(p, p)
  PROVE  FALSE
<1>1. Len(p) \in Nat /\ p \in [1..Len(p) -> Nat]
  BY LenProperties
<1>2. QED
  BY <1>1 DEF Precedes

\* A path precedes what lies below it.
LEMMA AbovePrecedes ==
  ASSUME NEW p \in Seq(Nat), NEW q \in Seq(Nat), Len(q) < Len(p),
         \A i \in 1..Len(q) : p[i] = q[i]
  PROVE  Precedes(q, p)
<1>1. Len(p) \in Nat /\ Len(q) \in Nat
  BY LenProperties
<1>2. Len(q) + 1 \in 1..Len(p)
  BY <1>1
<1>3. ASSUME NEW j \in 1..(Len(q) + 1 - 1) PROVE j <= Len(q) /\ q[j] = p[j]
  <2>1. j \in 1..Len(q)
    BY <1>1
  <2>2. QED
    BY <1>1, <2>1
<1>4. QED
  BY <1>2, <1>3 DEF Precedes

LEMMA EntryParts ==
  ASSUME NEW e \in Entry
  PROVE  /\ e.kind \in Kind /\ e.path \in PathOf /\ e.payload \in Seq(Byte)
         /\ e.kind # "opaque" => e.path # <<>>
         /\ e.kind # "regular" => e.payload = <<>>
         /\ e = [kind |-> e.kind, path |-> e.path, payload |-> e.payload]
BY DEF Entry, PathOf

LEMMA ArchivePathIs ==
  ASSUME NEW e \in Entry
  PROVE  /\ ArchivePath(e) \in Seq(Nat)
         /\ e.kind \notin Whiteouts =>
              /\ Len(ArchivePath(e)) = Len(e.path)
              /\ \A i \in 1..Len(e.path) : ArchivePath(e)[i] = MaxName + e.path[i]
<1>1. e.path \in [1..Len(e.path) -> 1..MaxName] /\ Len(e.path) \in Nat /\ MaxName \in Nat
  BY EntryParts, LenProperties, LimitAssumption DEF PathOf
<1> DEFINE q == [i \in 1..Len(e.path) |-> MaxName + e.path[i]]
           r == [i \in 1..Len(e.path) |->
                   IF i = Len(e.path) THEN e.path[i] ELSE MaxName + e.path[i]]
<1>2. q \in Seq(Nat) /\ Len(q) = Len(e.path)
  <2>1. q \in [1..Len(e.path) -> Nat]
    BY <1>1
  <2>2. QED
    BY <1>1, <2>1
<1>3. r \in Seq(Nat)
  <2>1. r \in [1..Len(e.path) -> Nat]
    BY <1>1
  <2>2. QED
    BY <1>1, <2>1
<1>4. q \o <<0>> \in Seq(Nat)
  BY <1>2, ConcatProperties
<1>5. CASE e.kind = "remove"
  BY <1>3, <1>5 DEF ArchivePath, Whiteouts
<1>6. CASE e.kind = "opaque"
  BY <1>4, <1>6 DEF ArchivePath, Whiteouts
<1>7. CASE e.kind \notin Whiteouts
  <2>1. ArchivePath(e) = q
    BY <1>7 DEF ArchivePath, Whiteouts
  <2>2. QED
    BY <1>2, <2>1
<1>8. QED
  BY <1>5, <1>6, <1>7 DEF Whiteouts

\* Entries are ordered at any distance if they are at distance one.
LEMMA OrderedPairs ==
  ASSUME NEW s \in Seq(Entry), StrictlyOrdered(s),
         NEW i \in 1..Len(s), NEW j \in 1..Len(s), i < j
  PROVE  Precedes(ArchivePath(s[i]), ArchivePath(s[j]))
<1>0. Len(s) \in Nat /\ \A k \in 1..Len(s) : s[k] \in Entry /\ ArchivePath(s[k]) \in Seq(Nat)
  BY LenProperties, ElementOfSeq, ArchivePathIs
<1> DEFINE T == {k \in 1..Len(s) : i < k /\ ~Precedes(ArchivePath(s[i]), ArchivePath(s[k]))}
<1>1. SUFFICES ASSUME T # {} PROVE FALSE
  OBVIOUS
<1>2. T \in SUBSET Nat
  OBVIOUS
<1>3. PICK k \in T : \A m \in T : k <= m
  BY <1>1, <1>2, Least
<1>4. /\ k - 1 \in 1..(Len(s) - 1) /\ k - 1 \in 1..Len(s) /\ (k - 1) + 1 = k /\ k \in 1..Len(s)
      /\ i <= k - 1 /\ k - 1 < k
  BY <1>0
<1>5. Precedes(ArchivePath(s[k - 1]), ArchivePath(s[k]))
  BY <1>4 DEF StrictlyOrdered
<1>6. CASE i = k - 1
  BY <1>5, <1>6
<1>7. CASE i < k - 1
  <2>1. k - 1 \notin T
    BY <1>3, <1>4
  <2>2. Precedes(ArchivePath(s[i]), ArchivePath(s[k - 1]))
    BY <1>4, <1>7, <2>1
  <2>3. Precedes(ArchivePath(s[i]), ArchivePath(s[k]))
    BY <1>0, <1>4, <1>5, <2>2, PrecedesTransitive
  <2>4. QED
    BY <2>3
<1>8. QED
  BY <1>4, <1>6, <1>7

\* In a layer, no path is defined twice and none after one below it.
LEMMA OrderedDefinitions ==
  ASSUME NEW s \in Seq(Entry), StrictlyOrdered(s),
         NEW i \in 1..Len(s), NEW j \in 1..Len(s), i < j,
         s[i].kind \notin Whiteouts, s[j].kind \notin Whiteouts
  PROVE  s[i].path # s[j].path /\ ~Below(s[i].path, s[j].path)
<1> DEFINE p == ArchivePath(s[i])
           q == ArchivePath(s[j])
<1>0. s[i] \in Entry /\ s[j] \in Entry
  BY ElementOfSeq
<1>1. /\ p \in Seq(Nat) /\ Len(p) = Len(s[i].path)
      /\ \A k \in 1..Len(s[i].path) : p[k] = MaxName + s[i].path[k]
  BY <1>0, ArchivePathIs
<1>2. /\ q \in Seq(Nat) /\ Len(q) = Len(s[j].path)
      /\ \A k \in 1..Len(s[j].path) : q[k] = MaxName + s[j].path[k]
  BY <1>0, ArchivePathIs
<1>3. Precedes(p, q)
  BY OrderedPairs
<1>4. s[i].path \in PathOf /\ s[j].path \in PathOf
  BY <1>0, EntryParts
<1> HIDE DEF p, q
<1>5. Len(s[i].path) \in Nat /\ Len(s[j].path) \in Nat
  BY <1>4, LenProperties DEF PathOf
<1>6. ASSUME s[i].path = s[j].path PROVE FALSE
  <2>1. Len(p) = Len(q) /\ \A k \in 1..Len(p) : p[k] = q[k]
    BY <1>1, <1>2, <1>6
  <2>3. p = q
    BY <1>1, <1>2, <2>1, SeqEqual
  <2>2. QED
    BY <1>1, <1>3, <2>3, PrecedesNotItself
<1>7. ASSUME Below(s[i].path, s[j].path) PROVE FALSE
  <2>0. Len(s[i].path) > Len(s[j].path)
        /\ \A k \in 1..Len(s[j].path) : s[i].path[k] = s[j].path[k]
    BY <1>4, <1>7, BelowIs
  <2>a. Len(q) < Len(p)
    BY <1>1, <1>2, <1>5, <2>0
  <2>b. ASSUME NEW k \in 1..Len(q) PROVE p[k] = q[k]
    <3>1. k \in 1..Len(s[j].path) /\ k \in 1..Len(s[i].path)
      BY <1>2, <1>5, <2>0
    <3>2. QED
      BY <1>1, <1>2, <2>0, <3>1
  <2>1. Len(q) < Len(p) /\ \A k \in 1..Len(q) : p[k] = q[k]
    BY <2>a, <2>b
  <2>2. Precedes(q, p)
    BY <1>1, <1>2, <2>1, AbovePrecedes
  <2>3. QED
    BY <1>1, <1>2, <1>3, <2>2, PrecedesTransitive, PrecedesNotItself
<1>8. QED
  BY <1>6, <1>7

(***************************************************************************)
(* What one more layer does to a stack                                     *)
(***************************************************************************)

Stackable == [Layer -> Seq(Entry)]

DefinedIn(im, l, p) == \E e \in InLayer(im, l) : Defines(e, p)
HiddenIn(im, l, p) == \E e \in InLayer(im, l) : Hides(e, p)

LEMMA LayerNumbers ==
  /\ Len(BlobOrder) \in Nat /\ Layer \subseteq Nat /\ 1 \in Layer
  /\ \A l \in Layer : l \in 1..Len(BlobOrder) /\ l - 1 \in Nat
<1>1. Len(BlobOrder) \in Nat
  BY ReplayAssumption, LenProperties
<1>2. QED
  BY <1>1, ReplayAssumption DEF Layer

LEMMA InLayerIs ==
  ASSUME NEW im \in Stackable, NEW l \in Layer
  PROVE  /\ im[l] \in Seq(Entry) /\ Len(im[l]) \in Nat
         /\ \A i \in 1..Len(im[l]) : im[l][i] \in Entry /\ im[l][i] \in InLayer(im, l)
         /\ \A e \in InLayer(im, l) : e \in Entry
<1>1. im[l] \in Seq(Entry)
  BY DEF Stackable
<1>2. Len(im[l]) \in Nat /\ \A i \in 1..Len(im[l]) : im[l][i] \in Entry
  BY <1>1, LenProperties
<1>3. QED
  BY <1>1, <1>2 DEF InLayer

LEMMA HoldersStep ==
  ASSUME NEW im \in Stackable, NEW l \in Layer, NEW p
  PROVE  /\ l \in Holders(im, l, p) <=> DefinedIn(im, l, p)
         /\ \A k : k # l => (k \in Holders(im, l, p)
                               <=> k \in Holders(im, l - 1, p) /\ ~HiddenIn(im, l, p))
         /\ \A k \in Holders(im, l, p) : k \in Nat /\ k <= l
<1>0. l \in Nat /\ l >= 1
  BY LayerNumbers DEF Layer
<1>1. l \in Holders(im, l, p) <=> DefinedIn(im, l, p)
  <2>1. (l + 1)..l = {} /\ l \in 1..l
    BY <1>0
  <2>2. QED
    BY <2>1 DEF Holders, DefinedIn
<1>2. ASSUME NEW k, k # l
      PROVE  k \in Holders(im, l, p) <=> k \in Holders(im, l - 1, p) /\ ~HiddenIn(im, l, p)
  <2>1. k \in 1..l <=> k \in 1..(l - 1)
    BY <1>0, <1>2
  <2>2. ASSUME k \in 1..l
        PROVE  /\ l \in (k + 1)..l
               /\ \A m : m \in (k + 1)..l <=> m \in (k + 1)..(l - 1) \/ m = l
    BY <1>0, <1>2, <2>2
  <2>3. QED
    BY <2>1, <2>2 DEF Holders, HiddenIn
<1>3. \A k \in Holders(im, l, p) : k \in Nat /\ k <= l
  BY <1>0 DEF Holders
<1>4. QED
  BY <1>1, <1>2, <1>3

LEMMA StackDomain ==
  ASSUME NEW im \in Stackable, NEW l \in Layer
  PROVE  \A p : p \in DOMAIN Stack(im, l)
                  <=> \/ DefinedIn(im, l, p)
                      \/ p \in DOMAIN Stack(im, l - 1) /\ ~HiddenIn(im, l, p)
<1> SUFFICES ASSUME NEW p
             PROVE  p \in LivePaths(im, l) <=> \/ DefinedIn(im, l, p)
                                               \/ p \in LivePaths(im, l - 1) /\ ~HiddenIn(im, l, p)
  BY DEF Stack
<1>1. DefinedIn(im, l, p) => p \in PathsOf(im)
  BY DEF DefinedIn, Defines, PathsOf, Stackable
<1>2. Holders(im, l, p) # {} <=> \/ DefinedIn(im, l, p)
                                 \/ Holders(im, l - 1, p) # {} /\ ~HiddenIn(im, l, p)
  <2>1. l \notin Holders(im, l - 1, p)
    BY LayerNumbers DEF Holders
  <2>2. QED
    BY <2>1, HoldersStep
<1>3. QED
  BY <1>1, <1>2 DEF LivePaths

LEMMA StackBase ==
  ASSUME NEW im \in Stackable
  PROVE  DOMAIN Stack(im, 0) = {}
<1>1. \A p : Holders(im, 0, p) = {}
  BY DEF Holders
<1>2. QED
  BY <1>1 DEF Stack, LivePaths

\* What a layer does not define it leaves.
LEMMA StackOld ==
  ASSUME NEW im \in Stackable, NEW l \in Layer, NEW p \in DOMAIN Stack(im, l),
         ~DefinedIn(im, l, p)
  PROVE  p \in DOMAIN Stack(im, l - 1) /\ Stack(im, l)[p] = Stack(im, l - 1)[p]
<1>1. p \in DOMAIN Stack(im, l - 1) /\ ~HiddenIn(im, l, p)
  BY StackDomain
<1>2. Holders(im, l, p) = Holders(im, l - 1, p)
  <2>1. l \notin Holders(im, l, p) /\ l \notin Holders(im, l - 1, p)
    BY HoldersStep, LayerNumbers DEF Holders
  <2>2. QED
    BY <1>1, <2>1, HoldersStep
<1>3. Definition(im, l, p) = Definition(im, l - 1, p)
  BY <1>2 DEF Definition
<1>4. QED
  BY <1>1, <1>3 DEF Stack

\* What it defines counts.
LEMMA StackNew ==
  ASSUME NEW im \in Stackable, NEW l \in Layer, NEW e \in InLayer(im, l),
         e.kind \notin Whiteouts,
         \A f \in InLayer(im, l) : Defines(f, e.path) => f = e
  PROVE  e.path \in DOMAIN Stack(im, l) /\ Stack(im, l)[e.path] = e
<1> DEFINE p == e.path
           H == Holders(im, l, p)
<1>1. Defines(e, p) /\ DefinedIn(im, l, p)
  BY DEF Defines, DefinedIn
<1>2. l \in H /\ \A m \in H : m \in Nat /\ m <= l
  BY <1>1, HoldersStep
<1>3. (CHOOSE k \in H : \A m \in H : m <= k) = l
  <2>1. l \in Nat
    BY LayerNumbers
  <2> HIDE DEF H
  <2>2. \A k \in H : (\A m \in H : m <= k) => k = l
    BY <1>2, <2>1
  <2>3. QED
    BY <1>2, <2>2
<1>4. (CHOOSE f \in InLayer(im, l) : Defines(f, p)) = e
  BY <1>1
<1>5. Definition(im, l, p) = e
  BY <1>3, <1>4 DEF Definition
<1>6. p \in DOMAIN Stack(im, l)
  BY <1>1, StackDomain
<1>7. QED
  BY <1>5, <1>6 DEF Stack

(***************************************************************************)
(* The inductive invariant                                                 *)
(***************************************************************************)

Operation == [layer : Layer, index : Nat \ {0}, entry : Entry, extent : Nat]
Stretch == [layer : Layer, index : Nat \ {0}, offset : Nat, digest : Seq(Byte)]
Told == [layer : Layer, index : Nat \ {0}, entry : Entry, digest : Seq(Byte)]

JournalTypes ==
  /\ image \in Images
  /\ sink \in Layer \cup {None} /\ blob \in Nat \ {0} /\ next \in Nat \ {0}
  /\ spoolBytes \in Nat
  /\ extents \in Seq(Stretch) /\ operations \in Seq(Operation)
  /\ bySource \in [Layer -> Seq(Nat)] /\ captured \in [Layer -> Nat]
  /\ transcript \in [Layer -> [done : Seq(Entry), open : Entry \cup {None}]]
  /\ open # None => open \in Opening

\* Operation k of a journal stands for an entry, its payload in an extent.
RecordsIn(ops, exts, k, e) ==
  /\ k \in 1..Len(ops)
  /\ ops[k].entry = Header(e)
  /\ IF e.kind = "regular"
     THEN ops[k].extent \in 1..Len(exts) /\ exts[ops[k].extent].digest = e.payload
     ELSE ops[k].extent = 0

Records(k, e) == RecordsIn(operations, extents, k, e)

\* The journal of a layer stands for the transcript of it.
Recorded(l) ==
  /\ Len(bySource[l]) = captured[l] /\ Len(transcript[l].done) = captured[l]
  /\ captured[l] <= Len(operations)
  /\ \A i \in 1..captured[l] : /\ Records(bySource[l][i], transcript[l].done[i])
                               /\ operations[bySource[l][i]].layer = l
                               /\ operations[bySource[l][i]].index = i
                               /\ Len(transcript[l].done[i].payload) <= MaxTarBytes

\* The regular file being written.
Opened ==
  sinkState = "regular" /\ sink # None /\ ~poisoned =>
    /\ open \in Opening /\ open.entry.kind = "regular"
    /\ open.index = captured[sink] + 1
    /\ Len(open.written) <= Len(open.entry.payload)
    /\ transcript[sink].open = [open.entry EXCEPT !.payload = open.written]
    /\ spoolBytes + Len(open.entry.payload) <= MaxTarBytes
    /\ Len(operations) < MaxTarEntries

Heard == [l \in Layer |-> transcript[l].done]

Measured ==
  /\ Len(operations) <= MaxTarEntries /\ spoolBytes <= MaxTarBytes
  /\ IsFiniteSet(Volume(Heard)) /\ Cardinality(Volume(Heard)) = spoolBytes
  /\ IsFiniteSet(Positions(Heard)) /\ Cardinality(Positions(Heard)) = Len(operations)

JournalInv ==
  /\ JournalTypes /\ Opened /\ Measured
  /\ \A l \in Layer : Recorded(l)

\* The transcript of a layer says what the journal has of it.
LinesKept ==
  /\ DOMAIN lines = Layer
  /\ \A l \in Layer :
       lines[l] = [i \in 1..captured[l] |-> Line(operations[bySource[l][i]], extents)]

\* What has been taken is within the limits, until a call fails.
LimitInv ==
  ~poisoned =>
    /\ LinesKept
    /\ metadata = Reserved + (IF open = None THEN 0 ELSE Charge(open.entry))
    /\ metadata <= MaxMetadata
    /\ open # None => Len(open.entry.payload) <= MaxFileBytes
    /\ \A l \in Layer : \A i \in 1..captured[l] :
         Len(transcript[l].done[i].payload) <= MaxFileBytes

Staging == {"begin", "replay", "seal", "journal"}
Walking == {"check", "whiteout", "entry"}
Projected == {"effects", "spool", "retained", "revalidated"}

\* How far the transcripts have been compared with the image.
SealInv ==
  /\ phase \in Staging \cup Walking \cup Projected \cup {"discarded"}
  /\ phase \in Staging => live = <<>> /\ counters = Zero /\ cursor = 1 /\ rootEffect = None
  /\ phase = "journal" => layer = 1
  /\ phase = "seal" => /\ layer \in Layer
                       /\ \A m \in Layer : m < layer => transcript[m].done = image[m]
  /\ phase \in {"journal"} \cup Walking \cup Projected =>
       ~poisoned /\ \A l \in Layer : transcript[l].done = image[l]
  /\ phase \in Walking \cup Projected =>
       /\ \A l \in Layer : StrictlyOrdered(image[l])
       /\ Cardinality(Positions(image)) <= MaxTarEntries
  /\ phase \in Walking => layer \in Layer /\ cursor \in Nat \ {0}

Listed(p) ==
  /\ live[p] = [definition |-> live[p].definition, last |-> live[p].last]
  /\ live[p].definition \in 1..Len(operations)
  /\ EntryOf(p).kind \in {"regular", "directory", "symlink"}
  /\ SizeOf(live[p].definition) \in 0..MaxTarBytes

\* Everything a live path lies below is a live directory.
TreeInv ==
  /\ IsFiniteSet(DOMAIN live)
  /\ \A p \in DOMAIN live :
       /\ p \in PathOf /\ p # <<>>
       /\ Listed(p)
       /\ \A q \in PathOf : q # <<>> /\ Below(p, q) => LiveDirectory(q)

CountInv ==
  counters = [entries |-> Cardinality(DOMAIN live),
              regular |-> KindAt(DOMAIN live, "regular"),
              directory |-> KindAt(DOMAIN live, "directory"),
              symlink |-> KindAt(DOMAIN live, "symlink"),
              bytes |-> BytesAt(DOMAIN live)]

\* What the entries of a layer before the c-th do to a path.
Upto(L, c) == {i \in 1..Len(L) : i < c}
Given(L, c) == {i \in Upto(L, c) : L[i].kind \notin Whiteouts}
Whited(L, c, p) == \E i \in Upto(L, c) : L[i].kind \in Whiteouts /\ Hides(L[i], p)
Covered(L, c, p) == \E i \in Upto(L, c) : L[i].kind \notin Whiteouts /\ Hides(L[i], p)
Swept(L, p) == \E i \in 1..Len(L) : L[i].kind \in Whiteouts /\ Hides(L[i], p)

\* The projection stands for a stack, or for one with a part of the next layer.
Stands(stack) ==
  /\ DOMAIN live = DOMAIN stack
  /\ \A p \in DOMAIN live : Records(live[p].definition, stack[p])

StandsWhited(stack, L, c) ==
  /\ DOMAIN live = {p \in DOMAIN stack : ~Whited(L, c, p)}
  /\ \A p \in DOMAIN live : Records(live[p].definition, stack[p])

StandsEntered(stack, L, c) ==
  /\ DOMAIN live = {L[i].path : i \in Given(L, c)}
                     \cup {p \in DOMAIN stack : ~Swept(L, p) /\ ~Covered(L, c, p)}
  /\ \A i \in Given(L, c) : Records(live[L[i].path].definition, L[i])
  /\ \A p \in DOMAIN live : (\A i \in Given(L, c) : L[i].path # p)
                              => Records(live[p].definition, stack[p])

\* No directory has been put over something else.
Suits(stack, L, i) ==
  L[i].kind = "directory" /\ L[i].path \in DOMAIN stack /\ ~Swept(L, L[i].path)
    => stack[L[i].path].kind = "directory"

Lower == Stack(image, layer - 1)

MirrorInv ==
  /\ phase = "check" => Stands(Lower)
  /\ phase = "whiteout" => StandsWhited(Lower, image[layer], cursor)
  /\ phase = "entry" => /\ StandsEntered(Lower, image[layer], cursor)
                        /\ \A i \in Given(image[layer], cursor) : Suits(Lower, image[layer], i)
  /\ phase \in {"whiteout", "entry"} => WhiteoutsAgree(image[layer], Lower)
  /\ phase \in Projected => Stands(Stack(image, Len(BlobOrder)))
  /\ phase \in Walking => \A m \in Layer : m < layer => Admissible(image, m)
  /\ phase \in Projected => \A m \in Layer : Admissible(image, m)

SpoolInv ==
  phase \in {"retained", "revalidated"} /\ ~altered =>
    \A x \in 1..Len(extents) :
      SubSeq(spool, extents[x].offset + 1, extents[x].offset + Len(extents[x].digest))
        = extents[x].digest

ReplayInv == JournalInv /\ LimitInv /\ SealInv /\ TreeInv /\ CountInv /\ MirrorInv /\ SpoolInv

(***************************************************************************)
(* The journal and the transcripts                                         *)
(***************************************************************************)

LEMMA HeaderIs ==
  ASSUME NEW e \in Entry
  PROVE  /\ Header(e) \in Entry
         /\ Header(e).kind = e.kind /\ Header(e).path = e.path
         /\ e.kind # "regular" => Header(e) = e
         /\ \A s \in Seq(Byte) : e.kind = "regular" =>
              /\ [e EXCEPT !.payload = s] \in Entry
              /\ Header([e EXCEPT !.payload = s]) = Header(e)
              /\ [e EXCEPT !.payload = s].payload = s
              /\ [e EXCEPT !.payload = s].kind = e.kind
              /\ \A b \in Byte : [[e EXCEPT !.payload = s] EXCEPT !.payload = Append(s, b)]
                                   = [e EXCEPT !.payload = Append(s, b)]
<1>1. <<>> \in Seq(Byte)
  OBVIOUS
<1>2. QED
  BY <1>1 DEF Header, Entry

LEMMA RecordsGrow ==
  ASSUME NEW ops \in Seq(Operation), NEW exts \in Seq(Stretch),
         NEW k, NEW e, RecordsIn(ops, exts, k, e)
  PROVE  /\ \A op \in Operation : RecordsIn(Append(ops, op), exts, k, e)
         /\ \A x \in Stretch : RecordsIn(ops, Append(exts, x), k, e)
<1>1. Len(ops) \in Nat /\ Len(exts) \in Nat
  BY LenProperties
<1>2. ASSUME NEW op \in Operation PROVE RecordsIn(Append(ops, op), exts, k, e)
  <2>1. k \in 1..Len(ops) /\ Len(Append(ops, op)) = Len(ops) + 1 /\ Append(ops, op)[k] = ops[k]
    BY <1>1, AppendProperties DEF RecordsIn
  <2>2. QED
    BY <1>1, <2>1 DEF RecordsIn
<1>3. ASSUME NEW x \in Stretch PROVE RecordsIn(ops, Append(exts, x), k, e)
  <2>1. /\ Len(Append(exts, x)) = Len(exts) + 1
        /\ \A y \in 1..Len(exts) : Append(exts, x)[y] = exts[y] /\ y \in 1..(Len(exts) + 1)
    BY <1>1, AppendProperties
  <2>2. QED
    BY <2>1 DEF RecordsIn
<1>4. QED
  BY <1>2, <1>3

LEMMA Enumerated ==
  ASSUME NEW n \in Nat, NEW S, NEW f \in [1..n -> S],
         \A i, j \in 1..n : f[i] = f[j] => i = j,
         \A x \in S : \E i \in 1..n : f[i] = x
  PROVE  IsFiniteSet(S) /\ Cardinality(S) = n
<1>1. f \in Bijection(1..n, S)
  BY Zenon DEF Bijection, Injection, IsInjective, Surjection
<1>2. ExistsBijection(1..n, S)
  BY <1>1, Zenon DEF ExistsBijection
<1>3. QED
  BY <1>2, FS_NatBijection, FS_CountingElements

\* The volume of the layers grows by the payload of what is appended to one.
LEMMA VolumeGrows ==
  ASSUME NEW D \in Stackable, NEW l \in Layer, NEW e \in Entry,
         Len(D[l]) < MaxTarEntries, Len(e.payload) <= MaxTarBytes,
         IsFiniteSet(Volume(D))
  PROVE  LET E == [D EXCEPT ![l] = Append(D[l], e)]
         IN IsFiniteSet(Volume(E)) /\ Cardinality(Volume(E)) = Cardinality(Volume(D)) + Len(e.payload)
<1> DEFINE E == [D EXCEPT ![l] = Append(D[l], e)]
           n == Len(D[l]) + 1
           m == Len(e.payload)
           N == {x \in Layer \X (1..(MaxTarEntries + 1)) \X (1..(MaxTarBytes + 1)) :
                   x[1] = l /\ x[2] = n /\ x[3] <= m}
<1>0. /\ DOMAIN D = Layer /\ DOMAIN E = Layer /\ D[l] \in Seq(Entry) /\ E[l] = Append(D[l], e)
      /\ \A k \in Layer : k # l => E[k] = D[k]
  BY DEF Stackable
<1>1. m \in Nat /\ n \in Nat /\ n >= 1 /\ MaxTarEntries \in Nat /\ MaxTarBytes \in Nat
      /\ Len(D[l]) \in Nat /\ n <= MaxTarEntries
  BY <1>0, EntryParts, LenProperties, LimitAssumption
<1>2. Len(E[l]) = n /\ E[l][n] = e /\ \A i \in 1..Len(D[l]) : E[l][i] = D[l][i]
  BY <1>0, AppendProperties
<1> HIDE DEF E, n, m
<1>3. Volume(E) = Volume(D) \cup N /\ Volume(D) \cap N = {}
  <2> DEFINE U == Layer \X (1..(MaxTarEntries + 1)) \X (1..(MaxTarBytes + 1))
  <2>1. \A x \in Volume(D) : x \in U
    BY <1>0 DEF Volume
  <2>2. \A x \in Volume(E) : x \in U
    BY <1>0 DEF Volume
  <2>3. ASSUME NEW x \in U
        PROVE  x \in Volume(E) <=> x \in Volume(D) \/ x \in N
    <3>0. x[1] \in Layer /\ x[2] \in 1..(MaxTarEntries + 1) /\ x[3] \in 1..(MaxTarBytes + 1)
      OBVIOUS
    <3>1. CASE x[1] # l
      BY <1>0, <3>0, <3>1 DEF Volume
    <3>2. CASE x[1] = l /\ x[2] = n
      <4>1. x \in Volume(E) <=> x[3] <= m
        BY <1>0, <1>1, <1>2, <3>0, <3>2 DEF Volume, m
      <4>2. x \in N <=> x[3] <= m
        BY <3>2
      <4>3. x \notin Volume(D)
        BY <1>0, <1>1, <3>0, <3>2 DEF Volume, n
      <4>4. QED
        BY <4>1, <4>2, <4>3
    <3>3. CASE x[1] = l /\ x[2] # n
      <4>1. x[2] <= Len(E[l]) <=> x[2] <= Len(D[l])
        BY <1>0, <1>1, <1>2, <3>0, <3>3 DEF n
      <4>2. x[2] <= Len(D[l]) => E[l][x[2]] = D[l][x[2]]
        BY <1>1, <1>2, <3>0
      <4>3. x \in Volume(E) <=> x \in Volume(D)
        BY <1>0, <3>3, <4>1, <4>2 DEF Volume
      <4>4. QED
        BY <3>3, <4>3
    <3>4. QED
      BY <3>1, <3>2, <3>3
  <2>4. \A x \in Volume(D) : x \notin N
    BY <1>0, <1>1 DEF Volume, n
  <2>5. QED
    BY <2>1, <2>2, <2>3, <2>4
<1>4. IsFiniteSet(N) /\ Cardinality(N) = m
  <2> DEFINE f == [j \in 1..m |-> <<l, n, j>>]
  <2>1. \A j \in 1..m : <<l, n, j>> \in N
    BY <1>1 DEF m
  <2>2. ASSUME NEW x \in N PROVE \E j \in 1..m : f[j] = x
    <3>1. x[3] \in 1..m /\ x = <<l, n, x[3]>>
      BY <1>1
    <3>2. QED
      BY <3>1
  <2>3. f \in [1..m -> N] /\ \A i, j \in 1..m : f[i] = f[j] => i = j
    BY <2>1
  <2> HIDE DEF f, N
  <2>4. QED
    BY <1>1, <2>2, <2>3, Enumerated
<1> HIDE DEF N
<1>5. /\ IsFiniteSet(Volume(D) \cup N)
      /\ Cardinality(Volume(D) \cup N)
           = Cardinality(Volume(D)) + Cardinality(N) - Cardinality(Volume(D) \cap N)
  BY <1>4, FS_Union
<1>6. Cardinality(Volume(D) \cap N) = 0 /\ Cardinality(Volume(D)) \in Nat
  BY <1>3, FS_EmptySet, FS_CardinalityType
<1>7. IsFiniteSet(Volume(E)) /\ Cardinality(Volume(E)) = Cardinality(Volume(D)) + m
  BY <1>1, <1>3, <1>4, <1>5, <1>6
<1>8. QED
  BY <1>7 DEF E, m

LEMMA PositionsGrow ==
  ASSUME NEW D \in Stackable, NEW l \in Layer, NEW e \in Entry,
         Len(D[l]) <= MaxTarEntries, IsFiniteSet(Positions(D))
  PROVE  LET E == [D EXCEPT ![l] = Append(D[l], e)]
             x == <<l, Len(D[l]) + 1>>
         IN /\ Positions(E) = Positions(D) \cup {x} /\ x \notin Positions(D)
            /\ IsFiniteSet(Positions(E)) /\ Cardinality(Positions(E)) = Cardinality(Positions(D)) + 1
<1> DEFINE E == [D EXCEPT ![l] = Append(D[l], e)]
           x == <<l, Len(D[l]) + 1>>
<1>0. /\ DOMAIN D = Layer /\ DOMAIN E = Layer /\ D[l] \in Seq(Entry) /\ E[l] = Append(D[l], e)
      /\ \A k \in Layer : k # l => E[k] = D[k]
  BY DEF Stackable
<1>1. MaxTarEntries \in Nat /\ Len(D[l]) \in Nat /\ Len(E[l]) = Len(D[l]) + 1
  BY <1>0, LenProperties, AppendProperties, LimitAssumption
<1> HIDE DEF E
<1>2. Positions(E) = Positions(D) \cup {x}
  <2>1. ASSUME NEW y \in Layer \X (1..(MaxTarEntries + 1))
        PROVE  y[2] <= Len(E[y[1]]) <=> y[2] <= Len(D[y[1]]) \/ y = x
    <3>1. CASE y[1] # l
      BY <1>0, <3>1
    <3>2. CASE y[1] = l
      <4>1. y = x <=> y[2] = Len(D[l]) + 1
        BY <3>2
      <4>2. QED
        BY <1>1, <3>2, <4>1
    <3>3. QED
      BY <3>1, <3>2
  <2>2. x \in Layer \X (1..(MaxTarEntries + 1))
    BY <1>1
  <2> HIDE DEF x
  <2>3. QED
    BY <1>0, <2>1, <2>2 DEF Positions
<1>3. x \notin Positions(D)
  BY <1>1 DEF Positions
<1> HIDE DEF x
<1>4. IsFiniteSet(Positions(E)) /\ Cardinality(Positions(E)) = Cardinality(Positions(D)) + 1
  BY <1>2, <1>3, FS_AddElement
<1>5. QED
  BY <1>2, <1>3, <1>4 DEF E, x

LEMMA JournalStart ==
  ASSUME Init
  PROVE  JournalInv
<1>1. JournalTypes
  <2>1. [done |-> <<>>, open |-> None] \in [done : Seq(Entry), open : Entry \cup {None}]
    OBVIOUS
  <2>2. QED
    BY <2>1 DEF Init, JournalTypes
<1>2. Opened
  BY DEF Init, Opened
<1>3. Measured
  <2>1. Volume(Heard) = {} /\ Positions(Heard) = {}
    <3>1. \A l \in Layer : transcript[l].done = <<>>
      BY DEF Init
    <3>2. QED
      BY <3>1 DEF Heard, Volume, Positions
  <2>2. QED
    BY <2>1, FS_EmptySet, LimitAssumption DEF Init, Measured
<1>4. ASSUME NEW l \in Layer PROVE Recorded(l)
  BY DEF Init, Recorded
<1>5. QED
  BY <1>1, <1>2, <1>3, <1>4 DEF JournalInv

JournalState == <<image, spoolBytes, extents, operations, bySource, captured, transcript, open>>

\* Most steps leave the journal as it is and begin no file.
LEMMA JournalKept ==
  ASSUME JournalInv, UNCHANGED JournalState, sink' \in Layer \cup {None},
         {blob', next'} \subseteq Nat \ {0},
         sinkState' = "regular" /\ sink' # None /\ ~poisoned'
           => sinkState = "regular" /\ sink' = sink /\ ~poisoned
  PROVE  JournalInv'
<1>1. JournalTypes'
  BY DEF JournalInv, JournalTypes, JournalState
<1>2. Opened'
  BY DEF JournalInv, Opened, JournalState
<1>3. Measured'
  BY DEF JournalInv, Measured, Heard, JournalState
<1>4. ASSUME NEW l \in Layer PROVE Recorded(l)'
  BY DEF JournalInv, Recorded, Records, JournalState
<1>5. QED
  BY <1>1, <1>2, <1>3, <1>4 DEF JournalInv

LEMMA OfferedIs ==
  ASSUME JournalTypes, NEW e \in Offered
  PROVE  e \in Entry
<1>1. CASE e \in Strays
  BY <1>1, ReplayAssumption
<1>2. CASE sink # None /\ next <= Len(image[sink]) /\ e = image[sink][next]
  <2>1. sink \in Layer /\ image[sink] \in Seq(Entry) /\ next \in 1..Len(image[sink])
    BY <1>2, ReplayAssumption, LenProperties DEF JournalTypes
  <2>2. QED
    BY <1>2, <2>1, ElementOfSeq
<1>3. QED
  BY <1>1, <1>2 DEF Offered

LEMMA JournalBegins ==
  ASSUME JournalInv, NEW e \in Offered, BeginRegular(e)
  PROVE  JournalInv'
<1>0. {blob', next'} \subseteq Nat \ {0} /\ sink \in Layer /\ e \in Entry /\ e.kind = "regular"
  BY OfferedIs DEF JournalInv, JournalTypes, BeginRegular, Delivers
<1>2. CASE Stageable(e) /\ ~Poison
  <2> DEFINE new == [layer |-> sink, index |-> captured[sink] + 1, entry |-> e,
                     offset |-> spoolBytes, written |-> <<>>]
  <2>1. /\ transcript' = [transcript EXCEPT ![sink].open = Header(e)] /\ open' = new
        /\ UNCHANGED <<image, sink, poisoned, spoolBytes, extents, operations, bySource, captured>>
    BY <1>2 DEF BeginRegular, Calling
  <2>2. transcript' \in [Layer -> [done : Seq(Entry), open : Entry \cup {None}]]
        /\ transcript'[sink].open = Header(e)
        /\ \A l \in Layer : transcript'[l].done = transcript[l].done
    <3>1. Header(e) \in Entry
      BY <1>0, HeaderIs
    <3>2. QED
      BY <1>0, <2>1, <3>1 DEF JournalInv, JournalTypes
  <2>3. new \in Opening
    BY <1>0 DEF JournalInv, JournalTypes, Opening
  <2>4. JournalTypes'
    BY <1>0, <2>1, <2>2, <2>3 DEF JournalInv, JournalTypes
  <2>5. Opened'
    <3>1. Header(e) = [e EXCEPT !.payload = <<>>]
      BY DEF Header
    <3>2. spoolBytes + Len(e.payload) <= MaxTarBytes /\ Len(operations) < MaxTarEntries
      BY <1>0, <1>2 DEF Stageable
    <3>3. Len(e.payload) \in Nat
      BY <1>0, EntryParts, LenProperties
    <3>4. Len(open'.written) <= Len(open'.entry.payload)
      BY <2>1, <3>3
    <3>5. QED
      BY <1>0, <2>1, <2>2, <2>3, <3>1, <3>2, <3>4 DEF Opened
  <2>6. Measured'
    <3>1. Heard' = Heard
      BY <2>2 DEF Heard
    <3>2. QED
      BY <2>1, <3>1 DEF JournalInv, Measured
  <2>7. ASSUME NEW l \in Layer PROVE Recorded(l)'
    BY <2>1, <2>2 DEF JournalInv, Recorded, Records
  <2>8. QED
    BY <2>4, <2>5, <2>6, <2>7 DEF JournalInv
<1>3. QED
  <2>1. CASE Poison
    <3>1. JournalState' = JournalState /\ sink' = sink /\ poisoned'
      BY <2>1 DEF BeginRegular, Calling, Poison, journalVars, JournalState
    <3>2. QED
      BY <1>0, <3>1, JournalKept
  <2>2. QED
    BY <1>2, <2>1 DEF BeginRegular

LEMMA JournalWrites ==
  ASSUME JournalInv, NEW b \in Byte, WriteChunk(b)
  PROVE  JournalInv'
<1>0. /\ sink \in Layer /\ sink # None /\ sinkState = "regular" /\ ~poisoned
      /\ UNCHANGED <<image, blob, next>> /\ {blob, next} \subseteq Nat \ {0}
  BY DEF WriteChunk, Calling, JournalInv, JournalTypes
<1>1. CASE Poison
  <2>1. JournalState' = JournalState /\ sink' = sink /\ poisoned'
    BY <1>0, <1>1 DEF Poison, journalVars, JournalState
  <2>2. QED
    BY <1>0, <2>1, JournalKept
<1>2. CASE ~Poison
  <2>1. /\ Len(open.written) < Len(open.entry.payload)
        /\ open' = [open EXCEPT !.written = Append(@, b)]
        /\ transcript' = [transcript EXCEPT ![sink].open.payload = Append(@, b)]
        /\ UNCHANGED <<sink, sinkState, poisoned, spoolBytes, extents, operations, bySource, captured>>
    BY <1>2 DEF WriteChunk
  <2>2. /\ open \in Opening /\ open.entry.kind = "regular" /\ open.index = captured[sink] + 1
        /\ transcript[sink].open = [open.entry EXCEPT !.payload = open.written]
        /\ spoolBytes + Len(open.entry.payload) <= MaxTarBytes /\ Len(operations) < MaxTarEntries
    BY <1>0 DEF JournalInv, Opened
  <2> DEFINE w == Append(open.written, b)
  <2>3. /\ w \in Seq(Byte) /\ Len(w) = Len(open.written) + 1 /\ open.written \in Seq(Byte)
        /\ Len(open.written) \in Nat /\ Len(open.entry.payload) \in Nat /\ open.entry \in Entry
    BY <2>2, AppendProperties, LenProperties, EntryParts DEF Opening
  <2>4. open' \in Opening /\ open'.entry = open.entry /\ open'.written = w /\ open'.index = open.index
    BY <2>1, <2>2, <2>3 DEF Opening
  <2> HIDE DEF w
  <2>5. /\ transcript[sink].open.payload = open.written
        /\ [transcript[sink].open EXCEPT !.payload = w] = [open.entry EXCEPT !.payload = w]
        /\ [open.entry EXCEPT !.payload = w] \in Entry
    BY <2>2, <2>3, HeaderIs DEF w
  <2>6. /\ transcript'[sink].open = [open.entry EXCEPT !.payload = w]
        /\ transcript' \in [Layer -> [done : Seq(Entry), open : Entry \cup {None}]]
        /\ \A l \in Layer : transcript'[l].done = transcript[l].done
    <3>1. transcript' = [transcript EXCEPT ![sink].open = [open.entry EXCEPT !.payload = w]]
      BY <1>0, <2>1, <2>5 DEF w, JournalInv, JournalTypes
    <3>2. QED
      BY <1>0, <2>5, <3>1, ZenonT(40) DEF JournalInv, JournalTypes
  <2>7. JournalTypes'
    BY <1>0, <2>1, <2>4, <2>6 DEF JournalInv, JournalTypes
  <2>8. Opened'
    <3>1. Len(open'.written) <= Len(open'.entry.payload)
      BY <2>1, <2>3, <2>4
    <3>2. transcript'[sink'].open = [open'.entry EXCEPT !.payload = open'.written]
      BY <2>1, <2>4, <2>6
    <3>3. QED
      BY <1>0, <2>1, <2>2, <2>4, <3>1, <3>2 DEF Opened
  <2>9. Measured'
    <3>1. Heard' = Heard
      BY <2>6 DEF Heard
    <3>2. QED
      BY <2>1, <3>1 DEF JournalInv, Measured
  <2>10. ASSUME NEW l \in Layer PROVE Recorded(l)'
    BY <2>1, <2>6 DEF JournalInv, Recorded, Records
  <2>11. QED
    BY <2>7, <2>8, <2>9, <2>10 DEF JournalInv
<1>3. QED
  BY <1>1, <1>2

\* One more operation of a layer in the journal, one more entry in its
\* transcript.
LEMMA JournalledIs ==
  ASSUME JournalInv, NEW l \in Layer, NEW op \in Operation, NEW e \in Entry,
         Journalled(l, op), Len(operations) < MaxTarEntries,
         Len(e.payload) <= MaxTarBytes,
         spoolBytes' = spoolBytes + Len(e.payload), spoolBytes' <= MaxTarBytes,
         transcript' \in [Layer -> [done : Seq(Entry), open : Entry \cup {None}]],
         transcript'[l].done = Append(transcript[l].done, e),
         \A m \in Layer : m # l => transcript'[m].done = transcript[m].done,
         \/ UNCHANGED extents
         \/ \E x \in Stretch : extents' = Append(extents, x),
         RecordsIn(operations', extents', Len(operations) + 1, e),
         op.layer = l, op.index = captured[l] + 1
  PROVE  /\ Measured' /\ \A m \in Layer : Recorded(m)'
         /\ spoolBytes' \in Nat /\ operations' \in Seq(Operation) /\ extents' \in Seq(Stretch)
         /\ bySource' \in [Layer -> Seq(Nat)] /\ captured' \in [Layer -> Nat]
<1>0. JournalTypes /\ Measured /\ \A m \in Layer : Recorded(m)
  BY DEF JournalInv
<1>1. /\ operations' = Append(operations, op)
      /\ bySource' = [bySource EXCEPT ![l] = Append(@, Len(operations) + 1)]
      /\ captured' = [captured EXCEPT ![l] = @ + 1]
  BY DEF Journalled
<1>2. /\ operations \in Seq(Operation) /\ extents \in Seq(Stretch) /\ Len(operations) \in Nat
      /\ operations' \in Seq(Operation) /\ Len(operations') = Len(operations) + 1
      /\ extents' \in Seq(Stretch)
  <2>1. /\ operations \in Seq(Operation) /\ extents \in Seq(Stretch) /\ Len(operations) \in Nat
    BY <1>0, LenProperties DEF JournalTypes
  <2>2. operations' \in Seq(Operation) /\ Len(operations') = Len(operations) + 1
    BY <1>1, <2>1, AppendProperties
  <2>3. extents' \in Seq(Stretch)
    <3>1. CASE extents' = extents
      BY <2>1, <3>1
    <3>2. CASE \E x \in Stretch : extents' = Append(extents, x)
      BY <2>1, <3>2, AppendProperties
    <3>3. QED
      BY <3>1, <3>2
  <2>4. QED
    BY <2>1, <2>2, <2>3
<1>3. /\ bySource' \in [Layer -> Seq(Nat)] /\ captured' \in [Layer -> Nat]
      /\ Len(e.payload) \in Nat /\ spoolBytes' \in Nat
  <2>1. Append(bySource[l], Len(operations) + 1) \in Seq(Nat)
    BY <1>0, <1>2, AppendProperties DEF JournalTypes
  <2>2. Len(e.payload) \in Nat
    BY EntryParts, LenProperties
  <2>3. bySource' \in [Layer -> Seq(Nat)]
    BY <1>0, <1>1, <2>1 DEF JournalTypes
  <2>4. captured' \in [Layer -> Nat]
    BY <1>0, <1>1 DEF JournalTypes
  <2>6. spoolBytes' \in Nat
    BY <1>0, <2>2 DEF JournalTypes
  <2>5. QED
    BY <2>2, <2>3, <2>4, <2>6
<1>4. ASSUME NEW k, NEW f, Records(k, f) PROVE Records(k, f)'
  <2>1. RecordsIn(operations', extents, k, f)
    BY <1>1, <1>2, <1>4, RecordsGrow DEF Records
  <2>2. RecordsIn(operations', extents', k, f)
    <3>1. CASE extents' = extents
      BY <2>1, <3>1
    <3>2. CASE \E x \in Stretch : extents' = Append(extents, x)
      BY <1>2, <2>1, <3>2, RecordsGrow
    <3>3. QED
      BY <3>1, <3>2
  <2>3. QED
    BY <2>2 DEF Records
<1>o. /\ operations'[Len(operations) + 1] = op
      /\ \A k \in 1..Len(operations) : operations'[k] = operations[k]
  BY <1>1, <1>2, AppendProperties
<1>5. ASSUME NEW m \in Layer PROVE Recorded(m)'
  <2>0. /\ captured[m] \in Nat /\ bySource[m] \in Seq(Nat) /\ transcript[m].done \in Seq(Entry)
        /\ Recorded(m)
    BY <1>0 DEF JournalTypes
  <2>1. CASE m # l
    <3>1. /\ bySource'[m] = bySource[m] /\ captured'[m] = captured[m]
          /\ transcript'[m].done = transcript[m].done
      BY <1>0, <1>1, <2>1 DEF JournalTypes
    <3>2. ASSUME NEW i \in 1..captured[m]
          PROVE  /\ Records(bySource[m][i], transcript[m].done[i])'
                 /\ operations'[bySource'[m][i]].layer = m /\ operations'[bySource'[m][i]].index = i
                 /\ Len(transcript'[m].done[i].payload) <= MaxTarBytes
      <4>1. /\ RecordsIn(operations', extents', bySource[m][i], transcript[m].done[i])
            /\ bySource[m][i] \in 1..Len(operations)
            /\ operations[bySource[m][i]].layer = m /\ operations[bySource[m][i]].index = i
            /\ Len(transcript[m].done[i].payload) <= MaxTarBytes
        <5>1. /\ Records(bySource[m][i], transcript[m].done[i])
              /\ operations[bySource[m][i]].layer = m /\ operations[bySource[m][i]].index = i
              /\ Len(transcript[m].done[i].payload) <= MaxTarBytes
          BY <2>0 DEF Recorded
        <5>2. Records(bySource[m][i], transcript[m].done[i]) => bySource[m][i] \in 1..Len(operations)
          BY DEF Records, RecordsIn
        <5>3. QED
          BY <1>4, <5>1, <5>2 DEF Records
      <4>2. QED
        BY <1>o, <3>1, <4>1 DEF Records
    <3>3. QED
      BY <1>2, <2>0, <3>1, <3>2 DEF Recorded
  <2>2. CASE m = l
    <3> DEFINE c == captured[l]
    <3>1. /\ bySource'[l] = Append(bySource[l], Len(operations) + 1) /\ captured'[l] = c + 1
          /\ transcript'[l].done = Append(transcript[l].done, e)
          /\ c \in Nat /\ Len(bySource[l]) = c /\ Len(transcript[l].done) = c
          /\ c <= Len(operations)
      BY <1>0, <1>1, <2>0, <2>2 DEF JournalTypes, Recorded
    <3>2. /\ Len(bySource'[l]) = c + 1 /\ Len(transcript'[l].done) = c + 1
          /\ bySource'[l][c + 1] = Len(operations) + 1 /\ transcript'[l].done[c + 1] = e
          /\ \A i \in 1..c : /\ bySource'[l][i] = bySource[l][i]
                             /\ transcript'[l].done[i] = transcript[l].done[i]
      <4>1. Len(operations) + 1 \in Nat
        BY <1>2
      <4>2. bySource[l] \in Seq(Nat) /\ transcript[l].done \in Seq(Entry)
        BY <2>0, <2>2
      <4>3. /\ Len(bySource'[l]) = c + 1 /\ bySource'[l][c + 1] = Len(operations) + 1
            /\ \A i \in 1..c : bySource'[l][i] = bySource[l][i]
        <5> DEFINE t == bySource[l]
                   a == Append(t, Len(operations) + 1)
        <5>1. /\ Len(a) = Len(t) + 1 /\ a[Len(t) + 1] = Len(operations) + 1
              /\ \A i \in 1..Len(t) : a[i] = t[i]
          BY <4>1, <4>2, AppendProperties
        <5> HIDE DEF a
        <5>2. a = bySource'[l]
          BY <3>1 DEF a
        <5>3. QED
          BY <3>1, <5>1, <5>2
      <4>4. /\ Len(transcript'[l].done) = c + 1 /\ transcript'[l].done[c + 1] = e
            /\ \A i \in 1..c : transcript'[l].done[i] = transcript[l].done[i]
        <5> DEFINE t == transcript[l].done
                   a == Append(t, e)
        <5>1. /\ Len(a) = Len(t) + 1 /\ a[Len(t) + 1] = e
              /\ \A i \in 1..Len(t) : a[i] = t[i]
          BY <4>2, AppendProperties
        <5> HIDE DEF a
        <5>2. a = transcript'[l].done
          BY <3>1 DEF a
        <5>3. QED
          BY <3>1, <5>1, <5>2
      <4>5. QED
        BY <4>3, <4>4
    <3>3. ASSUME NEW i \in 1..(c + 1)
          PROVE  /\ RecordsIn(operations', extents', bySource'[l][i], transcript'[l].done[i])
                 /\ operations'[bySource'[l][i]].layer = l /\ operations'[bySource'[l][i]].index = i
                 /\ Len(transcript'[l].done[i].payload) <= MaxTarBytes
      <4>1. CASE i = c + 1
        BY <1>o, <3>2, <4>1
      <4>2. CASE i \in 1..c
        <5>1. /\ RecordsIn(operations', extents', bySource[l][i], transcript[l].done[i])
              /\ bySource[l][i] \in 1..Len(operations)
              /\ operations[bySource[l][i]].layer = l /\ operations[bySource[l][i]].index = i
              /\ Len(transcript[l].done[i].payload) <= MaxTarBytes
          <6>1. /\ Records(bySource[l][i], transcript[l].done[i])
                /\ operations[bySource[l][i]].layer = l /\ operations[bySource[l][i]].index = i
                /\ Len(transcript[l].done[i].payload) <= MaxTarBytes
            BY <2>0, <2>2, <4>2 DEF Recorded
          <6>2. Records(bySource[l][i], transcript[l].done[i]) => bySource[l][i] \in 1..Len(operations)
            BY DEF Records, RecordsIn
          <6>3. QED
            BY <1>4, <6>1, <6>2 DEF Records
        <5>2. QED
          BY <1>o, <3>2, <4>2, <5>1, SMTT(40)
      <4>3. QED
        BY <3>1, <4>1, <4>2, SMTT(40)
    <3> HIDE DEF c
    <3>4. captured'[l] <= Len(operations')
      BY <1>2, <3>1
    <3>5. QED
      BY <2>2, <3>1, <3>2, <3>3, <3>4 DEF Recorded, Records
  <2>3. QED
    BY <2>1, <2>2
<1>6. Measured'
  <2> DEFINE D == [m \in Layer |-> transcript[m].done]
             E == [m \in Layer |-> transcript'[m].done]
  <2>1. D \in Stackable /\ D[l] = transcript[l].done
    BY <1>0 DEF JournalTypes, Stackable
  <2>2. E = [D EXCEPT ![l] = Append(D[l], e)]
    BY <2>1
  <2>3. Len(D[l]) < MaxTarEntries /\ Len(D[l]) <= MaxTarEntries
    <3>1. Len(D[l]) <= Len(operations) /\ Len(D[l]) \in Nat
      BY <1>0, <2>1 DEF Recorded, JournalTypes
    <3>2. QED
      BY <1>2, <3>1, LimitAssumption
  <2>4. /\ IsFiniteSet(Volume(D)) /\ Cardinality(Volume(D)) = spoolBytes
        /\ IsFiniteSet(Positions(D)) /\ Cardinality(Positions(D)) = Len(operations)
    BY <1>0 DEF Measured, Heard
  <2> HIDE DEF D
  <2>5. /\ IsFiniteSet(Volume(E)) /\ Cardinality(Volume(E)) = Cardinality(Volume(D)) + Len(e.payload)
        /\ IsFiniteSet(Positions(E)) /\ Cardinality(Positions(E)) = Cardinality(Positions(D)) + 1
    <3> HIDE DEF E
    <3>1. IsFiniteSet(Volume(E)) /\ Cardinality(Volume(E)) = Cardinality(Volume(D)) + Len(e.payload)
      BY <2>1, <2>2, <2>3, <2>4, VolumeGrows
    <3>2. IsFiniteSet(Positions(E)) /\ Cardinality(Positions(E)) = Cardinality(Positions(D)) + 1
      BY <2>1, <2>2, <2>3, <2>4, PositionsGrow
    <3>3. QED
      BY <3>1, <3>2
  <2>6. Heard' = E
    BY DEF Heard
  <2> HIDE DEF E
  <2>7. Len(operations') <= MaxTarEntries
    BY <1>2, LimitAssumption
  <2>8. QED
    BY <1>2, <2>4, <2>5, <2>6, <2>7 DEF Measured
<1>7. QED
  BY <1>2, <1>3, <1>5, <1>6

LEMMA JournalStages ==
  ASSUME JournalInv, NEW e \in Offered, StageInert(e)
  PROVE  JournalInv'
<1>0. /\ {blob', next'} \subseteq Nat \ {0} /\ sink \in Layer /\ e \in Entry /\ e.kind # "regular"
      /\ UNCHANGED image /\ image \in Images
  BY OfferedIs DEF JournalInv, JournalTypes, StageInert, Delivers, Calling
<1>1. CASE Poison
  <2>1. JournalState' = JournalState /\ sink' = sink /\ poisoned'
    BY <1>0, <1>1 DEF Poison, journalVars, JournalState
  <2>2. QED
    BY <1>0, <2>1, JournalKept
<1>2. CASE ~Poison
  <2> DEFINE op == [layer |-> sink, index |-> captured[sink] + 1, entry |-> e, extent |-> 0]
  <2>1. /\ Stageable(e) /\ Journalled(sink, op) /\ sinkState' = "inert"
        /\ transcript' = [transcript EXCEPT ![sink].done = Append(@, e)]
        /\ UNCHANGED <<sink, spoolBytes, extents, open>>
    BY <1>2 DEF StageInert
  <2>2. op \in Operation /\ op.layer = sink /\ op.index = captured[sink] + 1
    BY <1>0 DEF JournalInv, JournalTypes, Operation
  <2>3. /\ transcript' \in [Layer -> [done : Seq(Entry), open : Entry \cup {None}]]
        /\ transcript'[sink].done = Append(transcript[sink].done, e)
        /\ \A m \in Layer : m # sink => transcript'[m].done = transcript[m].done
    <3>1. Append(transcript[sink].done, e) \in Seq(Entry)
      BY <1>0, AppendProperties DEF JournalInv, JournalTypes
    <3>2. QED
      BY <1>0, <2>1, <3>1 DEF JournalInv, JournalTypes
  <2>4. RecordsIn(operations', extents', Len(operations) + 1, e)
    <3>1. operations \in Seq(Operation) /\ Len(operations) \in Nat
      BY LenProperties DEF JournalInv, JournalTypes
    <3>2. operations' = Append(operations, op)
      BY <2>1 DEF Journalled
    <3>3. Len(operations') = Len(operations) + 1 /\ operations'[Len(operations) + 1] = op
      BY <2>2, <3>1, <3>2, AppendProperties
    <3>4. Header(e) = e
      BY <1>0, HeaderIs
    <3>5. Len(operations) + 1 \in 1..Len(operations')
      BY <3>1, <3>3
    <3>6. RecordsIn(operations', extents', Len(operations) + 1, e)
      BY <1>0, <3>3, <3>4, <3>5 DEF RecordsIn
    <3>7. QED
      BY <3>6
  <2> HIDE DEF op
  <2>5. /\ Len(e.payload) = 0 /\ MaxTarBytes \in Nat /\ spoolBytes <= MaxTarBytes
        /\ spoolBytes \in Nat /\ Len(operations) < MaxTarEntries
    BY <1>0, <2>1, EntryParts, LimitAssumption DEF Stageable, JournalInv, Measured, JournalTypes
  <2>6. /\ Measured' /\ \A m \in Layer : Recorded(m)'
        /\ spoolBytes' \in Nat /\ operations' \in Seq(Operation) /\ extents' \in Seq(Stretch)
        /\ bySource' \in [Layer -> Seq(Nat)] /\ captured' \in [Layer -> Nat]
    <3>1. spoolBytes' = spoolBytes + Len(e.payload) /\ spoolBytes' <= MaxTarBytes
          /\ Len(e.payload) <= MaxTarBytes
      BY <2>1, <2>5
    <3>2. QED
      BY <1>0, <2>1, <2>2, <2>3, <2>4, <2>5, <3>1, JournalledIs
  <2>7. JournalTypes'
    BY <1>0, <2>1, <2>3, <2>6 DEF JournalInv, JournalTypes
  <2>8. Opened'
    BY <2>1 DEF Opened
  <2>9. QED
    BY <2>6, <2>7, <2>8 DEF JournalInv
<1>3. QED
  BY <1>1, <1>2

LEMMA JournalFinishes ==
  ASSUME JournalInv, FinishRegular
  PROVE  JournalInv'
<1>0. /\ sink \in Layer /\ sink # None /\ sinkState = "regular" /\ ~poisoned
      /\ UNCHANGED <<image, blob, next>> /\ {blob, next} \subseteq Nat \ {0} /\ image \in Images
  BY DEF FinishRegular, Calling, JournalInv, JournalTypes
<1>1. CASE Poison
  <2>1. JournalState' = JournalState /\ sink' = sink /\ poisoned'
    BY <1>0, <1>1 DEF Poison, journalVars, JournalState
  <2>2. QED
    BY <1>0, <2>1, JournalKept
<1>2. CASE ~Poison
  <2> DEFINE op == [layer |-> sink, index |-> open.index,
                    entry |-> Header(open.entry), extent |-> Len(extents) + 1]
             e == [open.entry EXCEPT !.payload = open.written]
  <2>0. /\ open \in Opening /\ open.entry.kind = "regular" /\ open.entry \in Entry
        /\ open.written \in Seq(Byte) /\ Len(open.written) \in Nat
        /\ Len(open.written) = Len(open.entry.payload)
        /\ transcript[sink].open = e /\ open.index = captured[sink] + 1
        /\ spoolBytes + Len(open.entry.payload) <= MaxTarBytes /\ Len(operations) < MaxTarEntries
    <3>1. open \in Opening /\ open.entry.kind = "regular" /\ open.index = captured[sink] + 1
        /\ transcript[sink].open = e
        /\ spoolBytes + Len(open.entry.payload) <= MaxTarBytes /\ Len(operations) < MaxTarEntries
      BY <1>0 DEF JournalInv, Opened
    <3>2. Len(open.written) = Len(open.entry.payload)
      BY <1>2 DEF FinishRegular, PayloadIsComplete
    <3>3. QED
      BY <3>1, <3>2, LenProperties DEF Opening
  <2>1. /\ extents' = Append(extents, Extent) /\ Journalled(sink, op) /\ sinkState' = "none"
        /\ transcript' = [transcript EXCEPT ![sink].done = Append(@, transcript[sink].open),
                                            ![sink].open = None]
        /\ spoolBytes' = spoolBytes + Len(open.written) /\ open' = None
        /\ UNCHANGED sink
    BY <1>2 DEF FinishRegular
  <2>2. e \in Entry /\ Header(e) = Header(open.entry) /\ e.payload = open.written
        /\ e.kind = "regular" /\ Header(open.entry) \in Entry
    BY <2>0, HeaderIs
  <2>3. op \in Operation /\ Extent \in Stretch /\ op.layer = sink /\ op.index = captured[sink] + 1
    <3>1. Len(extents) + 1 \in Nat
      BY LenProperties DEF JournalInv, JournalTypes
    <3>2. QED
      BY <1>0, <2>0, <2>2, <3>1 DEF Operation, Extent, Stretch, Opening
  <2> HIDE DEF e
  <2>4. /\ transcript' \in [Layer -> [done : Seq(Entry), open : Entry \cup {None}]]
        /\ transcript'[sink].done = Append(transcript[sink].done, e)
        /\ \A m \in Layer : m # sink => transcript'[m].done = transcript[m].done
    <3>1. Append(transcript[sink].done, e) \in Seq(Entry)
      BY <1>0, <2>2, AppendProperties DEF JournalInv, JournalTypes
    <3>2. QED
      BY <1>0, <2>0, <2>1, <3>1 DEF JournalInv, JournalTypes
  <2>5. RecordsIn(operations', extents', Len(operations) + 1, e)
    <3>1. /\ operations \in Seq(Operation) /\ Len(operations) \in Nat
          /\ extents \in Seq(Stretch) /\ Len(extents) \in Nat
      BY LenProperties DEF JournalInv, JournalTypes
    <3>2. operations' = Append(operations, op)
      BY <2>1 DEF Journalled
    <3>3. Len(operations') = Len(operations) + 1 /\ operations'[Len(operations) + 1] = op
      BY <2>3, <3>1, <3>2, AppendProperties
    <3>4. Len(extents') = Len(extents) + 1 /\ extents'[Len(extents) + 1] = Extent
      BY <2>1, <2>3, <3>1, AppendProperties
    <3>5. /\ Len(operations) + 1 \in 1..Len(operations')
          /\ Len(extents) + 1 \in 1..Len(extents')
      BY <3>1, <3>3, <3>4
    <3>6. Extent.digest = e.payload
      BY <2>2 DEF Extent
    <3>7. RecordsIn(operations', extents', Len(operations) + 1, e)
      BY <2>2, <3>3, <3>4, <3>5, <3>6 DEF RecordsIn
    <3>8. QED
      BY <3>7
  <2> HIDE DEF op
  <2>6. /\ spoolBytes' = spoolBytes + Len(e.payload) /\ spoolBytes' <= MaxTarBytes
        /\ Len(e.payload) <= MaxTarBytes
    BY <2>0, <2>1, <2>2, LimitAssumption, SMTT(40) DEF JournalInv, JournalTypes
  <2>7. /\ Measured' /\ \A m \in Layer : Recorded(m)'
        /\ spoolBytes' \in Nat /\ operations' \in Seq(Operation) /\ extents' \in Seq(Stretch)
        /\ bySource' \in [Layer -> Seq(Nat)] /\ captured' \in [Layer -> Nat]
    BY <1>0, <2>0, <2>1, <2>2, <2>3, <2>4, <2>5, <2>6, JournalledIs
  <2>8. JournalTypes'
    BY <1>0, <2>1, <2>4, <2>7 DEF JournalInv, JournalTypes
  <2>9. Opened'
    BY <2>1 DEF Opened
  <2>10. QED
    BY <2>7, <2>8, <2>9 DEF JournalInv
<1>3. QED
  BY <1>1, <1>2

LEMMA JournalFails ==
  ASSUME JournalInv, FailCall
  PROVE  JournalInv'
<1>0. /\ sink \in Layer /\ poisoned'
      /\ UNCHANGED <<image, blob, next, sink, spoolBytes, operations, bySource, captured, transcript>>
  BY DEF FailCall, JournalInv, JournalTypes, callVars
<1>1. CASE UNCHANGED <<extents, open>>
  <2>1. JournalState' = JournalState /\ sink' \in Layer \cup {None} /\ {blob', next'} \subseteq Nat \ {0}
    BY <1>0, <1>1 DEF JournalState, JournalInv, JournalTypes
  <2>2. QED
    BY <1>0, <2>1, JournalKept
<1>2. CASE open # None /\ extents' = Append(extents, Extent) /\ open' = None
  <2>1. Extent \in Stretch
    BY <1>0, <1>2 DEF JournalInv, JournalTypes, Opening, Stretch, Extent
  <2>2. extents \in Seq(Stretch) /\ extents' \in Seq(Stretch) /\ operations \in Seq(Operation)
    BY <1>2, <2>1, AppendProperties DEF JournalInv, JournalTypes
  <2>3. JournalTypes'
    BY <1>0, <1>2, <2>2 DEF JournalInv, JournalTypes
  <2>4. Opened'
    BY <1>0 DEF Opened
  <2>5. Measured'
    BY <1>0 DEF JournalInv, Measured, Heard
  <2>6. ASSUME NEW l \in Layer PROVE Recorded(l)'
    <3>1. ASSUME NEW i \in 1..captured[l]
          PROVE  RecordsIn(operations, extents', bySource[l][i], transcript[l].done[i])
      BY <1>2, <2>1, <2>2, RecordsGrow, SMTT(40) DEF JournalInv, Recorded, Records
    <3>2. Recorded(l)
      BY DEF JournalInv
    <3>3. QED
      BY <1>0, <3>1, <3>2 DEF Recorded, Records
  <2>7. QED
    BY <2>3, <2>4, <2>5, <2>6 DEF JournalInv
<1>3. QED
  BY <1>1, <1>2 DEF FailCall

LEMMA JournalStep ==
  ASSUME JournalInv, [Next]_vars
  PROVE  JournalInv'
<1>0. sink \in Layer \cup {None} /\ {blob, next} \subseteq Nat \ {0}
  BY DEF JournalInv, JournalTypes
<1> DEFINE Kept == /\ UNCHANGED JournalState
                   /\ sink' \in Layer \cup {None} /\ {blob', next'} \subseteq Nat \ {0}
                   /\ sinkState' = "regular" /\ sink' # None /\ ~poisoned'
                        => sinkState = "regular" /\ sink' = sink /\ ~poisoned
<1>k. ASSUME Kept PROVE JournalInv'
  BY <1>k, JournalKept
<1>1. CASE OpenSink
  <2>1. BlobOrder[blob] \in Layer
    <3>1. blob \in 1..Len(BlobOrder) /\ BlobOrder \in Seq(Layer)
      BY <1>0, <1>1, LayerNumbers, ReplayAssumption DEF OpenSink
    <3>2. QED
      BY <3>1, ElementOfSeq
  <2>2. Kept
    BY <1>0, <1>1, <2>1 DEF OpenSink, Calling, journalVars, JournalState
  <2>3. QED
    BY <1>k, <2>2
<1>2. CASE FinishInert \/ DropSink
  BY <1>0, <1>2, <1>k DEF FinishInert, DropSink, Calling, journalVars, JournalState
<1>3. CASE GiveUp \/ FailCheck \/ Begin \/ ValidateJournal
  BY <1>0, <1>3, <1>k DEF GiveUp, FailCheck, Begin, ValidateJournal, Discard, Outward, callVars, journalVars, JournalState
<1>4. CASE StartSealing
  BY <1>0, <1>4, <1>k DEF StartSealing, journalVars, JournalState
<1>5. CASE Seal
  BY <1>0, <1>5, <1>k DEF Seal, Discard, Outward, callVars, journalVars, JournalState
<1>6. CASE CheckWhiteouts \/ ApplyWhiteout \/ EndWhiteouts
  <2>1. UNCHANGED journalVars /\ Outward
    BY <1>6 DEF CheckWhiteouts, ApplyWhiteout, EndWhiteouts, Discard
  <2>2. UNCHANGED poisoned
    BY <1>6 DEF CheckWhiteouts, ApplyWhiteout, EndWhiteouts, Discard
  <2>3. QED
    BY <1>0, <1>k, <2>1, <2>2 DEF Outward, callVars, journalVars, JournalState
<1>7. CASE ApplyEntry \/ EndLayer \/ CheckEffects
  <2>1. UNCHANGED journalVars /\ Outward
    BY <1>7 DEF ApplyEntry, EndLayer, CheckEffects, Discard
  <2>2. UNCHANGED poisoned
    BY <1>7 DEF ApplyEntry, EndLayer, CheckEffects, Discard
  <2>3. QED
    BY <1>0, <1>k, <2>1, <2>2 DEF Outward, callVars, journalVars, JournalState
<1>8. CASE ValidateSpool("spool", "retained") \/ ValidateSpool("retained", "revalidated")
  BY <1>0, <1>8, <1>k DEF ValidateSpool, Discard, callVars, journalVars, JournalState
<1>9. CASE AlterSpool \/ MoveCustody
  BY <1>0, <1>9, <1>k DEF AlterSpool, MoveCustody, Meddle, callVars, journalVars, JournalState
<1>10. CASE Done \/ UNCHANGED vars
  BY <1>0, <1>10, <1>k DEF Done, vars, JournalState
<1>11. QED
  BY <1>1, <1>2, <1>3, <1>4, <1>5, <1>6, <1>7, <1>8, <1>9, <1>10, JournalBegins, JournalWrites,
     JournalStages, JournalFinishes, JournalFails DEF Next, Calls, Checks

(***************************************************************************)
(* The limits and the lines of the transcripts                             *)
(***************************************************************************)

LEMMA ChargeIs ==
  ASSUME NEW e \in Entry
  PROVE  Charge(e) \in Nat /\ Charge(Header(e)) = Charge(e)
<1>1. Len(ArchivePath(e)) \in Nat /\ Len(e.path) \in Nat
  BY ArchivePathIs, EntryParts, LenProperties DEF PathOf
<1>2. Header(e).kind = e.kind /\ Header(e).path = e.path
  BY HeaderIs
<1>3. ArchivePath(Header(e)) = ArchivePath(e)
  BY <1>2 DEF ArchivePath
<1>4. Charge(e) \in Nat
  <2> DEFINE a == Len(ArchivePath(e))
             b == IF e.kind = "directory" THEN 0 ELSE 1
             c == IF e.kind \in Whiteouts THEN Len(e.path) ELSE 0
  <2>1. a \in Nat /\ b \in Nat /\ c \in Nat
    BY <1>1
  <2>2. Charge(e) = 1 + a + b + c
    BY DEF Charge
  <2> HIDE DEF a, b, c
  <2>3. QED
    BY <2>1, <2>2
<1>5. Charge(Header(e)) = Charge(e)
  BY <1>2, <1>3 DEF Charge
<1>6. QED
  BY <1>4, <1>5

\* What is counted of a set of things that cost f.
Cells(S, f) == {c \in S \X (1..(MaxMetadata + 1)) : c[2] <= f[c[1]]}

LEMMA CellsGrow ==
  ASSUME NEW S, NEW x, x \notin S, IsFiniteSet(S), NEW f, NEW g,
         \A y \in S : g[y] = f[y], g[x] \in Nat,
         NEW T, T = S \cup {x},
         NEW m \in Nat, m = IF g[x] <= MaxMetadata THEN g[x] ELSE MaxMetadata + 1
  PROVE  Cardinality(Cells(T, g)) = Cardinality(Cells(S, f)) + m
<1> DEFINE N == {c \in {x} \X (1..(MaxMetadata + 1)) : c[2] <= g[x]}
           h == [j \in 1..m |-> <<x, j>>]
<1>1. m \in Nat /\ MaxMetadata \in Nat
  BY LimitAssumption
<1>2. Cells(T, g) = Cells(S, f) \cup N /\ Cells(S, f) \cap N = {}
  <2>1. ASSUME NEW c
        PROVE  c \in Cells(T, g) <=> c \in Cells(S, f) \/ c \in N
    <3>1. c \in T \X (1..(MaxMetadata + 1))
            <=> c \in S \X (1..(MaxMetadata + 1)) \/ c \in {x} \X (1..(MaxMetadata + 1))
      OBVIOUS
    <3>2. c \in S \X (1..(MaxMetadata + 1)) => g[c[1]] = f[c[1]]
      OBVIOUS
    <3>3. c \in {x} \X (1..(MaxMetadata + 1)) => c[1] = x
      OBVIOUS
    <3>4. QED
      BY <3>1, <3>2, <3>3 DEF Cells
  <2>2. ASSUME NEW c \in Cells(S, f) PROVE c \notin N
    BY DEF Cells
  <2> HIDE DEF N
  <2>3. QED
    BY <2>1, <2>2
<1>3. IsFiniteSet(Cells(S, f))
  <2>1. IsFiniteSet(S \X (1..(MaxMetadata + 1)))
    <3>1. IsFiniteSet(1..(MaxMetadata + 1))
      BY <1>1, FS_Interval
    <3> HIDE DEF N, h
    <3>2. QED
      BY <3>1, FS_Product
  <2>2. Cells(S, f) \in SUBSET (S \X (1..(MaxMetadata + 1)))
    BY DEF Cells
  <2>3. QED
    BY <2>1, <2>2, FS_Subset
<1>4. IsFiniteSet(N) /\ Cardinality(N) = m
  <2>1. \A j \in 1..m : <<x, j>> \in N
    BY <1>1
  <2>2. ASSUME NEW c \in N PROVE \E j \in 1..m : h[j] = c
    <3>1. c[2] \in 1..m /\ c = <<x, c[2]>>
      BY <1>1
    <3>2. QED
      BY <3>1
  <2>3. h \in [1..m -> N] /\ \A i, j \in 1..m : h[i] = h[j] => i = j
    BY <2>1
  <2> HIDE DEF h, N
  <2>4. QED
    BY <1>1, <2>2, <2>3, Enumerated
<1> HIDE DEF N
<1>5. /\ IsFiniteSet(Cells(S, f) \cup N)
      /\ Cardinality(Cells(S, f) \cup N)
           = Cardinality(Cells(S, f)) + Cardinality(N) - Cardinality(Cells(S, f) \cap N)
  BY <1>3, <1>4, FS_Union
<1>6. Cardinality(Cells(S, f) \cap N) = 0 /\ Cardinality(Cells(S, f)) \in Nat
  BY <1>2, <1>3, FS_EmptySet, FS_CardinalityType
<1>7. Cardinality(Cells(S, f) \cup N) = Cardinality(Cells(S, f)) + m - 0
  BY <1>4, <1>5, <1>6
<1> DEFINE k == Cardinality(Cells(S, f))
<1>8. k \in Nat /\ Cardinality(Cells(T, g)) = k + m - 0
  BY <1>2, <1>6, <1>7
<1> HIDE DEF k
<1>9. Cardinality(Cells(T, g)) = k + m
  BY <1>1, <1>8
<1>10. QED
  BY <1>9 DEF k

Costs(ops) == [k \in 1..Len(ops) |-> Charge(ops[k].entry)]
Prices(im) == [x \in Positions(im) |-> Charge(im[x[1]][x[2]])]

LEMMA CountedInCells ==
  /\ Reserved = Cardinality(Cells(1..Len(operations), Costs(operations)))
  /\ \A im : Reservation(im) = Cells(Positions(im), Prices(im))
<1>1. {c \in (1..Len(operations)) \X (1..(MaxMetadata + 1)) :
         c[2] <= Charge(operations[c[1]].entry)}
        = Cells(1..Len(operations), Costs(operations))
  BY DEF Cells, Costs
<1>2. ASSUME NEW im PROVE Reservation(im) = Cells(Positions(im), Prices(im))
  BY DEF Reservation, Cells, Prices
<1>3. QED
  BY <1>1, <1>2 DEF Reserved

\* Every operation stands for one entry of a transcript, and what the
\* operations reserve is what these entries reserve.
LEMMA ReservedIs ==
  ASSUME JournalInv
  PROVE  /\ IsFiniteSet(Reservation(Heard)) /\ Cardinality(Reservation(Heard)) = Reserved
         /\ Reserved \in Nat
<1> DEFINE P == Positions(Heard)
           n == Len(operations)
           h == [x \in P |-> bySource[x[1]][x[2]]]
           A == Cells(P, Prices(Heard))
           B == Cells(1..n, Costs(operations))
           H == [c \in A |-> <<h[c[1]], c[2]>>]
<1>1. /\ n \in Nat /\ IsFiniteSet(P) /\ Cardinality(P) = n /\ MaxMetadata \in Nat
      /\ operations \in Seq(Operation) /\ DOMAIN Heard = Layer
  BY LenProperties, LimitAssumption DEF JournalInv, JournalTypes, Measured, Heard
<1>2. ASSUME NEW x \in P
      PROVE  /\ h[x] \in 1..n /\ operations[h[x]].layer = x[1] /\ operations[h[x]].index = x[2]
             /\ Charge(operations[h[x]].entry) = Charge(Heard[x[1]][x[2]])
  <2>1. /\ x[1] \in Layer /\ x[2] \in Nat \ {0} /\ x[2] <= Len(Heard[x[1]])
        /\ Heard[x[1]] = transcript[x[1]].done
    BY <1>1 DEF Positions, Heard
  <2>2. Recorded(x[1]) /\ captured[x[1]] \in Nat /\ transcript[x[1]].done \in Seq(Entry)
    BY <2>1 DEF JournalInv, JournalTypes
  <2>3. x[2] \in 1..captured[x[1]] /\ captured[x[1]] = Len(transcript[x[1]].done)
    BY <2>1, <2>2 DEF Recorded
  <2>4. /\ Records(h[x], Heard[x[1]][x[2]])
        /\ operations[h[x]].layer = x[1] /\ operations[h[x]].index = x[2]
    BY <2>1, <2>2, <2>3 DEF Recorded
  <2>5. Heard[x[1]][x[2]] \in Entry
    BY <2>1, <2>2, <2>3, ElementOfSeq
  <2> HIDE DEF h
  <2>6. h[x] \in 1..n /\ operations[h[x]].entry = Header(Heard[x[1]][x[2]])
    BY <2>4 DEF Records, RecordsIn
  <2>7. QED
    BY <2>4, <2>5, <2>6, ChargeIs
<1>3. \A x, y \in P : h[x] = h[y] => x = y
  <2>1. \A x \in P : x = <<x[1], x[2]>>
    BY DEF Positions
  <2> HIDE DEF h, P
  <2>2. QED
    BY <1>2, <2>1
<1>4. \A k \in 1..n : \E x \in P : h[x] = k
  <2>1. h \in [P -> 1..n]
    BY <1>2
  <2> HIDE DEF h, P, n
  <2>2. h \in Injection(P, 1..n)
    BY <1>3, <2>1, Zenon DEF Injection, IsInjective
  <2>3. IsFiniteSet(1..n) /\ Cardinality(1..n) = n
    BY <1>1, FS_Interval
  <2>4. h \in Surjection(P, 1..n)
    BY <1>1, <2>2, <2>3, FS_Injection
  <2>5. QED
    BY <2>4, Zenon DEF Surjection
<1>5. ASSUME NEW c \in A PROVE H[c] \in B /\ c = <<c[1], c[2]>> /\ c[1] \in P
  <2>1. /\ c \in P \X (1..(MaxMetadata + 1)) /\ c[2] <= Charge(Heard[c[1][1]][c[1][2]])
    BY DEF Cells, Prices
  <2>2. H[c] = <<h[c[1]], c[2]>> /\ c[1] \in P
    BY <2>1
  <2> HIDE DEF h, H, P, A
  <2>3. h[c[1]] \in 1..n /\ c[2] <= Charge(operations[h[c[1]]].entry) /\ c[2] \in 1..(MaxMetadata + 1)
    BY <1>2, <2>1, <2>2
  <2>4. <<h[c[1]], c[2]>> \in B
    BY <2>3 DEF Cells, Costs
  <2>5. QED
    BY <2>1, <2>2, <2>4
<1>6. ASSUME NEW c \in A, NEW d \in A, H[c] = H[d] PROVE c = d
  <2>1. h[c[1]] = h[d[1]] /\ c[2] = d[2]
    BY <1>6
  <2> HIDE DEF h, H, P, A
  <2>2. c[1] = d[1]
    BY <1>3, <1>5, <2>1
  <2>3. QED
    BY <1>5, <2>1, <2>2
<1>7. ASSUME NEW d \in B PROVE \E c \in A : H[c] = d
  <2>1. /\ d[1] \in 1..n /\ d[2] \in 1..(MaxMetadata + 1) /\ d = <<d[1], d[2]>>
        /\ d[2] <= Charge(operations[d[1]].entry)
    BY DEF Cells, Costs
  <2>2. PICK x \in P : h[x] = d[1]
    BY <1>4, <2>1
  <2>3. Charge(operations[d[1]].entry) = Charge(Heard[x[1]][x[2]])
    BY <1>2, <2>2
  <2>4. <<x, d[2]>> \in A
    BY <2>1, <2>2, <2>3 DEF Cells, Prices
  <2>5. H[<<x, d[2]>>] = <<h[x], d[2]>>
    BY <2>4
  <2> HIDE DEF H
  <2>6. QED
    BY <2>1, <2>2, <2>4, <2>5
<1>8. IsFiniteSet(A)
  <2>1. A \in SUBSET (P \X (1..(MaxMetadata + 1)))
    BY DEF Cells
  <2>2. IsFiniteSet(P \X (1..(MaxMetadata + 1)))
    <3>1. IsFiniteSet(1..(MaxMetadata + 1))
      BY <1>1, FS_Interval
    <3> HIDE DEF P, n, h, A, B, H
    <3>2. QED
      BY <1>1, <3>1, FS_Product
  <2>3. QED
    BY <2>1, <2>2, FS_Subset
<1>9. H \in [A -> B]
  BY <1>5
<1> HIDE DEF A, B, H
<1>10. ExistsBijection(A, B)
  <2>1. H \in Bijection(A, B)
    BY <1>6, <1>7, <1>9, Zenon DEF Bijection, Injection, IsInjective, Surjection
  <2>2. QED
    BY <2>1, Zenon DEF ExistsBijection
<1>11. Cardinality(B) = Cardinality(A) /\ Cardinality(A) \in Nat
  BY <1>8, <1>10, FS_Bijection, FS_CardinalityType
<1>12. Reserved = Cardinality(B) /\ Reservation(Heard) = A
  BY CountedInCells DEF A, B
<1>13. QED
  BY <1>8, <1>11, <1>12

\* An operation more reserves what its entry costs.
LEMMA ReservedGrows ==
  ASSUME JournalInv, NEW op \in Operation, operations' = Append(operations, op),
         Reserved + Charge(op.entry) <= MaxMetadata
  PROVE  Reserved' = Reserved + Charge(op.entry)
<1> DEFINE n == Len(operations)
           ops == Append(operations, op)
<1>1. operations \in Seq(Operation) /\ n \in Nat /\ op.entry \in Entry
  BY LenProperties DEF JournalInv, JournalTypes, Operation
<1>2. Len(ops) = n + 1 /\ ops[n + 1] = op /\ \A k \in 1..n : ops[k] = operations[k]
  BY <1>1, AppendProperties
<1>3. Charge(op.entry) \in Nat /\ Reserved \in Nat /\ MaxMetadata \in Nat
  BY <1>1, ChargeIs, ReservedIs, LimitAssumption
<1> HIDE DEF ops
<1>4. 1..Len(ops) = (1..n) \cup {n + 1} /\ n + 1 \notin 1..n /\ IsFiniteSet(1..n)
  <2>1. IsFiniteSet(1..n)
    BY <1>1, FS_Interval
  <2> HIDE DEF n
  <2>2. QED
    BY <1>1, <1>2, <2>1
<1>5. /\ \A k \in 1..n : Costs(ops)[k] = Costs(operations)[k]
      /\ Costs(ops)[n + 1] = Charge(op.entry)
  BY <1>1, <1>2 DEF Costs
<1> HIDE DEF n
<1>6. Cardinality(Cells((1..n) \cup {n + 1}, Costs(ops)))
        = Cardinality(Cells(1..n, Costs(operations)))
            + (IF Costs(ops)[n + 1] <= MaxMetadata THEN Costs(ops)[n + 1] ELSE MaxMetadata + 1)
  <2> DEFINE S == 1..n
             x == n + 1
             f == Costs(operations)
             g == Costs(ops)
  <2>1. x \notin S /\ IsFiniteSet(S) /\ (\A y \in S : g[y] = f[y]) /\ g[x] \in Nat
    BY <1>3, <1>4, <1>5
  <2> HIDE DEF S, x, f, g
  <2>2. Cardinality(Cells(S \cup {x}, g))
          = Cardinality(Cells(S, f)) + (IF g[x] <= MaxMetadata THEN g[x] ELSE MaxMetadata + 1)
    <3> DEFINE T == S \cup {x}
               m == IF g[x] <= MaxMetadata THEN g[x] ELSE MaxMetadata + 1
    <3>1. m \in Nat
      BY <1>3, <2>1
    <3>2. T = S \cup {x} /\ m = IF g[x] <= MaxMetadata THEN g[x] ELSE MaxMetadata + 1
      OBVIOUS
    <3> HIDE DEF T, m
    <3>3. Cardinality(Cells(T, g)) = Cardinality(Cells(S, f)) + m
      BY <2>1, <3>1, <3>2, CellsGrow
    <3>4. QED
      BY <3>3 DEF T, m
  <2>3. QED
    BY <2>2 DEF S, x, f, g
<1>7. Reserved = Cardinality(Cells(1..n, Costs(operations)))
  BY CountedInCells DEF n
<1>8. Reserved' = Cardinality(Cells(1..Len(ops), Costs(ops)))
  <2>1. {c \in (1..Len(ops)) \X (1..(MaxMetadata + 1)) : c[2] <= Charge(ops[c[1]].entry)}
          = Cells(1..Len(ops), Costs(ops))
    BY DEF Cells, Costs
  <2>2. operations' = ops
    BY DEF ops
  <2>3. QED
    BY <2>1, <2>2 DEF Reserved
<1>9. Charge(op.entry) <= MaxMetadata
  BY <1>3
<1>10. QED
  BY <1>3, <1>4, <1>5, <1>6, <1>7, <1>8, <1>9

LineOf(l, i) == Line(operations[bySource[l][i]], extents)

\* An operation more is a line more in the transcript of its layer.
LEMMA LinesGrow ==
  ASSUME JournalInv, NEW l \in Layer, NEW op \in Operation, Journalled(l, op),
         op.extent = 0 \/ op.extent \in 1..Len(extents'),
         UNCHANGED extents \/ \E x \in Stretch : extents' = Append(extents, x),
         LinesKept
  PROVE  LinesKept'
<1>1. /\ operations' = Append(operations, op)
      /\ lines' = [lines EXCEPT ![l] = Append(@, Line(op, extents'))]
      /\ bySource' = [bySource EXCEPT ![l] = Append(@, Len(operations) + 1)]
      /\ captured' = [captured EXCEPT ![l] = @ + 1]
  BY DEF Journalled
<1>2. /\ operations \in Seq(Operation) /\ Len(operations) \in Nat
      /\ extents \in Seq(Stretch) /\ Len(extents) \in Nat
      /\ bySource \in [Layer -> Seq(Nat)] /\ captured \in [Layer -> Nat]
  BY LenProperties DEF JournalInv, JournalTypes
<1>3. /\ operations'[Len(operations) + 1] = op
      /\ \A k \in 1..Len(operations) : operations'[k] = operations[k]
  BY <1>1, <1>2, AppendProperties
<1>4. /\ Len(extents') \in Nat /\ Len(extents) <= Len(extents') /\ extents' \in Seq(Stretch)
      /\ \A x \in 1..Len(extents) : extents'[x] = extents[x]
  <2>1. CASE UNCHANGED extents
    BY <1>2, <2>1
  <2>2. CASE \E x \in Stretch : extents' = Append(extents, x)
    <3>1. PICK x \in Stretch : extents' = Append(extents, x)
      BY <2>2
    <3>2. /\ Append(extents, x) \in Seq(Stretch) /\ Len(Append(extents, x)) = Len(extents) + 1
          /\ \A y \in 1..Len(extents) : Append(extents, x)[y] = extents[y]
      BY <1>2, AppendProperties
    <3>3. QED
      BY <1>2, <3>1, <3>2
  <2>3. QED
    BY <2>1, <2>2
<1>5. ASSUME NEW m \in Layer, NEW i \in 1..captured[m]
      PROVE  /\ bySource[m][i] \in 1..Len(operations)
             /\ Line(operations'[bySource[m][i]], extents') = LineOf(m, i)
             /\ LineOf(m, i) \in Told
  <2> DEFINE k == bySource[m][i]
  <2>1. Records(k, transcript[m].done[i])
    BY DEF JournalInv, Recorded
  <2> HIDE DEF k
  <2>2. /\ k \in 1..Len(operations) /\ operations[k] \in Operation
        /\ operations[k].extent = 0 \/ operations[k].extent \in 1..Len(extents)
    BY <1>2, <2>1, ElementOfSeq DEF Records, RecordsIn
  <2>3. operations'[k] = operations[k]
    BY <1>3, <2>2
  <2>4. operations[k].extent # 0 => /\ extents'[operations[k].extent] = extents[operations[k].extent]
                                    /\ extents[operations[k].extent] \in Stretch
    BY <1>2, <1>4, <2>2, ElementOfSeq
  <2>5. Line(operations[k], extents') = Line(operations[k], extents)
    BY <2>4 DEF Line
  <2>6. Line(operations[k], extents) \in Told
    BY <2>2, <2>4, EmptySeq DEF Line, Told, Operation, Stretch
  <2>7. QED
    BY <2>2, <2>3, <2>5, <2>6 DEF LineOf, k
<1>6. Line(op, extents') \in Told
  <2>1. op.extent # 0 => extents'[op.extent] \in Stretch
    BY <1>4, ElementOfSeq
  <2>2. QED
    BY <2>1, EmptySeq DEF Line, Told, Operation, Stretch
<1>7. ASSUME NEW m \in Layer, m # l
      PROVE  lines'[m] = [i \in 1..captured'[m] |-> Line(operations'[bySource'[m][i]], extents')]
  <2>1. lines'[m] = lines[m] /\ captured'[m] = captured[m] /\ bySource'[m] = bySource[m]
    BY <1>1, <1>2, <1>7 DEF LinesKept
  <2>2. lines[m] = [i \in 1..captured[m] |-> LineOf(m, i)]
    BY DEF LinesKept, LineOf
  <2>3. QED
    BY <1>5, <2>1, <2>2
<1>8. lines'[l] = [i \in 1..captured'[l] |-> Line(operations'[bySource'[l][i]], extents')]
  <2> DEFINE c == captured[l]
             s == [i \in 1..c |-> LineOf(l, i)]
             t == Append(s, Line(op, extents'))
             k == Len(operations) + 1
  <2>1. c \in Nat /\ Len(bySource[l]) = c /\ bySource[l] \in Seq(Nat) /\ k \in Nat
    BY <1>2 DEF JournalInv, Recorded
  <2>2. lines'[l] = t /\ captured'[l] = c + 1 /\ bySource'[l] = Append(bySource[l], k)
    BY <1>1, <1>2 DEF LinesKept, LineOf
  <2>3. s \in [1..c -> Told]
    BY <1>5
  <2>4. s \in Seq(Told) /\ Len(s) = c
    <3> HIDE DEF s, c
    <3>1. QED
      BY <2>1, <2>3
  <2>5. \A i \in 1..c : s[i] = LineOf(l, i)
    OBVIOUS
  <2> HIDE DEF s
  <2>6. /\ t \in Seq(Told) /\ Len(t) = c + 1 /\ t[c + 1] = Line(op, extents')
        /\ \A i \in 1..c : t[i] = LineOf(l, i)
    BY <1>6, <2>4, <2>5, AppendProperties
  <2>7. /\ Append(bySource[l], k)[c + 1] = k
        /\ \A i \in 1..c : Append(bySource[l], k)[i] = bySource[l][i]
    BY <2>1, AppendProperties
  <2> HIDE DEF t
  <2>8. ASSUME NEW i \in 1..(c + 1)
        PROVE  t[i] = Line(operations'[bySource'[l][i]], extents')
    <3>1. CASE i = c + 1
      BY <1>3, <2>2, <2>6, <2>7, <3>1
    <3>2. CASE i # c + 1
      <4>1. i \in 1..c
        BY <2>1, <3>2
      <4>2. QED
        BY <1>5, <2>2, <2>6, <2>7, <4>1
    <3>3. QED
      BY <3>1, <3>2
  <2>9. t = [i \in 1..(c + 1) |-> t[i]]
    BY <2>1, <2>6
  <2> HIDE DEF c
  <2>10. QED
    BY <2>2, <2>8, <2>9
<1>9. DOMAIN lines' = Layer
  BY <1>1 DEF LinesKept
<1>10. QED
  BY <1>7, <1>8, <1>9 DEF LinesKept

LimitState == <<extents, operations, bySource, captured, transcript, lines, metadata>>

LEMMA LimitKept ==
  ASSUME LimitInv, UNCHANGED <<LimitState, open>>, poisoned => poisoned'
  PROVE  LimitInv'
BY DEF LimitInv, LimitState, LinesKept, Reserved

LEMMA LimitStart ==
  ASSUME Init
  PROVE  LimitInv
<1>1. Reserved = 0
  <2>1. {c \in (1..Len(operations)) \X (1..(MaxMetadata + 1)) :
           c[2] <= Charge(operations[c[1]].entry)} = {}
    BY DEF Init
  <2>2. QED
    BY <2>1, FS_EmptySet DEF Reserved
<1>2. LinesKept
  <2>1. \A l \in Layer : lines[l] = <<>> /\ captured[l] = 0
    BY DEF Init
  <2>2. \A l \in Layer : [i \in 1..captured[l] |-> Line(operations[bySource[l][i]], extents)] = <<>>
    BY <2>1
  <2>3. QED
    BY <2>1, <2>2 DEF Init, LinesKept
<1>3. \A l \in Layer : 1..captured[l] = {}
  BY DEF Init
<1>4. QED
  BY <1>1, <1>2, <1>3, LimitAssumption DEF Init, LimitInv

LEMMA LimitBegins ==
  ASSUME JournalInv, LimitInv, NEW e \in Offered, BeginRegular(e)
  PROVE  LimitInv'
<1>1. CASE Poison
  BY <1>1 DEF Poison, LimitInv
<1>2. CASE ~Poison
  <2>0. sink \in Layer /\ ~poisoned /\ e \in Entry /\ e.kind = "regular"
    BY OfferedIs DEF JournalInv, JournalTypes, BeginRegular, Calling, Delivers
  <2>1. /\ Stageable(e) /\ transcript' = [transcript EXCEPT ![sink].open = Header(e)]
        /\ open' = [layer |-> sink, index |-> captured[sink] + 1, entry |-> e,
                    offset |-> spoolBytes, written |-> <<>>]
        /\ metadata' = metadata + Charge(e)
        /\ UNCHANGED <<poisoned, extents, operations, bySource, captured, lines>>
    BY <1>2 DEF BeginRegular
  <2>2. open = None /\ metadata + Charge(e) <= MaxMetadata /\ Len(e.payload) <= MaxFileBytes
    BY <2>0, <2>1 DEF Stageable, SourceIsNext
  <2>3. metadata = Reserved /\ Reserved \in Nat
    BY <2>0, <2>2, ReservedIs DEF LimitInv
  <2>4. \A l \in Layer : transcript'[l].done = transcript[l].done
    BY <2>1 DEF JournalInv, JournalTypes
  <2>5. open' \in Opening /\ open'.entry = e
    BY <2>0, <2>1 DEF JournalInv, JournalTypes, Opening
  <2>6. open' # None
    BY <2>5, NoneAssumption
  <2>7. Reserved' = Reserved /\ LinesKept'
    BY <2>0, <2>1 DEF Reserved, LimitInv, LinesKept
  <2>8. QED
    BY <2>0, <2>1, <2>2, <2>3, <2>4, <2>5, <2>6, <2>7 DEF LimitInv
<1>3. QED
  BY <1>1, <1>2

LEMMA LimitWrites ==
  ASSUME JournalInv, JournalInv', LimitInv, NEW b \in Byte, WriteChunk(b)
  PROVE  LimitInv'
<1>1. CASE Poison
  BY <1>1 DEF Poison, LimitInv
<1>2. CASE ~Poison
  <2>1. /\ ~poisoned /\ sink \in Layer /\ sinkState = "regular" /\ sink # None
        /\ open' = [open EXCEPT !.written = Append(@, b)]
        /\ transcript' = [transcript EXCEPT ![sink].open.payload = Append(@, b)]
        /\ UNCHANGED <<poisoned, sink, sinkState, extents, operations, bySource, captured, lines, metadata>>
    BY <1>2 DEF WriteChunk, Calling, JournalInv, JournalTypes
  <2>2. open \in Opening /\ open' \in Opening
    BY <2>1 DEF JournalInv, Opened
  <2>3. open # None /\ open' # None /\ open'.entry = open.entry
    BY <2>1, <2>2, NoneAssumption DEF Opening
  <2>4. \A l \in Layer : transcript'[l].done = transcript[l].done
    BY <2>1 DEF JournalInv, JournalTypes
  <2>5. Reserved' = Reserved /\ LinesKept'
    BY <2>1 DEF Reserved, LimitInv, LinesKept
  <2>6. QED
    BY <2>1, <2>3, <2>4, <2>5 DEF LimitInv
<1>3. QED
  BY <1>1, <1>2

\* What both ways to journal an entry do to the limits.
LEMMA LimitJournals ==
  ASSUME JournalInv, JournalInv', LimitInv, ~poisoned, NEW l \in Layer, NEW op \in Operation,
         NEW e \in Entry, Journalled(l, op), open' = None,
         transcript'[l].done = Append(transcript[l].done, e),
         \A m \in Layer : m # l => transcript'[m].done = transcript[m].done,
         op.extent = 0 \/ op.extent \in 1..Len(extents'),
         UNCHANGED extents \/ \E x \in Stretch : extents' = Append(extents, x),
         Len(e.payload) <= MaxFileBytes,
         metadata' = Reserved + Charge(op.entry), metadata' <= MaxMetadata
  PROVE  LimitInv'
<1>1. LinesKept'
  BY LinesGrow DEF LimitInv
<1>2. Reserved' = Reserved + Charge(op.entry)
  <2>1. operations' = Append(operations, op)
    BY DEF Journalled
  <2>2. QED
    BY <2>1, ReservedGrows
<1>3. Reserved' \in Nat
  BY <1>2, ReservedIs, ChargeIs DEF Operation
<1>4. ASSUME NEW m \in Layer, NEW i \in 1..captured'[m]
      PROVE  Len(transcript'[m].done[i].payload) <= MaxFileBytes
  <2>1. Recorded(m) /\ Recorded(m)' /\ captured[m] \in Nat /\ transcript[m].done \in Seq(Entry)
    BY DEF JournalInv, JournalTypes
  <2>2. CASE m # l
    <3>1. captured'[m] = captured[m] /\ transcript'[m].done = transcript[m].done
      BY <2>2 DEF Journalled, JournalInv, JournalTypes
    <3>2. QED
      BY <1>4, <3>1 DEF LimitInv
  <2>3. CASE m = l
    <3> DEFINE c == captured[l]
               t == transcript[l].done
    <3>1. captured'[m] = c + 1 /\ Len(t) = c /\ t \in Seq(Entry) /\ c \in Nat
      BY <2>1, <2>3 DEF Journalled, JournalInv, JournalTypes, Recorded
    <3>2. Append(t, e)[c + 1] = e /\ \A j \in 1..c : Append(t, e)[j] = t[j]
      BY <3>1, AppendProperties
    <3>3. \A j \in 1..c : Len(t[j].payload) <= MaxFileBytes
      BY DEF LimitInv
    <3> HIDE DEF c, t
    <3>4. i = c + 1 \/ i \in 1..c
      BY <1>4, <3>1
    <3>5. Len(Append(t, e)[i].payload) <= MaxFileBytes
      BY <3>2, <3>3, <3>4
    <3>6. QED
      BY <2>3, <3>5 DEF t
  <2>4. QED
    BY <2>2, <2>3
<1>5. QED
  BY <1>1, <1>2, <1>3, <1>4 DEF LimitInv

LEMMA LimitStages ==
  ASSUME JournalInv, JournalInv', LimitInv, NEW e \in Offered, StageInert(e)
  PROVE  LimitInv'
<1>1. CASE Poison
  BY <1>1 DEF Poison, LimitInv
<1>2. CASE ~Poison
  <2> DEFINE op == [layer |-> sink, index |-> captured[sink] + 1, entry |-> e, extent |-> 0]
  <2>0. sink \in Layer /\ ~poisoned /\ e \in Entry /\ e.kind # "regular"
    BY OfferedIs DEF JournalInv, JournalTypes, StageInert, Calling, Delivers
  <2>1. /\ Stageable(e) /\ Journalled(sink, op) /\ metadata' = metadata + Charge(e)
        /\ transcript' = [transcript EXCEPT ![sink].done = Append(@, e)]
        /\ UNCHANGED <<extents, open>>
    BY <1>2 DEF StageInert
  <2>2. op \in Operation /\ op.extent = 0 /\ op.entry = e
    <3>1. captured[sink] \in Nat
      BY <2>0 DEF JournalInv, JournalTypes
    <3>2. QED
      BY <2>0, <3>1 DEF Operation
  <2> HIDE DEF op
  <2>3. open = None /\ metadata + Charge(e) <= MaxMetadata
    BY <2>1 DEF Stageable, SourceIsNext
  <2>4. metadata = Reserved
    <3>1. metadata = Reserved + 0 /\ Reserved \in Nat
      BY <2>0, <2>3, ReservedIs DEF LimitInv
    <3>2. QED
      BY <3>1
  <2>5. /\ transcript'[sink].done = Append(transcript[sink].done, e)
        /\ \A m \in Layer : m # sink => transcript'[m].done = transcript[m].done
    BY <2>0, <2>1 DEF JournalInv, JournalTypes
  <2>6. Len(e.payload) <= MaxFileBytes
    BY <2>0, EntryParts, LimitAssumption
  <2>7. QED
    BY <2>0, <2>1, <2>2, <2>3, <2>4, <2>5, <2>6, LimitJournals
<1>3. QED
  BY <1>1, <1>2

LEMMA LimitFinishes ==
  ASSUME JournalInv, JournalInv', LimitInv, FinishRegular
  PROVE  LimitInv'
<1>1. CASE Poison
  BY <1>1 DEF Poison, LimitInv
<1>2. CASE ~Poison
  <2> DEFINE op == [layer |-> sink, index |-> open.index,
                    entry |-> Header(open.entry), extent |-> Len(extents) + 1]
             e == [open.entry EXCEPT !.payload = open.written]
  <2>0. /\ sink \in Layer /\ sink # None /\ ~poisoned /\ sinkState = "regular"
    BY DEF FinishRegular, Calling, JournalInv, JournalTypes
  <2>1. /\ PayloadIsComplete /\ extents' = Append(extents, Extent) /\ Journalled(sink, op)
        /\ transcript' = [transcript EXCEPT ![sink].done = Append(@, transcript[sink].open),
                                            ![sink].open = None]
        /\ open' = None /\ UNCHANGED metadata
    BY <1>2 DEF FinishRegular
  <2>2. /\ open \in Opening /\ open.entry.kind = "regular" /\ transcript[sink].open = e
        /\ open.entry \in Entry /\ open.written \in Seq(Byte) /\ open # None
    BY <2>0, NoneAssumption DEF JournalInv, Opened, Opening
  <2>3. /\ e \in Entry /\ e.payload = open.written /\ Header(open.entry) \in Entry
        /\ Charge(Header(open.entry)) = Charge(open.entry)
    BY <2>2, HeaderIs, ChargeIs
  <2>4. /\ extents \in Seq(Stretch) /\ Len(extents) \in Nat /\ Extent \in Stretch
    BY <2>0, <2>2, LenProperties DEF JournalInv, JournalTypes, Extent, Stretch, Opening
  <2>5. Len(extents') = Len(extents) + 1
    BY <2>1, <2>4, AppendProperties
  <2>6. op \in Operation /\ op.extent \in 1..Len(extents') /\ op.entry = Header(open.entry)
    BY <2>0, <2>2, <2>3, <2>4, <2>5 DEF Operation, Opening
  <2> HIDE DEF op, e
  <2>7. metadata' = Reserved + Charge(op.entry) /\ metadata' <= MaxMetadata
        /\ Len(open.entry.payload) <= MaxFileBytes
    BY <2>0, <2>1, <2>2, <2>3, <2>6 DEF LimitInv
  <2>8. Len(e.payload) <= MaxFileBytes
    BY <2>1, <2>3, <2>7 DEF PayloadIsComplete
  <2>9. /\ transcript'[sink].done = Append(transcript[sink].done, e)
        /\ \A m \in Layer : m # sink => transcript'[m].done = transcript[m].done
    BY <2>0, <2>1, <2>2 DEF JournalInv, JournalTypes
  <2>10. QED
    BY <2>0, <2>1, <2>3, <2>4, <2>6, <2>7, <2>8, <2>9, LimitJournals
<1>3. QED
  BY <1>1, <1>2

LEMMA LimitStep ==
  ASSUME JournalInv, JournalInv', LimitInv, [Next]_vars
  PROVE  LimitInv'
<1> DEFINE Kept == UNCHANGED <<LimitState, open>> /\ (poisoned => poisoned')
<1>k. ASSUME Kept PROVE LimitInv'
  BY <1>k, LimitKept
<1>1. CASE OpenSink \/ FinishInert \/ DropSink
  BY <1>1, <1>k DEF OpenSink, FinishInert, DropSink, Calling, journalVars, LimitState
<1>2. CASE GiveUp \/ FailCheck \/ Begin \/ ValidateJournal
  BY <1>2, <1>k DEF GiveUp, FailCheck, Begin, ValidateJournal, Discard, journalVars, LimitState
<1>3. CASE StartSealing
  BY <1>3, <1>k DEF StartSealing, journalVars, LimitState
<1>4. CASE Seal
  BY <1>4, <1>k DEF Seal, Discard, journalVars, LimitState
<1>5. CASE CheckWhiteouts \/ ApplyWhiteout \/ EndWhiteouts
  <2>1. UNCHANGED journalVars /\ UNCHANGED poisoned
    BY <1>5 DEF CheckWhiteouts, ApplyWhiteout, EndWhiteouts, Discard
  <2>2. QED
    BY <1>k, <2>1 DEF journalVars, LimitState
<1>6. CASE ApplyEntry \/ EndLayer \/ CheckEffects
  <2>1. UNCHANGED journalVars /\ UNCHANGED poisoned
    BY <1>6 DEF ApplyEntry, EndLayer, CheckEffects, Discard
  <2>2. QED
    BY <1>k, <2>1 DEF journalVars, LimitState
<1>7. CASE ValidateSpool("spool", "retained") \/ ValidateSpool("retained", "revalidated")
  BY <1>7, <1>k DEF ValidateSpool, Discard, journalVars, LimitState
<1>8. CASE AlterSpool \/ MoveCustody
  BY <1>8, <1>k DEF AlterSpool, MoveCustody, Meddle, journalVars, LimitState
<1>9. CASE Done \/ UNCHANGED vars
  BY <1>9, <1>k DEF Done, vars, LimitState
<1>10. CASE FailCall
  BY <1>10 DEF FailCall, LimitInv
<1>11. QED
  BY <1>1, <1>2, <1>3, <1>4, <1>5, <1>6, <1>7, <1>8, <1>9, <1>10, LimitBegins, LimitWrites,
     LimitStages, LimitFinishes DEF Next, Calls, Checks

\* Once the transcripts are those of the image, the image keeps within the
\* limits they were kept within.
LEMMA LimitsKept ==
  ASSUME JournalInv, LimitInv, ~poisoned, \A l \in Layer : transcript[l].done = image[l]
  PROVE  /\ Cardinality(Reservation(image)) <= MaxMetadata
         /\ \A l \in Layer : \A e \in InLayer(image, l) : Len(e.payload) <= MaxFileBytes
<1>0. image \in [Layer -> Seq(Entry)]
  BY ReplayAssumption DEF JournalInv, JournalTypes
<1>1. Heard = image
  BY <1>0 DEF Heard
<1>2. Cardinality(Reservation(image)) <= MaxMetadata
  <2>1. open # None => Charge(open.entry) \in Nat
    BY ChargeIs DEF JournalInv, JournalTypes, Opening
  <2>2. /\ metadata = Reserved + (IF open = None THEN 0 ELSE Charge(open.entry))
        /\ metadata <= MaxMetadata
    BY DEF LimitInv
  <2>3. Reserved \in Nat /\ MaxMetadata \in Nat /\ Cardinality(Reservation(image)) = Reserved
    BY <1>1, ReservedIs, LimitAssumption
  <2>4. QED
    BY <2>1, <2>2, <2>3
<1>3. ASSUME NEW l \in Layer, NEW e \in InLayer(image, l)
      PROVE  Len(e.payload) <= MaxFileBytes
  <2>1. PICK i \in 1..Len(image[l]) : e = image[l][i]
    BY DEF InLayer
  <2>2. Len(image[l]) = captured[l]
    BY DEF JournalInv, Recorded
  <2>3. QED
    BY <2>1, <2>2 DEF LimitInv
<1>4. QED
  BY <1>2, <1>3

(***************************************************************************)
(* From the replay to the projection                                       *)
(***************************************************************************)

\* The validation of the journal finds the layers of the image in order.
LEMMA OrderedAlike ==
  ASSUME JournalInv, NEW l \in Layer, transcript[l].done = image[l], sealed[l] = captured[l]
  PROVE  StrictlyOrdered([i \in 1..sealed[l] |-> Ops(l)[i].entry]) <=> StrictlyOrdered(image[l])
<1>0. /\ image \in Stackable /\ image[l] \in Seq(Entry) /\ Len(image[l]) \in Nat
      /\ \A i \in 1..Len(image[l]) : image[l][i] \in Entry
  BY ReplayAssumption, InLayerIs DEF JournalInv, JournalTypes, Stackable
<1> DEFINE n == Len(image[l])
           s == [i \in 1..sealed[l] |-> Ops(l)[i].entry]
<1>1. captured[l] = n /\ Len(bySource[l]) = n /\ sealed[l] = n
      /\ \A i \in 1..n : Records(bySource[l][i], image[l][i])
  <2>1. Recorded(l)
    BY DEF JournalInv
  <2>2. QED
    BY <2>1 DEF Recorded
<1>2. \A i \in 1..n : s[i] = Header(image[l][i])
  BY <1>0, <1>1 DEF Ops, Records, RecordsIn
<1>3. Len(s) = n
  BY <1>0, <1>1
<1> HIDE DEF s
<1>4. ASSUME NEW i \in 1..n PROVE ArchivePath(s[i]) = ArchivePath(image[l][i])
  <2>1. s[i].kind = image[l][i].kind /\ s[i].path = image[l][i].path
    BY <1>0, <1>2, HeaderIs, ZenonT(40)
  <2>2. QED
    BY <2>1 DEF ArchivePath
<1>5. ASSUME NEW i \in 1..(n - 1)
      PROVE  /\ ArchivePath(s[i]) = ArchivePath(image[l][i])
             /\ ArchivePath(s[i + 1]) = ArchivePath(image[l][i + 1])
  <2>1. i \in 1..n /\ i + 1 \in 1..n
    BY <1>0
  <2>2. QED
    BY <1>4, <2>1
<1>6. StrictlyOrdered(s) <=> StrictlyOrdered(image[l])
  BY <1>3, <1>5 DEF StrictlyOrdered
<1>7. QED
  BY <1>6 DEF s

LEMMA OrderedImage ==
  ASSUME JournalInv, SealsHold, NEW l \in Layer, transcript[l].done = image[l]
  PROVE  StrictlyOrdered(image[l])
<1>1. sealed[l] = captured[l] /\ StrictlyOrdered([i \in 1..sealed[l] |-> Ops(l)[i].entry])
  BY DEF SealsHold
<1>2. QED
  BY <1>1, OrderedAlike

LEMMA CountedAlike ==
  ASSUME JournalInv, \A l \in Layer : transcript[l].done = image[l]
  PROVE  Positions(image) = {e \in Layer \X (1..MaxTarEntries) : e[2] <= Len(bySource[e[1]])}
<1>0. image \in Stackable /\ DOMAIN image = Layer
  BY ReplayAssumption DEF JournalInv, JournalTypes, Stackable
<1>1. ASSUME NEW l \in Layer
      PROVE  /\ Len(bySource[l]) = Len(image[l]) /\ Len(image[l]) \in Nat
             /\ Len(image[l]) <= MaxTarEntries /\ MaxTarEntries \in Nat
  <2>1. /\ Len(bySource[l]) = Len(image[l]) /\ Len(image[l]) <= Len(operations)
        /\ Len(operations) <= MaxTarEntries /\ Len(operations) \in Nat
    BY LenProperties DEF JournalInv, Recorded, Measured, JournalTypes
  <2>2. Len(image[l]) \in Nat /\ MaxTarEntries \in Nat
    BY <1>0, InLayerIs, LimitAssumption
  <2>3. QED
    BY <2>1, <2>2
<1>2. ASSUME NEW l \in Layer, NEW n
      PROVE  n \in 1..(MaxTarEntries + 1) /\ n <= Len(image[l])
               <=> n \in 1..MaxTarEntries /\ n <= Len(bySource[l])
  BY <1>1
<1>3. QED
  BY <1>0, <1>2 DEF Positions

LEMMA CountedImage ==
  ASSUME JournalInv, EnvelopeHolds, \A l \in Layer : transcript[l].done = image[l]
  PROVE  Cardinality(Positions(image)) <= MaxTarEntries
BY CountedAlike DEF EnvelopeHolds

LEMMA SealStart ==
  ASSUME Init
  PROVE  SealInv
BY DEF Init, SealInv, Staging, Walking, Projected

LEMMA SealStep ==
  ASSUME JournalInv, SealInv, [Next]_vars
  PROVE  SealInv'
<1>1. CASE phase' = "discarded"
  BY <1>1 DEF SealInv, Staging, Walking, Projected
<1>2. CASE phase = "replay" /\ phase' = "replay" /\ UNCHANGED projectionVars
  BY <1>2 DEF SealInv, Staging, Walking, Projected, projectionVars
<1>3. CASE phase = "begin" /\ phase' = "replay" /\ UNCHANGED projectionVars
  BY <1>3 DEF SealInv, Staging, Walking, Projected, projectionVars
<1>4. CASE StartSealing
  <2>1. /\ phase = "replay" /\ phase' = "seal" /\ layer' = 1 /\ UNCHANGED <<live, counters, cursor, rootEffect>>
    BY <1>4 DEF StartSealing
  <2>2. 1 \in Layer /\ \A m \in Layer : ~(m < 1)
    BY LayerNumbers DEF Layer
  <2>3. QED
    BY <2>1, <2>2 DEF SealInv, Staging, Walking, Projected
<1>5. CASE Seal
  <2>1. SUFFICES ASSUME SealHolds(layer), phase' # "discarded" PROVE SealInv'
    BY <1>1, <1>5 DEF Seal, Discard
  <2>2. /\ phase = "seal" /\ ~poisoned /\ ~poisoned' /\ transcript[layer].done = image[layer]
        /\ UNCHANGED <<image, transcript, cursor, live, counters, rootEffect>>
    BY <1>5, <2>1 DEF Seal, SealHolds, Outward, Discard
  <2>3. layer \in Layer /\ \A m \in Layer : m < layer => transcript[m].done = image[m]
    BY <2>2 DEF SealInv
  <2>4. layer \in Nat /\ Len(BlobOrder) \in Nat
    BY <2>3, LayerNumbers
  <2>5. CASE layer < Len(BlobOrder)
    <3>1. layer' = layer + 1 /\ phase' = "seal"
      BY <1>5, <2>1, <2>2, <2>5 DEF Seal, Discard
    <3>2. layer + 1 \in Layer /\ \A m \in Layer : m < layer + 1 => m < layer \/ m = layer
      BY <2>4, <2>5 DEF Layer
    <3>3. QED
      BY <2>2, <2>3, <3>1, <3>2 DEF SealInv, Staging, Walking, Projected
  <2>6. CASE ~(layer < Len(BlobOrder))
    <3>1. layer' = 1 /\ phase' = "journal"
      BY <1>5, <2>1, <2>2, <2>6 DEF Seal, Discard
    <3>2. \A m \in Layer : m < layer \/ m = layer
      BY <2>3, <2>4, <2>6 DEF Layer
    <3>3. \A m \in Layer : transcript'[m].done = image'[m]
      BY <2>2, <2>3, <3>2
    <3>4. QED
      BY <2>2, <3>1, <3>3 DEF SealInv, Staging, Walking, Projected
  <2>7. QED
    BY <2>5, <2>6
<1>6. CASE ValidateJournal
  <2>1. SUFFICES ASSUME SealsHold, EnvelopeHolds, phase' = "check" PROVE SealInv'
    BY <1>1, <1>6 DEF ValidateJournal, Discard
  <2>2. /\ phase = "journal" /\ layer = 1 /\ cursor = 1
        /\ UNCHANGED <<image, poisoned, transcript, cursor, layer>>
        /\ ~poisoned /\ \A l \in Layer : transcript[l].done = image[l]
    BY <1>6, <2>1 DEF ValidateJournal, SealInv, Staging, Outward, journalVars, projectionVars, Discard
  <2>3. \A l \in Layer : StrictlyOrdered(image[l])
    BY <2>1, <2>2, OrderedImage
  <2>4. Cardinality(Positions(image)) <= MaxTarEntries
    BY <2>1, <2>2, CountedImage
  <2>5. QED
    BY <2>1, <2>2, <2>3, <2>4, LayerNumbers DEF SealInv, Staging, Walking, Projected
<1>7. CASE /\ phase \in Walking \cup Projected /\ phase' \in Walking \cup Projected
           /\ UNCHANGED <<image, poisoned, transcript>>
           /\ phase' \in Walking => layer' \in Layer /\ cursor' \in Nat \ {0}
  BY <1>7 DEF SealInv, Staging, Walking, Projected
<1>8. CASE UNCHANGED <<image, poisoned, transcript, phase, layer, cursor, live, counters,
                      rootEffect>>
  BY <1>8 DEF SealInv
<1>9. CASE OpenSink \/ FinishInert \/ DropSink \/ FinishRegular
  BY <1>2, <1>9 DEF OpenSink, FinishInert, DropSink, FinishRegular, Calling
<1>10. CASE \E e \in Offered : BeginRegular(e) \/ StageInert(e)
  BY <1>2, <1>10 DEF BeginRegular, StageInert, Calling
<1>11. CASE \E b \in Byte : WriteChunk(b)
  BY <1>2, <1>11 DEF WriteChunk, Calling
<1>12. CASE FailCall
  BY <1>2, <1>12 DEF FailCall
<1>13. CASE GiveUp \/ FailCheck
  BY <1>1, <1>13 DEF GiveUp, FailCheck, Discard
<1>14. CASE Begin
  BY <1>1, <1>3, <1>14 DEF Begin, Discard
<1>15. CASE CheckWhiteouts \/ ApplyWhiteout \/ EndWhiteouts
  <2>1. SUFFICES ASSUME phase' # "discarded" PROVE SealInv'
    BY <1>1
  <2>2. phase \in {"check", "whiteout"} /\ phase' \in {"whiteout", "entry"}
    BY <1>15, <2>1 DEF CheckWhiteouts, ApplyWhiteout, EndWhiteouts, Discard
  <2>3. layer' = layer /\ cursor' \in {1, cursor + 1} /\ UNCHANGED <<image, poisoned, transcript>>
    BY <1>15, <2>1 DEF CheckWhiteouts, ApplyWhiteout, EndWhiteouts, Discard, Outward, journalVars
  <2>4. layer \in Layer /\ cursor \in Nat \ {0}
    BY <2>2 DEF SealInv, Walking
  <2>5. QED
    BY <1>7, <2>2, <2>3, <2>4 DEF Walking, Projected
<1>16. CASE ApplyEntry \/ EndLayer
  <2>1. SUFFICES ASSUME phase' # "discarded" PROVE SealInv'
    BY <1>1
  <2>2. /\ phase = "entry" /\ phase' \in {"check", "entry", "effects"}
        /\ UNCHANGED <<image, poisoned, transcript>> /\ cursor' \in {1, cursor + 1}
        /\ layer' \in {1, layer} \/ (layer < Len(BlobOrder) /\ layer' = layer + 1)
    BY <1>16, <2>1 DEF ApplyEntry, EndLayer, Discard, Outward, journalVars
  <2>3. layer \in Layer /\ cursor \in Nat \ {0}
    BY <2>2 DEF SealInv, Walking
  <2>4. layer' \in Layer
    BY <2>2, <2>3, LayerNumbers DEF Layer
  <2>5. QED
    BY <1>7, <2>2, <2>3, <2>4 DEF Walking, Projected
<1>17. CASE CheckEffects
  BY <1>1, <1>7, <1>17 DEF CheckEffects, Discard, Outward, journalVars, Walking, Projected
<1>18. CASE ValidateSpool("spool", "retained") \/ ValidateSpool("retained", "revalidated")
  BY <1>1, <1>7, <1>18 DEF ValidateSpool, Discard, journalVars, Walking, Projected
<1>19. CASE AlterSpool \/ MoveCustody
  BY <1>8, <1>19 DEF AlterSpool, MoveCustody, Meddle, projectionVars, journalVars
<1>20. CASE Done \/ UNCHANGED vars
  BY <1>8, <1>20 DEF Done, vars
<1>21. QED
  BY <1>4, <1>5, <1>6, <1>9, <1>10, <1>11, <1>12, <1>13, <1>14, <1>15, <1>16, <1>17, <1>18,
     <1>19, <1>20 DEF Next, Calls, Checks

(***************************************************************************)
(* The tree and its census                                                 *)
(***************************************************************************)

LEMMA Removal ==
  ASSUME NEW A, IsFiniteSet(A), NEW B \in SUBSET A
  PROVE  /\ IsFiniteSet(B) /\ IsFiniteSet(A \ B)
         /\ Cardinality(A) \in Nat /\ Cardinality(B) \in Nat /\ Cardinality(A \ B) \in Nat
         /\ Cardinality(A \ B) = Cardinality(A) - Cardinality(B)
<1>1. A \cap B = B
  OBVIOUS
<1>2. IsFiniteSet(B) /\ IsFiniteSet(A \ B) /\ Cardinality(A \ B) = Cardinality(A) - Cardinality(A \cap B)
  BY FS_Subset, FS_Difference
<1>3. QED
  BY <1>1, <1>2, FS_CardinalityType

\* The census of some of the live paths.
LEMMA CountWithout ==
  ASSUME IsFiniteSet(DOMAIN live), NEW R \in SUBSET DOMAIN live
  PROVE  LET D == (DOMAIN live) \ R
         IN /\ IsFiniteSet(D) /\ Cardinality(D) = Cardinality(DOMAIN live) - Cardinality(R)
            /\ Cardinality(D) \in Nat
            /\ \A k : /\ KindAt(D, k) = KindAt(DOMAIN live, k) - KindAt(R, k)
                      /\ KindAt(D, k) \in Nat
            /\ BytesAt(D) = BytesAt(DOMAIN live) - BytesAt(R)
            /\ BytesAt(D) \in Nat
<1> DEFINE D == (DOMAIN live) \ R
<1>1. IsFiniteSet(D) /\ Cardinality(D) = Cardinality(DOMAIN live) - Cardinality(R)
      /\ Cardinality(D) \in Nat
  BY Removal
<1>2. ASSUME NEW k
      PROVE  KindAt(D, k) = KindAt(DOMAIN live, k) - KindAt(R, k) /\ KindAt(D, k) \in Nat
  <2> DEFINE A == {p \in DOMAIN live : EntryOf(p).kind = k}
             B == {p \in R : EntryOf(p).kind = k}
             C == {p \in D : EntryOf(p).kind = k}
  <2>1. A \in SUBSET DOMAIN live /\ B \in SUBSET A /\ C = A \ B
    OBVIOUS
  <2>2. KindAt(D, k) = Cardinality(C) /\ KindAt(R, k) = Cardinality(B)
        /\ KindAt(DOMAIN live, k) = Cardinality(A)
    BY DEF KindAt
  <2> HIDE DEF A, B, C
  <2>3. IsFiniteSet(A)
    BY <2>1, FS_Subset
  <2>4. QED
    BY <2>1, <2>2, <2>3, Removal
<1>3. BytesAt(D) = BytesAt(DOMAIN live) - BytesAt(R) /\ BytesAt(D) \in Nat
  <2> DEFINE U == (DOMAIN live) \X (1..MaxTarBytes)
             A == {e \in (DOMAIN live) \X (1..MaxTarBytes) : e[2] <= SizeOf(live[e[1]].definition)}
             B == {e \in R \X (1..MaxTarBytes) : e[2] <= SizeOf(live[e[1]].definition)}
             C == {e \in D \X (1..MaxTarBytes) : e[2] <= SizeOf(live[e[1]].definition)}
  <2>1. A \in SUBSET U /\ B \in SUBSET A /\ C = A \ B
    OBVIOUS
  <2>2. BytesAt(D) = Cardinality(C) /\ BytesAt(R) = Cardinality(B)
        /\ BytesAt(DOMAIN live) = Cardinality(A)
    BY DEF BytesAt
  <2>3. IsFiniteSet(U)
    <3>1. IsFiniteSet(1..MaxTarBytes)
      BY LimitAssumption, FS_Interval
    <3>2. QED
      BY <3>1, FS_Product
  <2> HIDE DEF U, A, B, C
  <2>4. IsFiniteSet(A)
    BY <2>1, <2>3, FS_Subset
  <2>5. QED
    BY <2>1, <2>2, <2>4, Removal
<1>4. QED
  BY <1>1, <1>2, <1>3

LEMMA CountLess ==
  ASSUME IsFiniteSet(DOMAIN live), CountInv, NEW R \in SUBSET DOMAIN live,
         UNCHANGED <<operations, extents>>,
         DOMAIN live' = (DOMAIN live) \ R,
         \A p \in DOMAIN live' : live'[p].definition = live[p].definition,
         counters' = Less(R)
  PROVE  CountInv'
<1> DEFINE D == (DOMAIN live) \ R
<1>1. \A k : KindAt(D, k) = KindAt(DOMAIN live, k) - KindAt(R, k)
      /\ Cardinality(D) = Cardinality(DOMAIN live) - Cardinality(R)
      /\ BytesAt(D) = BytesAt(DOMAIN live) - BytesAt(R)
  BY CountWithout
<1>2. \A k : KindAt(DOMAIN live, k)' = KindAt(D, k)
  BY DEF KindAt, EntryOf
<1>3. BytesAt(DOMAIN live)' = BytesAt(D)
  <2>1. {e \in D \X (1..MaxTarBytes) : e[2] <= SizeOf(live'[e[1]].definition)}
          = {e \in D \X (1..MaxTarBytes) : e[2] <= SizeOf(live[e[1]].definition)}
    OBVIOUS
  <2>2. BytesAt(DOMAIN live)'
          = Cardinality({e \in D \X (1..MaxTarBytes) : e[2] <= SizeOf(live'[e[1]].definition)})
    BY DEF BytesAt, SizeOf
  <2>3. QED
    BY <2>1, <2>2 DEF BytesAt
<1>4. QED
  BY <1>1, <1>2, <1>3 DEF CountInv, Less

LEMMA CountMore ==
  ASSUME IsFiniteSet(DOMAIN live), CountInv, NEW R \in SUBSET DOMAIN live,
         NEW c, c \notin (DOMAIN live) \ R, NEW k,
         SizeOf(k) \in 0..MaxTarBytes,
         operations[k].entry.kind \in {"regular", "directory", "symlink"},
         UNCHANGED <<operations, extents>>,
         DOMAIN live' = ((DOMAIN live) \ R) \cup {c},
         \A p \in (DOMAIN live) \ R : live'[p].definition = live[p].definition,
         live'[c].definition = k,
         counters' = More(Less(R), k)
  PROVE  CountInv'
<1> DEFINE D == (DOMAIN live) \ R
<1>1. IsFiniteSet(D) /\ Cardinality(D) = Cardinality(DOMAIN live) - Cardinality(R)
      /\ Cardinality(D) \in Nat
      /\ (\A z : KindAt(D, z) = KindAt(DOMAIN live, z) - KindAt(R, z) /\ KindAt(D, z) \in Nat)
      /\ BytesAt(D) = BytesAt(DOMAIN live) - BytesAt(R) /\ BytesAt(D) \in Nat
  BY CountWithout
<1>2. Cardinality(DOMAIN live') = Cardinality(D) + 1
  <2>1. DOMAIN live' = D \cup {c} /\ c \notin D
    OBVIOUS
  <2> HIDE DEF D
  <2>2. QED
    BY <1>1, <2>1, FS_AddElement
<1>3. ASSUME NEW z
      PROVE  KindAt(DOMAIN live, z)'
               = KindAt(D, z) + (IF operations[k].entry.kind = z THEN 1 ELSE 0)
  <2> DEFINE A == {p \in D : EntryOf(p).kind = z}
             B == {p \in DOMAIN live' : operations[live'[p].definition].entry.kind = z}
  <2>1. KindAt(D, z) = Cardinality(A) /\ KindAt(DOMAIN live, z)' = Cardinality(B)
    BY DEF KindAt, EntryOf
  <2>2. B = IF operations[k].entry.kind = z THEN A \cup {c} ELSE A
    BY DEF EntryOf
  <2>3. A \in SUBSET D /\ c \notin A
    OBVIOUS
  <2> HIDE DEF A, B, D
  <2>4. IsFiniteSet(A) /\ Cardinality(A \cup {c}) = Cardinality(A) + 1
    BY <1>1, <2>3, FS_Subset, FS_AddElement
  <2>5. QED
    BY <1>1, <2>1, <2>2, <2>4
<1>4. BytesAt(DOMAIN live)' = BytesAt(D) + SizeOf(k)
  <2> DEFINE n == SizeOf(k)
             A == {e \in D \X (1..MaxTarBytes) : e[2] <= SizeOf(live[e[1]].definition)}
             N == {e \in {c} \X (1..MaxTarBytes) : e[2] <= n}
             B == {e \in (D \cup {c}) \X (1..MaxTarBytes) : e[2] <= SizeOf(live'[e[1]].definition)}
  <2>1. BytesAt(D) = Cardinality(A)
    BY DEF BytesAt
  <2>2. BytesAt(DOMAIN live)' = Cardinality(B)
    BY DEF BytesAt, SizeOf
  <2>3. A \cap N = {} /\ B = A \cup N
    OBVIOUS
  <2>4. IsFiniteSet(A)
    <3>1. IsFiniteSet(1..MaxTarBytes)
      BY LimitAssumption, FS_Interval
    <3>2. IsFiniteSet(D \X (1..MaxTarBytes))
      BY <1>1, <3>1, FS_Product
    <3>3. QED
      BY <3>2, FS_Subset
  <2>5. IsFiniteSet(N) /\ Cardinality(N) = n
    <3> DEFINE f == [j \in 1..n |-> <<c, j>>]
    <3>1. n \in Nat /\ n <= MaxTarBytes /\ MaxTarBytes \in Nat
      BY LimitAssumption
    <3> HIDE DEF n
    <3>2. f \in [1..n -> N] /\ \A i, j \in 1..n : f[i] = f[j] => i = j
      BY <3>1
    <3>3. ASSUME NEW x \in N PROVE \E j \in 1..n : f[j] = x
      <4>1. x[2] \in 1..n /\ x = <<c, x[2]>>
        BY <3>1
      <4>2. QED
        BY <4>1
    <3> HIDE DEF f, N
    <3>4. QED
      BY <3>1, <3>2, <3>3, Enumerated
  <2> HIDE DEF A, N, B
  <2>6. Cardinality(B) = Cardinality(A) + Cardinality(N)
    <3>1. Cardinality(A \cap N) = 0 /\ Cardinality(A) \in Nat /\ Cardinality(N) \in Nat
      BY <2>3, <2>4, <2>5, FS_EmptySet, FS_CardinalityType
    <3>2. Cardinality(A \cup N) = Cardinality(A) + Cardinality(N) - Cardinality(A \cap N)
      BY <2>4, <2>5, FS_Union
    <3>3. QED
      BY <2>3, <3>1, <3>2
  <2>7. QED
    BY <2>1, <2>2, <2>5, <2>6
<1> HIDE DEF D
<1>5. QED
  BY <1>1, <1>2, <1>3, <1>4 DEF CountInv, Less, More

\* The operation at the cursor stands for the entry of the image.
LEMMA CursorIs ==
  ASSUME JournalInv, SealInv, phase \in Walking, Within
  PROVE  LET e == image[layer][cursor]
         IN /\ layer \in Layer /\ image \in Stackable /\ StrictlyOrdered(image[layer])
            /\ cursor \in 1..Len(image[layer]) /\ Len(image[layer]) \in Nat
            /\ e \in Entry /\ Records(AtCursor, e)
            /\ Current = Header(e) /\ Current.kind = e.kind /\ Current.path = e.path
            /\ Current \in Entry /\ Current.path \in PathOf /\ Current.kind \in Kind
            /\ Current.kind # "opaque" => Current.path # <<>>
            /\ AtCursor \in 1..Len(operations) /\ SizeOf(AtCursor) \in 0..MaxTarBytes
<1> DEFINE e == image[layer][cursor]
<1>1. /\ layer \in Layer /\ cursor \in Nat \ {0} /\ transcript[layer].done = image[layer]
      /\ StrictlyOrdered(image[layer]) /\ image \in Stackable
  BY ReplayAssumption DEF SealInv, Walking, JournalInv, JournalTypes, Stackable
<1>2. /\ Len(bySource[layer]) = Len(image[layer]) /\ Len(image[layer]) \in Nat
      /\ captured[layer] = Len(image[layer])
      /\ \A i \in 1..Len(image[layer]) : image[layer][i] \in Entry
  BY <1>1, InLayerIs DEF JournalInv, Recorded
<1>3. cursor \in 1..Len(image[layer])
  BY <1>1, <1>2 DEF Within
<1>4. e \in Entry /\ Records(AtCursor, e) /\ Len(e.payload) <= MaxTarBytes
  BY <1>1, <1>2, <1>3 DEF JournalInv, Recorded, AtCursor
<1>5. Current = Header(e)
  BY <1>4 DEF Records, RecordsIn, Current
<1>6. AtCursor \in 1..Len(operations)
  BY <1>4 DEF Records, RecordsIn
<1>7. Current.kind = e.kind /\ Current.path = e.path /\ Current \in Entry
  BY <1>4, <1>5, HeaderIs
<1>8. SizeOf(AtCursor) \in 0..MaxTarBytes
  <2>1. Len(e.payload) \in Nat /\ MaxTarBytes \in Nat
    BY <1>4, EntryParts, LenProperties, LimitAssumption
  <2>2. CASE operations[AtCursor].extent = 0
    BY <2>1, <2>2 DEF SizeOf
  <2>3. CASE operations[AtCursor].extent # 0
    BY <1>4, <2>1, <2>3 DEF SizeOf, Records, RecordsIn
  <2>4. QED
    BY <2>2, <2>3
<1> HIDE DEF e
<1>9. QED
  BY <1>1, <1>2, <1>3, <1>4, <1>5, <1>6, <1>7, <1>8, EntryParts DEF e

LEMMA CursorEnds ==
  ASSUME JournalInv, SealInv, phase \in Walking, ~Within
  PROVE  /\ layer \in Layer /\ image \in Stackable /\ StrictlyOrdered(image[layer])
         /\ Len(image[layer]) \in Nat /\ cursor \in Nat /\ cursor > Len(image[layer])
<1>1. /\ layer \in Layer /\ cursor \in Nat \ {0} /\ transcript[layer].done = image[layer]
      /\ StrictlyOrdered(image[layer]) /\ image \in Stackable
  BY ReplayAssumption DEF SealInv, Walking, JournalInv, JournalTypes, Stackable
<1>2. /\ Len(bySource[layer]) = Len(image[layer]) /\ Len(image[layer]) \in Nat
  BY <1>1, InLayerIs DEF JournalInv, Recorded
<1>3. QED
  BY <1>1, <1>2 DEF Within

\* In a tree, what remove_projection_subtree takes is what lies below.
LEMMA SubtreeIs ==
  ASSUME TreeInv, NEW s \in PathOf, NEW b \in BOOLEAN
  PROVE  /\ Subtree(s, b) = {p \in DOMAIN live : (b /\ p = s) \/ Below(p, s)}
         /\ Subtree(s, b) \in SUBSET DOMAIN live
         /\ \A p \in DOMAIN live : \A q \in Subtree(s, b) : Below(p, q) => p \in Subtree(s, b)
<1>1. ASSUME NEW p \in DOMAIN live, Below(p, s), s # <<>> PROVE LiveDirectory(s)
  BY <1>1 DEF TreeInv
<1>2. Subtree(s, b) = {p \in DOMAIN live : (b /\ p = s) \/ Below(p, s)}
  BY <1>1 DEF Subtree
<1>3. ASSUME NEW p \in DOMAIN live, NEW q \in Subtree(s, b), Below(p, q)
      PROVE  p \in Subtree(s, b)
  <2>1. q \in DOMAIN live /\ (q = s \/ Below(q, s))
    BY <1>2
  <2>2. p \in PathOf /\ q \in PathOf
    BY <2>1 DEF TreeInv
  <2>3. Below(p, s)
    BY <1>3, <2>1, <2>2, BelowTransitive
  <2>4. QED
    BY <1>2, <2>3
<1>4. QED
  BY <1>2, <1>3

\* A tree without a set of paths that takes what is below along is a tree.
LEMMA TreeWithout ==
  ASSUME TreeInv, CountInv, NEW R \in SUBSET DOMAIN live,
         \A p \in DOMAIN live : \A q \in R : Below(p, q) => p \in R,
         UNCHANGED <<operations, extents>>,
         DOMAIN live' = (DOMAIN live) \ R,
         \A p \in DOMAIN live' :
           /\ live'[p].definition = live[p].definition
           /\ live'[p] = [definition |-> live'[p].definition, last |-> live'[p].last],
         counters' = Less(R)
  PROVE  TreeInv' /\ CountInv'
<1>1. CountInv'
  BY CountLess DEF TreeInv
<1>2. IsFiniteSet(DOMAIN live')
  BY FS_Difference DEF TreeInv
<1>3. ASSUME NEW p \in DOMAIN live'
      PROVE  /\ p \in PathOf /\ p # <<>> /\ Listed(p)'
             /\ \A q \in PathOf : q # <<>> /\ Below(p, q) => LiveDirectory(q)'
  <2>1. p \in DOMAIN live /\ p \notin R /\ p \in PathOf /\ p # <<>> /\ Listed(p)
    BY DEF TreeInv
  <2>2. Listed(p)'
    BY <2>1 DEF Listed, EntryOf, SizeOf
  <2>3. ASSUME NEW q \in PathOf, q # <<>>, Below(p, q) PROVE LiveDirectory(q)'
    <3>1. q \in DOMAIN live /\ EntryOf(q).kind = "directory"
      BY <2>1, <2>3 DEF TreeInv, LiveDirectory
    <3>2. q \notin R
      BY <2>1, <2>3
    <3>3. QED
      BY <3>1, <3>2 DEF LiveDirectory, EntryOf
  <2>4. QED
    BY <2>1, <2>2, <2>3
<1>4. QED
  BY <1>1, <1>2, <1>3 DEF TreeInv

LEMMA TreeWhiteout ==
  ASSUME JournalInv, SealInv, TreeInv, CountInv, ApplyWhiteout
  PROVE  TreeInv' /\ CountInv'
<1>0. phase = "whiteout" /\ Within /\ UNCHANGED <<operations, extents>>
  BY DEF ApplyWhiteout, journalVars
<1>1. Current.path \in PathOf /\ <<>> \in PathOf
  BY <1>0, CursorIs DEF Walking, PathOf
<1>2. ASSUME NEW R \in SUBSET DOMAIN live, live' = Without(R)
      PROVE  /\ DOMAIN live' = (DOMAIN live) \ R
             /\ \A p \in DOMAIN live' :
                  /\ live'[p].definition = live[p].definition
                  /\ live'[p] = [definition |-> live'[p].definition, last |-> live'[p].last]
  <2>1. DOMAIN live' = (DOMAIN live) \ R /\ \A p \in DOMAIN live' : live'[p] = live[p]
    BY <1>2 DEF Without
  <2>2. QED
    BY <2>1 DEF TreeInv, Listed
<1>3. CASE /\ Current.kind = "remove"
           /\ counters' = Less(Subtree(Current.path, TRUE))
           /\ live' = Without(Subtree(Current.path, TRUE))
  <2> DEFINE R == Subtree(Current.path, TRUE)
  <2>1. R \in SUBSET DOMAIN live /\ \A p \in DOMAIN live : \A q \in R : Below(p, q) => p \in R
    BY <1>1, SubtreeIs
  <2> HIDE DEF R
  <2>2. counters' = Less(R) /\ live' = Without(R)
    BY <1>3 DEF R
  <2>3. QED
    BY <1>0, <1>2, <2>1, <2>2, TreeWithout
<1>4. CASE /\ Current.kind = "opaque" /\ Current.path = <<>>
           /\ counters' = Less(Subtree(<<>>, FALSE))
           /\ live' = Without(Subtree(<<>>, FALSE))
  <2> DEFINE R == Subtree(<<>>, FALSE)
  <2>1. R \in SUBSET DOMAIN live /\ \A p \in DOMAIN live : \A q \in R : Below(p, q) => p \in R
    BY <1>1, SubtreeIs
  <2> HIDE DEF R
  <2>2. counters' = Less(R) /\ live' = Without(R)
    BY <1>4 DEF R
  <2>3. QED
    BY <1>0, <1>2, <2>1, <2>2, TreeWithout
<1>5. CASE /\ Current.kind = "opaque" /\ Current.path # <<>>
           /\ counters' = Less(Subtree(Current.path, FALSE))
           /\ live' = [Without(Subtree(Current.path, FALSE))
                         EXCEPT ![Current.path].last = Effect(AtCursor, 0)]
  <2> DEFINE R == Subtree(Current.path, FALSE)
  <2>1. R \in SUBSET DOMAIN live /\ \A p \in DOMAIN live : \A q \in R : Below(p, q) => p \in R
    BY <1>1, SubtreeIs
  <2> HIDE DEF R
  <2>2. counters' = Less(R)
        /\ live' = [Without(R) EXCEPT ![Current.path].last = Effect(AtCursor, 0)]
    BY <1>5 DEF R
  <2>3. DOMAIN live' = (DOMAIN live) \ R
    BY <2>2 DEF Without
  <2>4. ASSUME NEW p \in DOMAIN live'
        PROVE  /\ live'[p].definition = live[p].definition
               /\ live'[p] = [definition |-> live'[p].definition, last |-> live'[p].last]
    <3>1. /\ live[p] = [definition |-> live[p].definition, last |-> live[p].last]
          /\ Without(R)[p] = live[p]
      BY <2>3 DEF TreeInv, Listed, Without
    <3>2. CASE p # Current.path
      BY <2>2, <2>3, <3>1, <3>2 DEF Without
    <3>3. CASE p = Current.path
      <4>1. live'[p] = [live[p] EXCEPT !.last = Effect(AtCursor, 0)]
        BY <2>2, <2>3, <3>1, <3>3 DEF Without
      <4>2. QED
        BY <3>1, <4>1
    <3>4. QED
      BY <3>2, <3>3
  <2>5. QED
    BY <1>0, <2>1, <2>2, <2>3, <2>4, TreeWithout
<1>6. CASE UNCHANGED <<live, counters>>
  BY <1>0, <1>6 DEF TreeInv, CountInv, KindAt, BytesAt, EntryOf, SizeOf, Listed, LiveDirectory
<1>7. QED
  BY <1>3, <1>4, <1>5, <1>6 DEF ApplyWhiteout

\* Below a live directory there are only live directories on the way.
LEMMA AboveIsLive ==
  ASSUME TreeInv, NEW c \in PathOf, c # <<>>,
         Len(c) > 1 => LiveDirectory(Parent(c)),
         NEW q \in PathOf, q # <<>>, Below(c, q)
  PROVE  LiveDirectory(q)
<1>0. /\ Len(c) \in Nat /\ Len(q) \in Nat /\ Len(q) # 0 /\ Len(q) < Len(c)
  BY LenProperties, EmptySeq DEF PathOf, Below
<1>1. /\ Parent(c) \in PathOf /\ Len(Parent(c)) = Len(c) - 1 /\ Below(c, Parent(c))
  BY ParentIs
<1>2. LiveDirectory(Parent(c))
  BY <1>0
<1>3. CASE Len(q) = Len(c) - 1
  <2>1. q = Parent(c)
    BY <1>0, <1>3 DEF Below, Parent
  <2>2. QED
    BY <1>2, <2>1
<1>4. CASE Len(q) < Len(c) - 1
  <2>1. Below(Parent(c), q)
    BY <1>1, <1>4, AboveLinear
  <2>2. QED
    BY <1>2, <2>1 DEF TreeInv, LiveDirectory
<1>5. QED
  BY <1>0, <1>3, <1>4

LEMMA TreeEntry ==
  ASSUME JournalInv, SealInv, TreeInv, CountInv, ApplyEntry
  PROVE  TreeInv' /\ CountInv'
<1>0. phase = "entry" /\ Within /\ UNCHANGED <<operations, extents>>
  BY DEF ApplyEntry, journalVars, Discard
<1>1. CASE UNCHANGED <<live, counters>>
  BY <1>0, <1>1 DEF TreeInv, CountInv, KindAt, BytesAt, EntryOf, SizeOf, Listed, LiveDirectory
<1> DEFINE c == Current.path
           k == AtCursor
           V == IF Current.kind = "directory" THEN {} ELSE Subtree(c, TRUE)
           new == [definition |-> k, last |-> Effect(k, 1)]
<1>2. CASE Current.kind \notin Whiteouts /\ EntryFits /\ Define(V)
  <2>1. /\ c \in PathOf /\ c # <<>> /\ Current.kind \in {"regular", "directory", "symlink"}
        /\ k \in 1..Len(operations) /\ SizeOf(k) \in 0..MaxTarBytes
    BY <1>0, <1>2, CursorIs DEF Walking, Kind, Whiteouts
  <2>2. operations[k].entry = Current
    BY DEF Current
  <2>3. /\ V \in SUBSET DOMAIN live
        /\ \A p \in DOMAIN live : \A q \in V : Below(p, q) => p \in V
        /\ \A q \in V : q = c \/ Below(q, c)
        /\ Current.kind # "directory" =>
             \A p \in DOMAIN live : p = c \/ Below(p, c) => p \in V
    BY <2>1, SubtreeIs, ZenonT(40)
  <2>4. DOMAIN live' = ((DOMAIN live) \ V) \cup {c}
        /\ live'[c] = new /\ \A p \in DOMAIN live' : p # c => live'[p] = live[p]
    BY <1>2 DEF Define
  <2> DEFINE W == IF c \in (DOMAIN live) \ V THEN {c} ELSE {}
             R == V \cup W
  <2>5. counters' = More(Less(R), k)
    BY <1>2 DEF Define
  <2>6. /\ R \in SUBSET DOMAIN live /\ c \notin (DOMAIN live) \ R
        /\ DOMAIN live' = ((DOMAIN live) \ R) \cup {c}
        /\ \A p \in (DOMAIN live) \ R : live'[p].definition = live[p].definition
    BY <2>3, <2>4
  <2> HIDE DEF R, V, W
  <2>7. CountInv'
    <3>1. /\ live'[c].definition = k
          /\ operations[k].entry.kind \in {"regular", "directory", "symlink"}
      BY <2>1, <2>2, <2>4
    <3>2. IsFiniteSet(DOMAIN live) /\ UNCHANGED <<operations, extents>>
      BY <1>0 DEF TreeInv
    <3> HIDE DEF c, k
    <3>3. QED
      BY <2>1, <2>5, <2>6, <3>1, <3>2, CountMore
  <2>8. IsFiniteSet(DOMAIN live')
    <3>1. IsFiniteSet((DOMAIN live) \ V)
      BY FS_Difference DEF TreeInv
    <3>2. QED
      BY <2>4, <3>1, FS_AddElement
  <2>9. ASSUME NEW p \in DOMAIN live'
        PROVE  p \in PathOf /\ p # <<>> /\ Listed(p)'
    <3>1. CASE p = c
      BY <1>0, <2>1, <2>2, <2>4, <3>1 DEF Listed, EntryOf, SizeOf
    <3>2. CASE p # c
      <4>1. p \in DOMAIN live /\ live'[p] = live[p] /\ p \in PathOf /\ p # <<>> /\ Listed(p)
        BY <2>4, <3>2 DEF TreeInv
      <4>2. QED
        BY <1>0, <4>1 DEF Listed, EntryOf, SizeOf
    <3>3. QED
      BY <3>1, <3>2
  <2>10. ASSUME NEW p \in DOMAIN live', NEW q \in PathOf, q # <<>>, Below(p, q)
         PROVE  LiveDirectory(q)'
    <3>1. CASE q # c
      <4>1. LiveDirectory(q)
        <5>1. CASE p = c
          BY <1>2, <2>1, <2>10, <5>1, AboveIsLive DEF EntryFits
        <5>2. CASE p # c
          BY <2>4, <2>10, <5>2 DEF TreeInv
        <5>3. QED
          BY <5>1, <5>2
      <4>2. q \notin V
        <5>1. CASE p = c
          <6>1. Len(c) \in Nat /\ Len(q) \in Nat
            BY <2>1, LenProperties DEF PathOf
          <6>2. ~Below(q, c)
            BY <2>10, <5>1, <6>1 DEF Below
          <6>3. QED
            BY <2>3, <3>1, <6>2
        <5>2. CASE p # c
          BY <2>3, <2>4, <2>10, <5>2
        <5>3. QED
          BY <5>1, <5>2
      <4>3. q \in DOMAIN live' /\ live'[q] = live[q]
        BY <2>4, <3>1, <4>1, <4>2 DEF LiveDirectory
      <4>4. QED
        BY <1>0, <4>1, <4>3 DEF LiveDirectory, EntryOf
    <3>2. CASE q = c
      <4>1. p # c
        <5>1. Len(c) \in Nat
          BY <2>1, LenProperties DEF PathOf
        <5>2. QED
          BY <2>10, <3>2, <5>1 DEF Below
      <4>2. p \in DOMAIN live /\ p \notin V
        BY <2>4, <4>1
      <4>3. Current.kind = "directory"
        BY <2>3, <2>10, <3>2, <4>2
      <4>4. QED
        BY <1>0, <2>2, <2>4, <3>2, <4>3 DEF LiveDirectory, EntryOf
    <3>3. QED
      BY <3>1, <3>2
  <2>11. QED
    BY <2>7, <2>8, <2>9, <2>10 DEF TreeInv
<1>3. QED
  BY <1>1, <1>2 DEF ApplyEntry, Discard, projectionVars

LEMMA TreeEmpty ==
  ASSUME live = <<>>, counters = Zero
  PROVE  TreeInv /\ CountInv
<1>1. DOMAIN live = {}
  OBVIOUS
<1>2. \A k : KindAt(DOMAIN live, k) = 0
  BY <1>1, FS_EmptySet DEF KindAt
<1>3. BytesAt(DOMAIN live) = 0
  <2>1. {e \in {} \X (1..MaxTarBytes) : e[2] <= SizeOf(live[e[1]].definition)} = {}
    OBVIOUS
  <2>2. QED
    BY <1>1, <2>1, FS_EmptySet DEF BytesAt
<1>4. QED
  BY <1>1, <1>2, <1>3, FS_EmptySet DEF TreeInv, CountInv, Zero

LEMMA TreeStep ==
  ASSUME JournalInv, SealInv, TreeInv, CountInv, [Next]_vars
  PROVE  TreeInv' /\ CountInv'
<1>1. CASE UNCHANGED <<live, counters, operations, extents>>
  BY <1>1 DEF TreeInv, CountInv, KindAt, BytesAt, EntryOf, SizeOf, Listed, LiveDirectory
<1>2. CASE phase = "replay" /\ UNCHANGED <<live, counters>>
  <2>1. live' = <<>> /\ counters' = Zero
    BY <1>2 DEF SealInv, Staging
  <2>2. \A k : KindAt(DOMAIN live, k)' = 0
    BY <2>1, FS_EmptySet DEF KindAt
  <2>3. {e \in {} \X (1..MaxTarBytes) : e[2] <= SizeOf(live[e[1]].definition)'} = {}
    OBVIOUS
  <2>4. BytesAt(DOMAIN live)' = 0
    BY <2>1, <2>3, FS_EmptySet DEF BytesAt
  <2>5. QED
    BY <2>1, <2>2, <2>4, FS_EmptySet DEF TreeInv, CountInv, Zero
<1>3. CASE OpenSink \/ FinishInert \/ DropSink \/ FinishRegular
  BY <1>2, <1>3 DEF OpenSink, FinishInert, DropSink, FinishRegular, Calling, projectionVars
<1>4. CASE \E e \in Offered : BeginRegular(e) \/ StageInert(e)
  BY <1>2, <1>4 DEF BeginRegular, StageInert, Calling, projectionVars
<1>5. CASE \E b \in Byte : WriteChunk(b)
  BY <1>2, <1>5 DEF WriteChunk, Calling, projectionVars
<1>6. CASE FailCall
  BY <1>2, <1>6 DEF FailCall, projectionVars
<1>7. CASE GiveUp \/ StartSealing
  BY <1>2, <1>7 DEF GiveUp, StartSealing, Discard, projectionVars
<1>8. CASE FailCheck \/ Begin \/ Seal \/ ValidateJournal
  BY <1>1, <1>8 DEF FailCheck, Begin, Seal, ValidateJournal, Discard, projectionVars, journalVars
<1>9. CASE CheckWhiteouts \/ EndWhiteouts \/ EndLayer \/ CheckEffects
  BY <1>1, <1>9 DEF CheckWhiteouts, EndWhiteouts, EndLayer, CheckEffects, Discard, projectionVars, journalVars
<1>10. CASE ValidateSpool("spool", "retained") \/ ValidateSpool("retained", "revalidated")
  BY <1>1, <1>10 DEF ValidateSpool, Discard, projectionVars, journalVars
<1>11. CASE AlterSpool \/ MoveCustody
  BY <1>1, <1>11 DEF AlterSpool, MoveCustody, Meddle, projectionVars, journalVars
<1>12. CASE Done \/ UNCHANGED vars
  BY <1>1, <1>12 DEF Done, vars
<1>13. QED
  BY <1>3, <1>4, <1>5, <1>6, <1>7, <1>8, <1>9, <1>10, <1>11, <1>12, TreeWhiteout, TreeEntry
     DEF Next, Calls, Checks

\* Between any two operations, of any number of layers with any number of
\* entries, the projection is a tree of live directories and the counters,
\* kept by adding and subtracting, are its census.
THEOREM AlwaysATree == Spec => []ProjectionIsATree
<1>1. Init => JournalInv /\ SealInv /\ TreeInv /\ CountInv
  <2>1. Init => live = <<>> /\ counters = Zero
    BY DEF Init
  <2>2. QED
    BY <2>1, JournalStart, SealStart, TreeEmpty
<1>2. JournalInv /\ SealInv /\ TreeInv /\ CountInv /\ [Next]_vars
        => (JournalInv /\ SealInv /\ TreeInv /\ CountInv)'
  BY JournalStep, SealStep, TreeStep
<1>3. TreeInv /\ CountInv => ProjectionIsATree
  <2> SUFFICES ASSUME TreeInv, CountInv PROVE ProjectionIsATree
    OBVIOUS
  <2>1. ASSUME NEW p \in DOMAIN live, Len(p) > 1 PROVE LiveDirectory(Parent(p))
    <3>1. p \in PathOf /\ p # <<>> /\ Len(p) \in Nat
      BY LenProperties DEF TreeInv, PathOf
    <3>2. Parent(p) \in PathOf /\ Len(Parent(p)) = Len(p) - 1 /\ Below(p, Parent(p))
      BY <3>1, ParentIs
    <3>3. Parent(p) # <<>>
      BY <2>1, <3>1, <3>2
    <3>4. QED
      BY <3>1, <3>2, <3>3 DEF TreeInv
  <2>2. QED
    BY <2>1 DEF CountInv, ProjectionIsATree
<1>4. QED
  BY <1>1, <1>2, <1>3, PTL DEF Spec

(***************************************************************************)
(* The projection stands for the stack                                     *)
(***************************************************************************)

\* What a stack holds are entries of its layers that define something.
LEMMA StackEntries ==
  ASSUME NEW im \in Stackable, NEW n \in Nat, n <= Len(BlobOrder),
         NEW p \in DOMAIN Stack(im, n)
  PROVE  Stack(im, n)[p] \in Entry /\ Defines(Stack(im, n)[p], p)
<1> DEFINE H == Holders(im, n, p)
           top == CHOOSE l \in H : \A m \in H : m <= l
<1>1. H # {} /\ \A l \in H : l \in 1..n /\ l \in Layer /\ \E e \in InLayer(im, l) : Defines(e, p)
  BY LayerNumbers DEF Stack, LivePaths, Holders, Layer
<1> HIDE DEF H
<1>2. \E l \in H : \A m \in H : m <= l
  <2> DEFINE T == {d \in 0..n : n - d \in H}
  <2>1. T \in SUBSET Nat
    OBVIOUS
  <2>2. T # {}
    <3>1. PICK l \in H : TRUE
      BY <1>1
    <3>2. n - l \in 0..n /\ n - (n - l) = l
      BY <1>1
    <3>3. QED
      BY <3>2
  <2>3. PICK d \in T : \A y \in T : d <= y
    BY <2>1, <2>2, Least
  <2>4. ASSUME NEW m \in H PROVE m <= n - d
    <3>1. n - m \in 0..n /\ n - (n - m) = m
      BY <1>1
    <3>2. d <= n - m
      BY <2>3, <3>1
    <3>3. QED
      BY <1>1, <3>2
  <2>5. QED
    BY <2>4
<1>3. top \in H
  BY <1>2
<1>4. top \in Layer /\ \E e \in InLayer(im, top) : Defines(e, p)
  BY <1>1, <1>3
<1>5. Definition(im, n, p) \in InLayer(im, top) /\ Defines(Definition(im, n, p), p)
  BY <1>4 DEF Definition, H
<1> HIDE DEF top
<1>6. Stack(im, n)[p] = Definition(im, n, p)
  BY DEF Stack
<1>7. QED
  BY <1>4, <1>5, <1>6, InLayerIs

\* What an operation that stands for an entry says of it.
LEMMA RecordedKind ==
  ASSUME NEW k, NEW e \in Entry, Records(k, e)
  PROVE  operations[k].entry.kind = e.kind /\ operations[k].entry.path = e.path
BY HeaderIs DEF Records, RecordsIn

LEMMA UptoNext ==
  ASSUME NEW L \in Seq(Entry), NEW c \in 1..Len(L)
  PROVE  /\ Upto(L, c + 1) = Upto(L, c) \cup {c} /\ c \notin Upto(L, c)
         /\ L[c].kind \in Whiteouts => Given(L, c + 1) = Given(L, c)
         /\ L[c].kind \notin Whiteouts => Given(L, c + 1) = Given(L, c) \cup {c}
         /\ \A p : Whited(L, c + 1, p)
                     <=> Whited(L, c, p) \/ (L[c].kind \in Whiteouts /\ Hides(L[c], p))
         /\ \A p : Covered(L, c + 1, p)
                     <=> Covered(L, c, p) \/ (L[c].kind \notin Whiteouts /\ Hides(L[c], p))
<1>1. Len(L) \in Nat
  BY LenProperties
<1>2. Upto(L, c + 1) = Upto(L, c) \cup {c} /\ c \notin Upto(L, c)
  BY <1>1 DEF Upto
<1>3. QED
  BY <1>2 DEF Given, Whited, Covered

LEMMA UptoAll ==
  ASSUME NEW L \in Seq(Entry), NEW c \in Nat, c > Len(L)
  PROVE  /\ Upto(L, c) = 1..Len(L) /\ Upto(L, 1) = {}
         /\ \A p : Whited(L, c, p) <=> Swept(L, p)
         /\ \A p : ~Whited(L, 1, p) /\ ~Covered(L, 1, p)
         /\ Given(L, 1) = {}
<1>1. Len(L) \in Nat
  BY LenProperties
<1>2. Upto(L, c) = 1..Len(L) /\ Upto(L, 1) = {}
  BY <1>1 DEF Upto
<1>3. QED
  BY <1>2 DEF Given, Whited, Covered, Swept

\* validate_layer_whiteouts_against_lower_snapshot decides WhiteoutsAgree.
LEMMA WhiteoutsDecided ==
  ASSUME JournalInv, SealInv, phase = "check", Stands(Lower)
  PROVE  WhiteoutsHold(layer) <=> WhiteoutsAgree(image[layer], Lower)
<1> DEFINE L == image[layer]
           marks == {i \in 1..Len(L) : L[i].kind \in Whiteouts}
<1>1. /\ layer \in Layer /\ transcript[layer].done = L /\ image \in Stackable
  BY ReplayAssumption DEF SealInv, Walking, JournalInv, JournalTypes, Stackable
<1>2. /\ Len(bySource[layer]) = Len(L) /\ Len(L) \in Nat /\ captured[layer] = Len(L)
      /\ \A i \in 1..Len(L) : L[i] \in Entry
  BY <1>1, InLayerIs DEF JournalInv, Recorded
<1>3. ASSUME NEW i \in 1..Len(L)
      PROVE  /\ Ops(layer)[i].entry.kind = L[i].kind /\ Ops(layer)[i].entry.path = L[i].path
             /\ L[i].kind \in {"remove", "opaque"} => L[i].kind \in Whiteouts
  <2>1. Records(bySource[layer][i], L[i])
    BY <1>1, <1>2 DEF JournalInv, Recorded
  <2>2. Ops(layer)[i] = operations[bySource[layer][i]]
    BY <1>2 DEF Ops
  <2>3. QED
    BY <1>2, <2>1, <2>2, RecordedKind DEF Whiteouts
<1>4. Len(Ops(layer)) = Len(L)
  BY <1>2 DEF Ops
<1>5. ASSUME NEW p \in PathOf
      PROVE  /\ p \in DOMAIN live <=> p \in DOMAIN Lower
             /\ (p = <<>> \/ LiveDirectory(p)) <=> IsDirectory(Lower, p)
  <2>1. DOMAIN live = DOMAIN Lower
    BY DEF Stands
  <2>2. ASSUME p \in DOMAIN live PROVE EntryOf(p).kind = Lower[p].kind
    <3>1. Lower[p] \in Entry
      <4>1. layer - 1 \in Nat /\ layer - 1 <= Len(BlobOrder)
        BY <1>1, LayerNumbers DEF Layer
      <4>2. QED
        BY <1>1, <2>1, <2>2, <4>1, StackEntries DEF Lower
    <3>2. QED
      BY <2>2, <3>1, RecordedKind DEF Stands, EntryOf
  <2>3. QED
    BY <2>1, <2>2 DEF LiveDirectory, IsDirectory
<1>6. \A i \in 1..Len(L) : L[i].path \in PathOf
  BY <1>2, EntryParts
<1> HIDE DEF L
<1>7. WhiteoutsHold(layer) <=>
        \A i \in marks :
          /\ \A j \in marks : j < i => /\ L[i].path # L[j].path
                                       /\ ~Below(L[i].path, L[j].path)
                                       /\ ~Below(L[j].path, L[i].path)
          /\ L[i].kind = "remove" => L[i].path \in DOMAIN live
          /\ L[i].kind = "opaque" => L[i].path = <<>> \/ LiveDirectory(L[i].path)
  <2>1. {i \in 1..Len(Ops(layer)) : Ops(layer)[i].entry.kind \in Whiteouts} = marks
    BY <1>3, <1>4
  <2>2. \A i \in marks : i \in 1..Len(L)
    OBVIOUS
  <2> HIDE DEF marks
  <2>3. QED
    BY <1>3, <2>1, <2>2, SMTT(40) DEF WhiteoutsHold
<1>8. WhiteoutsAgree(L, Lower) <=>
        \A i \in marks :
          /\ \A j \in marks : i # j => L[i].path # L[j].path /\ ~Below(L[i].path, L[j].path)
          /\ L[i].kind = "remove" => L[i].path \in DOMAIN Lower
          /\ L[i].kind = "opaque" => IsDirectory(Lower, L[i].path)
  BY DEF WhiteoutsAgree, Whiteouts
<1>9. \A i \in marks : /\ L[i].path \in DOMAIN live <=> L[i].path \in DOMAIN Lower
                       /\ (L[i].path = <<>> \/ LiveDirectory(L[i].path))
                            <=> IsDirectory(Lower, L[i].path)
  BY <1>5, <1>6
<1>10. \A i, j \in marks : i # j <=> (i < j \/ j < i)
  BY <1>2
<1> HIDE DEF marks
<1>11. QED
  BY <1>7, <1>8, <1>9, <1>10 DEF L

\* A whiteout takes what it hides, an ordinary entry nothing yet.
LEMMA WhiteoutTakes ==
  ASSUME JournalInv, SealInv, TreeInv, ApplyWhiteout
  PROVE  LET e == image[layer][cursor]
         IN /\ DOMAIN live' = {p \in DOMAIN live : ~(e.kind \in Whiteouts /\ Hides(e, p))}
            /\ \A p \in DOMAIN live' : live'[p].definition = live[p].definition
<1> DEFINE e == image[layer][cursor]
<1>0. phase = "whiteout" /\ Within
  BY DEF ApplyWhiteout
<1>1. e \in Entry /\ Current.kind = e.kind /\ Current.path = e.path /\ e.path \in PathOf
      /\ <<>> \in PathOf
  BY <1>0, CursorIs, EntryParts DEF Walking, PathOf
<1> HIDE DEF e
<1>2. CASE /\ Current.kind = "remove" /\ live' = Without(Subtree(Current.path, TRUE))
  <2>1. Subtree(e.path, TRUE) = {p \in DOMAIN live : p = e.path \/ Below(p, e.path)}
    BY <1>1, SubtreeIs, ZenonT(40)
  <2>2. \A p : Hides(e, p) <=> p = e.path \/ Below(p, e.path)
    BY <1>1, <1>2 DEF Hides
  <2>3. e.kind \in Whiteouts
    BY <1>1, <1>2 DEF Whiteouts
  <2>4. DOMAIN live' = (DOMAIN live) \ Subtree(e.path, TRUE)
        /\ \A p \in DOMAIN live' : live'[p] = live[p]
    BY <1>1, <1>2 DEF Without
  <2>5. QED
    BY <2>1, <2>2, <2>3, <2>4 DEF e
<1>3. CASE Current.kind = "opaque"
  <2>1. Subtree(e.path, FALSE) = {p \in DOMAIN live : Below(p, e.path)}
    BY <1>1, SubtreeIs
  <2>2. \A p : Hides(e, p) <=> Below(p, e.path)
    BY <1>1, <1>3 DEF Hides
  <2>3. e.kind \in Whiteouts
    BY <1>1, <1>3 DEF Whiteouts
  <2> DEFINE W == Without(Subtree(e.path, FALSE))
  <2>4. live' = W \/ live' = [W EXCEPT ![Current.path].last = Effect(AtCursor, 0)]
    BY <1>1, <1>3 DEF ApplyWhiteout, Whiteouts
  <2>5. DOMAIN W = (DOMAIN live) \ Subtree(e.path, FALSE)
        /\ \A p \in DOMAIN W : W[p] = live[p]
    BY DEF Without
  <2> HIDE DEF W
  <2>6. DOMAIN live' = DOMAIN W
    BY <2>4
  <2>7. ASSUME NEW p \in DOMAIN live' PROVE live'[p].definition = live[p].definition
    <3>1. /\ p \in DOMAIN W /\ W[p] = live[p]
          /\ live[p] = [definition |-> live[p].definition, last |-> live[p].last]
      BY <2>5, <2>6 DEF TreeInv, Listed
    <3>2. live'[p] = live[p] \/ live'[p] = [live[p] EXCEPT !.last = Effect(AtCursor, 0)]
      BY <2>4, <3>1
    <3>3. QED
      BY <3>1, <3>2
  <2>8. QED
    BY <2>1, <2>2, <2>3, <2>5, <2>6, <2>7 DEF e
<1>4. CASE Current.kind \notin Whiteouts /\ live' = live
  BY <1>1, <1>4 DEF e
<1>5. QED
  BY <1>2, <1>3, <1>4 DEF ApplyWhiteout, Whiteouts

LEMMA MirrorWhiteout ==
  ASSUME JournalInv, SealInv, TreeInv, MirrorInv, ApplyWhiteout
  PROVE  StandsWhited(Lower, image[layer], cursor)'
<1> DEFINE L == image[layer]
           c == cursor
           e == L[c]
           S == Lower
<1>0. /\ phase = "whiteout" /\ Within /\ UNCHANGED <<operations, extents, image, layer>>
      /\ cursor' = cursor + 1
  BY DEF ApplyWhiteout, journalVars, Outward
<1>1. L \in Seq(Entry) /\ c \in 1..Len(L)
  BY <1>0, CursorIs, InLayerIs DEF Walking
<1>2. /\ DOMAIN live' = {p \in DOMAIN live : ~(e.kind \in Whiteouts /\ Hides(e, p))}
      /\ \A p \in DOMAIN live' : live'[p].definition = live[p].definition
  BY WhiteoutTakes
<1>3. /\ DOMAIN live = {p \in DOMAIN S : ~Whited(L, c, p)}
      /\ \A p \in DOMAIN live : Records(live[p].definition, S[p])
  BY <1>0 DEF MirrorInv, StandsWhited
<1>4. Lower' = S /\ image'[layer'] = L
  BY <1>0 DEF Lower
<1> HIDE DEF S, L, c
<1>5. DOMAIN live' = {p \in DOMAIN S : ~Whited(L, c + 1, p)}
  BY <1>1, <1>2, <1>3, UptoNext
<1>6. ASSUME NEW p \in DOMAIN live' PROVE RecordsIn(operations', extents', live'[p].definition, S[p])
  BY <1>0, <1>2, <1>3 DEF Records
<1>7. QED
  BY <1>0, <1>4, <1>5, <1>6 DEF StandsWhited, Records, c

LEMMA MirrorEntry ==
  ASSUME JournalInv, SealInv, TreeInv, MirrorInv, ApplyEntry, phase' = "entry"
  PROVE  /\ StandsEntered(Lower, image[layer], cursor)'
         /\ (\A i \in Given(image[layer], cursor) : Suits(Lower, image[layer], i))'
<1> DEFINE L == image[layer]
           c == cursor
           e == L[c]
           S == Lower
<1>0. /\ phase = "entry" /\ Within /\ UNCHANGED <<operations, extents, image, layer>>
      /\ cursor' = cursor + 1
  BY DEF ApplyEntry, journalVars, Outward, Discard
<1>1. /\ L \in Seq(Entry) /\ c \in 1..Len(L) /\ StrictlyOrdered(L) /\ e \in Entry
      /\ Current.kind = e.kind /\ Current.path = e.path /\ Records(AtCursor, e)
      /\ e.path \in PathOf /\ Len(L) \in Nat /\ e.kind \in Kind
      /\ e.kind # "opaque" => e.path # <<>>
  BY <1>0, CursorIs, InLayerIs, EntryParts DEF Walking
<1>2. /\ StandsEntered(S, L, c)
      /\ \A i \in Given(L, c) : Suits(S, L, i)
  BY <1>0 DEF MirrorInv
<1>3. Lower' = S /\ image'[layer'] = L /\ cursor' = c + 1
  BY <1>0 DEF Lower
<1>s. \A p \in DOMAIN S : S[p] \in Entry
  <2>1. layer - 1 \in Nat /\ layer - 1 <= Len(BlobOrder) /\ image \in Stackable
    BY <1>0, CursorIs, LayerNumbers DEF Layer, Walking
  <2>2. QED
    BY <2>1, StackEntries DEF Lower
<1> HIDE DEF S, L, c
<1>4. SUFFICES /\ DOMAIN live' = {L[i].path : i \in Given(L, c + 1)}
                                   \cup {p \in DOMAIN S : ~Swept(L, p) /\ ~Covered(L, c + 1, p)}
               /\ \A i \in Given(L, c + 1) : Records(live'[L[i].path].definition, L[i])
               /\ \A p \in DOMAIN live' : (\A i \in Given(L, c + 1) : L[i].path # p)
                                            => Records(live'[p].definition, S[p])
               /\ \A i \in Given(L, c + 1) : Suits(S, L, i)
  <2>1. StandsEntered(Lower, image[layer], cursor)'
    BY <1>0, <1>3, <1>4 DEF StandsEntered, Records
  <2>2. QED
    BY <1>3, <1>4, <2>1
<1>5. CASE Current.kind \in Whiteouts /\ live' = live
  <2>1. Given(L, c + 1) = Given(L, c) /\ \A p : Covered(L, c + 1, p) <=> Covered(L, c, p)
    BY <1>1, <1>5, UptoNext
  <2>2. QED
    BY <1>2, <1>5, <2>1 DEF StandsEntered
<1>6. CASE Current.kind \notin Whiteouts
  <2> DEFINE q == e.path
             V == IF e.kind = "directory" THEN {} ELSE Subtree(q, TRUE)
  <2>1. EntryFits /\ Define(V)
    BY <1>0, <1>1, <1>6 DEF ApplyEntry, Discard
  <2>2. q \in PathOf /\ q # <<>> /\ e.kind \in {"regular", "directory", "symlink"}
    BY <1>1, <1>6 DEF Kind, Whiteouts
  <2>3. V = {p \in DOMAIN live : e.kind # "directory" /\ (p = q \/ Below(p, q))}
    BY <2>2, SubtreeIs
  <2>4. /\ DOMAIN live' = ((DOMAIN live) \ V) \cup {q}
        /\ live'[q].definition = AtCursor
        /\ \A p \in DOMAIN live' : p # q => live'[p] = live[p]
    BY <1>1, <2>1 DEF Define
  <2>5. Given(L, c + 1) = Given(L, c) \cup {c}
        /\ \A p : Covered(L, c + 1, p) <=> Covered(L, c, p) \/ Hides(e, p)
    BY <1>1, <1>6, UptoNext
  <2>6. \A p : Hides(e, p) <=> e.kind # "directory" /\ Below(p, q)
    BY <2>2 DEF Hides
  <2>7. ASSUME NEW i \in Given(L, c)
        PROVE  /\ L[i].path # q /\ ~Below(L[i].path, q) /\ L[i] \in Entry
               /\ L[i].kind \notin Whiteouts /\ i \in 1..Len(L)
    <3>1. i \in 1..Len(L) /\ i < c /\ L[i].kind \notin Whiteouts
      BY DEF Given, Upto
    <3>2. QED
      BY <1>1, <1>6, <3>1, OrderedDefinitions, ElementOfSeq
  <2>8. DOMAIN live = {L[i].path : i \in Given(L, c)}
                        \cup {p \in DOMAIN S : ~Swept(L, p) /\ ~Covered(L, c, p)}
        /\ (\A i \in Given(L, c) : Records(live[L[i].path].definition, L[i]))
        /\ \A p \in DOMAIN live : (\A i \in Given(L, c) : L[i].path # p)
                                    => Records(live[p].definition, S[p])
    BY <1>2 DEF StandsEntered
  <2> HIDE DEF V
  <2>9. DOMAIN live' = {L[i].path : i \in Given(L, c + 1)}
                         \cup {p \in DOMAIN S : ~Swept(L, p) /\ ~Covered(L, c + 1, p)}
    <3>1. ASSUME NEW p \in DOMAIN live'
          PROVE  \/ \E i \in Given(L, c + 1) : L[i].path = p
                 \/ p \in DOMAIN S /\ ~Swept(L, p) /\ ~Covered(L, c + 1, p)
      <4>1. CASE p = q
        BY <2>5, <4>1
      <4>2. CASE p # q
        <5>1. p \in DOMAIN live /\ p \notin V
          BY <2>4, <4>2
        <5>2. ~Hides(e, p)
          BY <2>3, <2>6, <5>1
        <5>3. QED
          BY <2>5, <2>8, <5>1, <5>2
      <4>3. QED
        BY <4>1, <4>2
    <3>2. ASSUME NEW i \in Given(L, c + 1) PROVE L[i].path \in DOMAIN live'
      <4>1. CASE i = c
        BY <2>4, <4>1
      <4>2. CASE i \in Given(L, c)
        <5>1. L[i].path \in DOMAIN live /\ L[i].path \notin V
          BY <2>3, <2>7, <2>8, <4>2
        <5>2. QED
          BY <2>4, <5>1
      <4>3. QED
        BY <2>5, <4>1, <4>2
    <3>3. ASSUME NEW p \in DOMAIN S, ~Swept(L, p), ~Covered(L, c + 1, p)
          PROVE  p \in DOMAIN live'
      <4>1. p \in DOMAIN live /\ ~Hides(e, p)
        BY <2>5, <2>8, <3>3
      <4>2. p = q \/ p \notin V
        BY <2>3, <2>6, <4>1
      <4>3. QED
        BY <2>4, <4>1, <4>2
    <3>4. QED
      BY <3>1, <3>2, <3>3
  <2>10. ASSUME NEW i \in Given(L, c + 1) PROVE Records(live'[L[i].path].definition, L[i])
    <3>1. CASE i = c
      BY <1>1, <2>4, <3>1
    <3>2. CASE i \in Given(L, c)
      <4>1. L[i].path # q /\ L[i].path \in DOMAIN live'
        BY <2>7, <2>9, <3>2
      <4>2. QED
        BY <2>4, <2>8, <3>2, <4>1
    <3>3. QED
      BY <2>5, <3>1, <3>2
  <2>11. ASSUME NEW p \in DOMAIN live', \A i \in Given(L, c + 1) : L[i].path # p
         PROVE  Records(live'[p].definition, S[p])
    <3>1. p # q /\ \A i \in Given(L, c) : L[i].path # p
      BY <2>5, <2>11
    <3>2. p \in DOMAIN live /\ live'[p] = live[p]
      BY <2>4, <3>1
    <3>3. QED
      BY <2>8, <3>1, <3>2
  <2>12. Suits(S, L, c)
    <3>1. SUFFICES ASSUME e.kind = "directory", q \in DOMAIN S, ~Swept(L, q)
                   PROVE  S[q].kind = "directory"
      BY DEF Suits
    <3>2. CASE ~Covered(L, c, q)
      <4>1. q \in DOMAIN live /\ Records(live[q].definition, S[q])
        BY <2>7, <2>8, <3>1, <3>2
      <4>2. LiveDirectory(q)
        BY <1>1, <2>1, <3>1, <4>1 DEF EntryFits
      <4>3. QED
        BY <1>s, <3>1, <4>1, <4>2, RecordedKind DEF LiveDirectory, EntryOf
    <3>3. CASE Covered(L, c, q)
      <4>1. PICK i \in Given(L, c) : Hides(L[i], q)
        BY <3>3 DEF Covered, Given
      <4>2. L[i] \in Entry /\ L[i].kind \notin Whiteouts
        BY <2>7
      <4>3. L[i].kind # "directory" /\ Below(q, L[i].path)
            /\ L[i].path \in PathOf /\ L[i].path # <<>>
        BY <4>1, <4>2, EntryParts DEF Hides, Whiteouts
      <4>4. LiveDirectory(L[i].path)
        BY <1>1, <2>1, <2>2, <4>3, AboveIsLive DEF EntryFits
      <4>5. Records(live[L[i].path].definition, L[i])
        BY <2>8
      <4>6. QED
        BY <4>2, <4>3, <4>4, <4>5, RecordedKind DEF LiveDirectory, EntryOf
    <3>4. QED
      BY <3>2, <3>3
  <2>13. QED
    BY <1>2, <2>5, <2>9, <2>10, <2>11, <2>12
<1>7. QED
  BY <1>0, <1>5, <1>6 DEF ApplyEntry, Discard

\* A layer that is through has made the next stack.
\* The counters of a projection that stands for a stack are its census.
LEMMA CensusIs ==
  ASSUME JournalInv, TreeInv, CountInv, NEW n \in Nat, n <= Len(BlobOrder),
         Stands(Stack(image, n))
  PROVE  counters = Census(Stack(image, n))
<1> DEFINE S == Stack(image, n)
<1>1. DOMAIN live = DOMAIN S /\ \A p \in DOMAIN live : Records(live[p].definition, S[p])
  BY DEF Stands
<1>2. image \in Stackable
  BY ReplayAssumption DEF JournalInv, JournalTypes, Stackable
<1>3. ASSUME NEW p \in DOMAIN live
      PROVE  EntryOf(p).kind = S[p].kind /\ SizeOf(live[p].definition) = Len(S[p].payload)
  <2>1. S[p] \in Entry
    BY <1>1, <1>2, StackEntries
  <2>2. EntryOf(p).kind = S[p].kind
    BY <1>1, <2>1, RecordedKind DEF EntryOf
  <2>3. Records(live[p].definition, S[p])
    BY <1>1
  <2> HIDE DEF S
  <2>4. CASE S[p].kind = "regular"
    <3>1. /\ operations[live[p].definition].extent \in 1..Len(extents)
          /\ extents[operations[live[p].definition].extent].digest = S[p].payload
      BY <2>3, <2>4 DEF Records, RecordsIn
    <3>2. operations[live[p].definition].extent # 0
      <4>1. Len(extents) \in Nat
        BY LenProperties DEF JournalInv, JournalTypes
      <4>2. QED
        BY <3>1, <4>1
    <3>3. QED
      BY <2>2, <3>1, <3>2 DEF SizeOf
  <2>5. CASE S[p].kind # "regular"
    <3>1. operations[live[p].definition].extent = 0
      BY <2>3, <2>5 DEF Records, RecordsIn
    <3>2. S[p].payload = <<>>
      BY <2>1, <2>5 DEF Entry
    <3>3. QED
      BY <2>2, <3>1, <3>2 DEF SizeOf
  <2>6. QED
    BY <2>4, <2>5
<1> HIDE DEF S
<1>4. ASSUME NEW k PROVE KindAt(DOMAIN live, k) = Cardinality(OfKind(S, k))
  <2>1. {p \in DOMAIN live : EntryOf(p).kind = k} = {p \in DOMAIN S : S[p].kind = k}
    BY <1>1, <1>3
  <2>2. QED
    BY <2>1 DEF KindAt, OfKind
<1>5. BytesAt(DOMAIN live) = BytesOf(S)
  <2>1. {e \in (DOMAIN live) \X (1..MaxTarBytes) : e[2] <= SizeOf(live[e[1]].definition)}
          = {e \in (DOMAIN S) \X (1..MaxTarBytes) : e[2] <= Len(S[e[1]].payload)}
    BY <1>1, <1>3
  <2>2. QED
    BY <2>1 DEF BytesAt, BytesOf
<1>6. counters = Census(S)
  BY <1>1, <1>4, <1>5 DEF CountInv, Census
<1>7. QED
  BY <1>6 DEF S

LEMMA LayerApplied ==
  ASSUME JournalInv, SealInv, TreeInv, CountInv, MirrorInv, phase = "entry", ~Within
  PROVE  /\ Stands(Stack(image, layer))
         /\ counters.entries <= MaxLiveEntries /\ counters.bytes <= MaxLiveBytes
              => Admissible(image, layer)
<1> DEFINE L == image[layer]
           c == cursor
           S == Lower
           U == Stack(image, layer)
<1>1. /\ layer \in Layer /\ image \in Stackable /\ StrictlyOrdered(L)
      /\ Len(L) \in Nat /\ c \in Nat /\ c > Len(L) /\ L \in Seq(Entry)
      /\ \A i \in 1..Len(L) : L[i] \in Entry
  BY CursorEnds, InLayerIs DEF Walking
<1>2. /\ DOMAIN live = {L[i].path : i \in Given(L, c)}
                         \cup {p \in DOMAIN S : ~Swept(L, p) /\ ~Covered(L, c, p)}
      /\ \A i \in Given(L, c) : Records(live[L[i].path].definition, L[i])
      /\ \A p \in DOMAIN live : (\A i \in Given(L, c) : L[i].path # p)
                                  => Records(live[p].definition, S[p])
      /\ \A i \in Given(L, c) : Suits(S, L, i)
      /\ WhiteoutsAgree(L, S)
  BY DEF MirrorInv, StandsEntered
<1>3. Upto(L, c) = 1..Len(L)
  BY <1>1, UptoAll
<1>4. /\ \A e : e \in InLayer(image, layer) <=> \E i \in 1..Len(L) : e = L[i]
      /\ \A p : DefinedIn(image, layer, p) <=> \E i \in Given(L, c) : L[i].path = p
      /\ \A p : HiddenIn(image, layer, p) <=> Swept(L, p) \/ Covered(L, c, p)
  <2>1. \A e : e \in InLayer(image, layer) <=> \E i \in 1..Len(L) : e = L[i]
    BY DEF InLayer
  <2>2. \A i : i \in Given(L, c) <=> i \in 1..Len(L) /\ L[i].kind \notin Whiteouts
    BY <1>3 DEF Given
  <2>3. \A p : DefinedIn(image, layer, p) <=> \E i \in Given(L, c) : L[i].path = p
    BY <2>1, <2>2 DEF DefinedIn, Defines
  <2>4. \A p : HiddenIn(image, layer, p) <=> Swept(L, p) \/ Covered(L, c, p)
    BY <1>3, <2>1 DEF HiddenIn, Swept, Covered
  <2>5. QED
    BY <2>1, <2>3, <2>4
<1>5. DOMAIN live = DOMAIN U
  <2>1. \A p : p \in DOMAIN U <=> \/ DefinedIn(image, layer, p)
                                  \/ p \in DOMAIN S /\ ~HiddenIn(image, layer, p)
    BY <1>1, StackDomain DEF Lower
  <2> HIDE DEF U, S, L, c
  <2>2. \A p : p \in DOMAIN live <=> p \in DOMAIN U
    BY <1>2, <1>4, <2>1
  <2>3. QED
    BY <2>2
<1>6. ASSUME NEW i \in Given(L, c) PROVE L[i].path \in DOMAIN U /\ U[L[i].path] = L[i]
  <2>1. i \in 1..Len(L) /\ L[i].kind \notin Whiteouts /\ L[i] \in InLayer(image, layer)
    BY <1>3, <1>4 DEF Given
  <2>2. ASSUME NEW f \in InLayer(image, layer), Defines(f, L[i].path) PROVE f = L[i]
    <3>1. PICK j \in 1..Len(L) : f = L[j]
      BY <1>4
    <3>2. L[j].kind \notin Whiteouts /\ L[j].path = L[i].path
      BY <2>2, <3>1 DEF Defines
    <3>3. ~(i < j) /\ ~(j < i)
      BY <1>1, <2>1, <3>2, OrderedDefinitions
    <3>4. i = j
      BY <1>1, <2>1, <3>3
    <3>5. QED
      BY <3>1, <3>4
  <2>3. QED
    BY <1>1, <2>1, <2>2, StackNew
<1>7. ASSUME NEW p \in DOMAIN live PROVE Records(live[p].definition, U[p])
  <2>1. CASE \E i \in Given(L, c) : L[i].path = p
    BY <1>2, <1>6, <2>1
  <2>2. CASE \A i \in Given(L, c) : L[i].path # p
    <3>1. U[p] = S[p]
      BY <1>1, <1>4, <1>5, <2>2, StackOld DEF Lower
    <3>2. QED
      BY <1>2, <2>2, <3>1
  <2>3. QED
    BY <2>1, <2>2
<1>8. Stands(U)
  BY <1>5, <1>7 DEF Stands
<1>9. ASSUME NEW p \in DOMAIN live PROVE EntryOf(p).kind = U[p].kind
  <2>1. layer \in Nat /\ layer <= Len(BlobOrder)
    BY <1>1, LayerNumbers DEF Layer
  <2>2. U[p] \in Entry
    BY <1>1, <1>5, <2>1, StackEntries
  <2>3. QED
    BY <1>7, <2>2, RecordedKind DEF EntryOf
<1>10. ASSUME NEW i \in Given(L, c) PROVE IsDirectory(U, Parent(L[i].path))
  <2>1. L[i] \in Entry /\ L[i].kind \notin Whiteouts /\ L[i].path \in DOMAIN live
    BY <1>1, <1>2, <1>3 DEF Given
  <2>2. L[i].path \in PathOf /\ L[i].path # <<>>
    BY <2>1, EntryParts DEF Whiteouts
  <2>3. Parent(L[i].path) \in PathOf /\ Below(L[i].path, Parent(L[i].path))
    BY <2>2, ParentIs
  <2>4. CASE Parent(L[i].path) = <<>>
    BY <2>4 DEF IsDirectory
  <2>5. CASE Parent(L[i].path) # <<>>
    <3>1. LiveDirectory(Parent(L[i].path))
      BY <2>1, <2>3, <2>5 DEF TreeInv
    <3>2. QED
      BY <1>5, <1>9, <3>1 DEF LiveDirectory, IsDirectory
  <2>6. QED
    BY <2>4, <2>5
<1>11. ASSUME counters.entries <= MaxLiveEntries, counters.bytes <= MaxLiveBytes
       PROVE  Admissible(image, layer)
  <2>1. Cardinality(DOMAIN U) <= MaxLiveEntries /\ BytesOf(U) <= MaxLiveBytes
    <3>1. layer \in Nat /\ layer <= Len(BlobOrder)
      BY <1>1, LayerNumbers DEF Layer
    <3>2. counters = Census(U)
      BY <1>8, <3>1, CensusIs
    <3>3. QED
      BY <1>11, <3>2 DEF Census
  <2>2. ASSUME NEW e \in InLayer(image, layer), e.kind \notin Whiteouts
        PROVE  /\ IsDirectory(U, Parent(e.path))
               /\ e.kind = "directory" /\ e.path \in DOMAIN S
                    /\ ~(\E f \in InLayer(image, layer) : f.kind \in Whiteouts /\ Hides(f, e.path))
                    => S[e.path].kind = "directory"
    <3>1. PICK i \in 1..Len(L) : e = L[i]
      BY <1>4
    <3>2. i \in Given(L, c)
      BY <1>3, <2>2, <3>1 DEF Given
    <3>3. Swept(L, e.path)
            <=> \E f \in InLayer(image, layer) : f.kind \in Whiteouts /\ Hides(f, e.path)
      BY <1>4 DEF Swept
    <3>4. Suits(S, L, i)
      BY <1>2, <3>2
    <3>5. QED
      BY <1>10, <3>1, <3>2, <3>3, <3>4 DEF Suits
  <2>3. QED
    BY <1>1, <1>2, <2>1, <2>2 DEF Admissible, Lower
<1>12. QED
  BY <1>8, <1>11

LEMMA MirrorStep ==
  ASSUME JournalInv, SealInv, TreeInv, CountInv, MirrorInv, [Next]_vars
  PROVE  MirrorInv'
<1> USE DEF Walking, Projected
<1>1. CASE phase' \in Staging \cup {"discarded"}
  BY <1>1 DEF MirrorInv, Staging
<1>2. CASE ValidateJournal
  <2>1. SUFFICES ASSUME phase' = "check" PROVE MirrorInv'
    BY <1>1, <1>2 DEF ValidateJournal, Discard
  <2>2. /\ phase = "journal" /\ live' = <<>> /\ layer' = 1 /\ image' = image
    BY <1>2, <2>1 DEF ValidateJournal, Discard, projectionVars, Outward, SealInv, Staging
  <2>3. image \in Stackable
    BY ReplayAssumption DEF JournalInv, JournalTypes, Stackable
  <2>4. DOMAIN Lower' = {}
    BY <2>2, <2>3, StackBase DEF Lower
  <2>5. Stands(Lower)'
    BY <2>2, <2>4 DEF Stands
  <2>6. \A m \in Layer : ~(m < 1)
    BY LayerNumbers DEF Layer
  <2>7. QED
    BY <2>1, <2>2, <2>5, <2>6 DEF MirrorInv
<1>3. CASE CheckWhiteouts
  <2>1. SUFFICES ASSUME WhiteoutsHold(layer), phase' = "whiteout" PROVE MirrorInv'
    BY <1>1, <1>3 DEF CheckWhiteouts, Discard
  <2>2. /\ phase = "check" /\ cursor' = 1
        /\ UNCHANGED <<image, layer, live, operations, extents>>
    BY <1>3, <2>1 DEF CheckWhiteouts, Discard, journalVars, Outward
  <2>3. Stands(Lower) /\ \A m \in Layer : m < layer => Admissible(image, m)
    BY <2>2 DEF MirrorInv
  <2>4. WhiteoutsAgree(image[layer], Lower)
    BY <2>1, <2>2, <2>3, WhiteoutsDecided
  <2>5. image[layer] \in Seq(Entry) /\ Len(image[layer]) + 1 \in Nat
        /\ Len(image[layer]) + 1 > Len(image[layer])
    <3>1. image \in Stackable /\ layer \in Layer
      BY <2>2, ReplayAssumption DEF JournalInv, JournalTypes, Stackable, SealInv
    <3>2. QED
      BY <3>1, InLayerIs
  <2>6. \A p : ~Whited(image[layer], 1, p)
    BY <2>5, UptoAll
  <2>7. Lower' = Lower
    BY <2>2 DEF Lower
  <2>8. StandsWhited(Lower, image[layer], cursor)'
    BY <2>2, <2>3, <2>6, <2>7 DEF StandsWhited, Stands, Records
  <2>9. QED
    BY <2>1, <2>2, <2>3, <2>4, <2>7, <2>8 DEF MirrorInv
<1>4. CASE ApplyWhiteout
  <2>1. /\ phase = "whiteout" /\ phase' = "whiteout" /\ UNCHANGED <<image, layer>>
    BY <1>4 DEF ApplyWhiteout, Outward
  <2>2. StandsWhited(Lower, image[layer], cursor)'
    BY <1>4, MirrorWhiteout
  <2>3. Lower' = Lower
    BY <2>1 DEF Lower
  <2>4. QED
    BY <2>1, <2>2, <2>3 DEF MirrorInv
<1>5. CASE EndWhiteouts
  <2>1. /\ phase = "whiteout" /\ phase' = "entry" /\ cursor' = 1 /\ ~Within
        /\ UNCHANGED <<image, layer, live, operations, extents>>
    BY <1>5 DEF EndWhiteouts, journalVars, Outward
  <2>2. image[layer] \in Seq(Entry) /\ cursor \in Nat /\ cursor > Len(image[layer])
    BY <2>1, CursorEnds, InLayerIs
  <2>3. /\ \A p : Whited(image[layer], cursor, p) <=> Swept(image[layer], p)
        /\ \A p : ~Covered(image[layer], 1, p)
        /\ Given(image[layer], 1) = {}
    BY <2>2, UptoAll
  <2>4. Lower' = Lower
    BY <2>1 DEF Lower
  <2>5. StandsWhited(Lower, image[layer], cursor)
    BY <2>1 DEF MirrorInv
  <2>6. StandsEntered(Lower, image[layer], cursor)'
    BY <2>1, <2>3, <2>4, <2>5 DEF StandsEntered, StandsWhited, Records
  <2>7. (\A i \in Given(image[layer], cursor) : Suits(Lower, image[layer], i))'
    BY <2>1, <2>3
  <2>8. QED
    BY <2>1, <2>4, <2>6, <2>7 DEF MirrorInv
<1>6. CASE ApplyEntry
  <2>1. SUFFICES ASSUME phase' # "discarded" PROVE MirrorInv'
    BY <1>1
  <2>2. phase = "entry" /\ phase' = "entry" /\ UNCHANGED <<image, layer>>
    BY <1>6, <2>1 DEF ApplyEntry, Discard, Outward
  <2>3. /\ StandsEntered(Lower, image[layer], cursor)'
        /\ (\A i \in Given(image[layer], cursor) : Suits(Lower, image[layer], i))'
    BY <1>6, <2>2, MirrorEntry
  <2>4. Lower' = Lower
    BY <2>2 DEF Lower
  <2>5. QED
    BY <2>2, <2>3, <2>4 DEF MirrorInv
<1>7. CASE EndLayer
  <2>1. SUFFICES ASSUME phase' # "discarded" PROVE MirrorInv'
    BY <1>1
  <2>2. /\ phase = "entry" /\ ~Within
        /\ counters.entries <= MaxLiveEntries /\ counters.bytes <= MaxLiveBytes
        /\ UNCHANGED <<image, live, operations, extents>>
    BY <1>7, <2>1 DEF EndLayer, Discard, Outward, journalVars, CountersHold
  <2>3. Stands(Stack(image, layer)) /\ Admissible(image, layer)
    BY <2>2, LayerApplied
  <2>4. /\ layer \in Layer /\ layer \in Nat /\ Len(BlobOrder) \in Nat /\ layer <= Len(BlobOrder)
    BY <2>2, LayerNumbers DEF SealInv, Layer
  <2>5. \A m \in Layer : m < layer => Admissible(image, m)
    BY <2>2 DEF MirrorInv
  <2>6. CASE layer < Len(BlobOrder)
    <3>1. layer' = layer + 1 /\ phase' = "check"
      BY <1>7, <2>1, <2>6 DEF EndLayer, Discard
    <3>2. Lower' = Stack(image, layer)
      <4>1. layer' - 1 = layer
        BY <2>4, <3>1
      <4>2. QED
        BY <2>2, <4>1 DEF Lower
    <3>3. Stands(Lower)'
      BY <2>2, <2>3, <3>2 DEF Stands, Records
    <3>4. \A m \in Layer : m < layer + 1 => m < layer \/ m = layer
      BY <2>4, LayerNumbers
    <3>5. QED
      BY <2>2, <2>3, <2>5, <3>1, <3>3, <3>4 DEF MirrorInv
  <2>7. CASE ~(layer < Len(BlobOrder))
    <3>1. phase' = "effects" /\ layer = Len(BlobOrder)
      BY <1>7, <2>1, <2>4, <2>7 DEF EndLayer, Discard
    <3>2. Stands(Stack(image, Len(BlobOrder)))'
      BY <2>2, <2>3, <3>1 DEF Stands, Records
    <3>3. \A m \in Layer : m < layer \/ m = layer
      BY <2>4, <3>1, LayerNumbers DEF Layer
    <3>4. QED
      BY <2>2, <2>3, <2>5, <3>1, <3>2, <3>3 DEF MirrorInv
  <2>8. QED
    BY <2>6, <2>7
<1>8. CASE /\ phase \in Projected /\ phase' \in Projected
           /\ UNCHANGED <<image, live, operations, extents>>
  BY <1>8 DEF MirrorInv, Stands, Records
<1>9. CASE UNCHANGED <<phase, image, live, operations, extents, layer, cursor>>
  BY <1>9 DEF MirrorInv, Stands, StandsWhited, StandsEntered, Records, Lower
<1>10. CASE CheckEffects
  BY <1>1, <1>8, <1>10 DEF CheckEffects, Discard, Outward, journalVars, projectionVars
<1>11. CASE ValidateSpool("spool", "retained") \/ ValidateSpool("retained", "revalidated")
  BY <1>1, <1>8, <1>11 DEF ValidateSpool, Discard, journalVars, projectionVars
<1>12. CASE OpenSink \/ FinishInert \/ DropSink \/ FinishRegular
  BY <1>1, <1>12 DEF OpenSink, FinishInert, DropSink, FinishRegular, Calling, Staging
<1>13. CASE \E e \in Offered : BeginRegular(e) \/ StageInert(e)
  BY <1>1, <1>13 DEF BeginRegular, StageInert, Calling, Staging
<1>14. CASE \E b \in Byte : WriteChunk(b)
  BY <1>1, <1>14 DEF WriteChunk, Calling, Staging
<1>15. CASE FailCall \/ GiveUp \/ FailCheck \/ StartSealing \/ Begin \/ Seal
  BY <1>1, <1>15 DEF FailCall, GiveUp, FailCheck, StartSealing, Begin, Seal, Discard, Staging
<1>16. CASE AlterSpool \/ MoveCustody
  BY <1>9, <1>16 DEF AlterSpool, MoveCustody, Meddle, projectionVars, journalVars
<1>17. CASE Done \/ UNCHANGED vars
  BY <1>9, <1>17 DEF Done, vars
<1>18. QED
  BY <1>2, <1>3, <1>4, <1>5, <1>6, <1>7, <1>10, <1>11, <1>12, <1>13, <1>14, <1>15, <1>16, <1>17
     DEF Next, Calls, Checks

(***************************************************************************)
(* What is retained                                                        *)
(***************************************************************************)

LEMMA SpoolStep ==
  ASSUME SpoolInv, [Next]_vars
  PROVE  SpoolInv'
<1>1. CASE phase' \notin {"retained", "revalidated"}
  BY <1>1 DEF SpoolInv
<1>2. CASE altered'
  BY <1>2 DEF SpoolInv
<1>3. CASE UNCHANGED <<phase, altered, spool, extents>>
  BY <1>3 DEF SpoolInv
<1>4. CASE ValidateSpool("spool", "retained") \/ ValidateSpool("retained", "revalidated")
  <2>1. SUFFICES ASSUME phase' # "discarded" PROVE SpoolInv'
    BY <1>1
  <2>2. SpoolHolds /\ UNCHANGED <<spool, extents>>
    BY <1>4, <2>1 DEF ValidateSpool, Discard, journalVars
  <2>3. QED
    BY <2>2 DEF SpoolHolds, SpoolInv
<1>5. CASE Calls
  BY <1>1, <1>5 DEF Calls, OpenSink, BeginRegular, StageInert, WriteChunk, FinishRegular,
    FinishInert, DropSink, GiveUp, StartSealing, Calling, Discard
<1>6. CASE FailCall \/ FailCheck \/ Begin \/ Seal \/ ValidateJournal
  BY <1>1, <1>6 DEF FailCall, FailCheck, Begin, Seal, ValidateJournal, Discard
<1>7. CASE CheckWhiteouts \/ ApplyWhiteout \/ EndWhiteouts \/ ApplyEntry \/ EndLayer
  BY <1>1, <1>7 DEF CheckWhiteouts, ApplyWhiteout, EndWhiteouts, ApplyEntry, EndLayer, Discard
<1>8. CASE CheckEffects
  BY <1>1, <1>8 DEF CheckEffects, Discard
<1>9. CASE AlterSpool
  BY <1>2, <1>9 DEF AlterSpool
<1>10. CASE MoveCustody
  BY <1>3, <1>10 DEF MoveCustody, Meddle, journalVars
<1>11. CASE Done \/ UNCHANGED vars
  BY <1>3, <1>11 DEF Done, vars
<1>12. QED
  BY <1>4, <1>5, <1>6, <1>7, <1>8, <1>9, <1>10, <1>11 DEF Next, Checks

\* The path of an operation that stands for an entry, with the bytes its extent
\* has in the spool, is the entry.
LEMMA DeliveredIs ==
  ASSUME JournalInv, SpoolInv, phase \in {"retained", "revalidated"}, ~altered,
         NEW p \in DOMAIN live, NEW e \in Entry, Records(live[p].definition, e)
  PROVE  Delivered(p) = e
<1> DEFINE k == live[p].definition
           x == operations[k].extent
<1>1. k \in 1..Len(operations) /\ EntryOf(p) = Header(e)
  BY DEF Records, RecordsIn, EntryOf
<1>2. CASE e.kind = "regular"
  <2>1. /\ x \in 1..Len(extents) /\ extents[x].digest = e.payload
    BY <1>2 DEF Records, RecordsIn
  <2>2. SubSeq(spool, extents[x].offset + 1, extents[x].offset + Len(extents[x].digest))
          = e.payload
    BY <2>1 DEF SpoolInv
  <2>3. x # 0
    BY <2>1, LenProperties DEF JournalInv, JournalTypes
  <2>4. Delivered(p) = [Header(e) EXCEPT !.payload = e.payload]
    BY <1>1, <2>2, <2>3 DEF Delivered
  <2>5. [Header(e) EXCEPT !.payload = e.payload] = e
    BY EntryParts DEF Header, Entry
  <2>6. QED
    BY <2>4, <2>5
<1>3. CASE e.kind # "regular"
  <2>1. x = 0
    BY <1>3 DEF Records, RecordsIn
  <2>2. QED
    BY <1>1, <1>3, <2>1, HeaderIs DEF Delivered
<1>4. QED
  BY <1>2, <1>3

LEMMA RetainedIs ==
  ASSUME ReplayInv
  PROVE  RetainedIsTheStack
<1> SUFFICES ASSUME phase \in {"retained", "revalidated"}, ~altered
             PROVE  /\ WellFormed(image) /\ ~poisoned
                    /\ [p \in DOMAIN live |-> Delivered(p)] = Stack(image, Len(BlobOrder))
  BY DEF RetainedIsTheStack
<1>0. JournalInv /\ LimitInv /\ SealInv /\ MirrorInv /\ SpoolInv
  BY DEF ReplayInv
<1> DEFINE S == Stack(image, Len(BlobOrder))
<1>1. /\ ~poisoned /\ (\A l \in Layer : transcript[l].done = image[l])
      /\ Cardinality(Positions(image)) <= MaxTarEntries
  BY <1>0 DEF SealInv, Projected
<1>2. Stands(S) /\ \A m \in Layer : Admissible(image, m)
  BY <1>0 DEF MirrorInv, Projected
<1>3. image \in Stackable /\ DOMAIN image = Layer
  BY <1>0, ReplayAssumption DEF JournalInv, JournalTypes, Stackable
<1>4. Cardinality(Volume(image)) <= MaxTarBytes
  <2>1. [l \in Layer |-> transcript[l].done] = image
    BY <1>1, <1>3 DEF Stackable
  <2>2. Cardinality(Volume(image)) = spoolBytes /\ spoolBytes <= MaxTarBytes
    BY <1>0, <2>1 DEF JournalInv, Measured, Heard
  <2>3. QED
    BY <2>2
<1>5. WellFormed(image)
  <2>1. /\ Cardinality(Reservation(image)) <= MaxMetadata
        /\ \A l \in Layer : \A e \in InLayer(image, l) : Len(e.payload) <= MaxFileBytes
    BY <1>0, <1>1, LimitsKept
  <2>2. QED
    BY <1>1, <1>2, <1>3, <1>4, <2>1 DEF WellFormed
<1>6. DOMAIN live = DOMAIN S
  BY <1>2 DEF Stands
<1>7. ASSUME NEW p \in DOMAIN live PROVE Delivered(p) = S[p]
  <2>1. S[p] \in Entry
    BY <1>3, <1>6, LayerNumbers, StackEntries
  <2>2. Records(live[p].definition, S[p])
    BY <1>2 DEF Stands
  <2>3. QED
    BY <1>0, <2>1, <2>2, DeliveredIs
<1>8. S = [p \in DOMAIN S |-> S[p]]
  BY DEF Stack
<1> HIDE DEF S
<1>9. [p \in DOMAIN live |-> Delivered(p)] = S
  BY <1>6, <1>7, <1>8
<1>10. QED
  BY <1>1, <1>5, <1>9 DEF S

\* A root filesystem that is retained, and whose spool nobody has touched since
\* it was last read through, is exactly the tree its authenticated layers mean:
\* whatever the caller delivered, whichever call failed, in whatever order the
\* blobs came, for any image, any limits and any number of disturbances.
THEOREM RetainedExactly == Spec => []RetainedIsTheStack
<1>1. Init => ReplayInv
  <2> SUFFICES ASSUME Init PROVE ReplayInv
    OBVIOUS
  <2>1. live = <<>> /\ counters = Zero /\ phase = "begin"
    BY DEF Init
  <2>2. JournalInv /\ LimitInv /\ SealInv /\ TreeInv /\ CountInv
    BY <2>1, JournalStart, LimitStart, SealStart, TreeEmpty
  <2>3. MirrorInv /\ SpoolInv
    BY <2>1 DEF MirrorInv, SpoolInv, Walking, Projected
  <2>4. QED
    BY <2>2, <2>3 DEF ReplayInv
<1>2. ReplayInv /\ [Next]_vars => ReplayInv'
  BY JournalStep, LimitStep, SealStep, TreeStep, MirrorStep, SpoolStep DEF ReplayInv
<1>3. ReplayInv => RetainedIsTheStack
  BY RetainedIs
<1>4. QED
  BY <1>1, <1>2, <1>3, PTL DEF Spec

(***************************************************************************)
(* The effects                                                             *)
(***************************************************************************)

\* The projection has applied the whiteout (turn 0) or the entry (turn 1) of
\* operation k.
Applied(k, turn) ==
  LET op == operations[k]
  IN \/ phase \in Projected
     \/ phase \in Walking /\ op.layer < layer
     \/ phase = "whiteout" /\ op.layer = layer /\ turn = 0 /\ op.index < cursor
     \/ phase = "entry" /\ op.layer = layer /\ (turn = 0 \/ op.index < cursor)

RootOpaque(k) == operations[k].entry.kind = "opaque" /\ operations[k].entry.path = <<>>

\* Of every live path it is known what defined it and what touched it last.
EffectOf(p) ==
  LET last == live[p].last
      by == operations[last.operation].entry
  IN /\ EntryOf(p).path = p
     /\ last.operation \in 1..Len(operations) /\ last.turn \in {0, 1}
     /\ last = Effect(last.operation, last.turn)
     /\ last.turn = 1 => last.operation = live[p].definition
     /\ last.turn = 0 => LiveDirectory(p) /\ by.kind = "opaque" /\ by.path = p

\* Nothing applied to it came later.
LatestOf(k) ==
  LET e == operations[k].entry
  IN e.path \in DOMAIN live =>
       /\ e.kind \notin Whiteouts /\ Applied(k, 1) =>
            /\ NotAfter(Effect(k, 1), DefinedBy(e.path))
            /\ NotAfter(Effect(k, 1), live[e.path].last)
       /\ e.kind = "opaque" /\ Applied(k, 0) => NotAfter(Effect(k, 0), live[e.path].last)

RootLatest ==
  \/ rootEffect = None /\ \A k \in 1..Len(operations) : ~(RootOpaque(k) /\ Applied(k, 0))
  \/ \E k \in 1..Len(operations) :
       /\ RootOpaque(k) /\ rootEffect = Effect(k, 0)
       /\ \A m \in 1..Len(operations) : RootOpaque(m) /\ Applied(m, 0)
                                          => NotAfter(Effect(m, 0), rootEffect)

\* An operation has its place in the journal of its layer.
PlacedIn(ops, by, count, k) ==
  LET op == ops[k]
  IN op.index <= count[op.layer] /\ by[op.layer][op.index] = k

Placed(k) == PlacedIn(operations, bySource, captured, k)

EffectInv ==
  phase \in Walking \cup Projected =>
    /\ \A p \in DOMAIN live : EffectOf(p)
    /\ \A k \in 1..Len(operations) : Placed(k) /\ LatestOf(k)
    /\ RootLatest

LEMMA EffectKept ==
  ASSUME EffectInv, phase \in Walking \cup Projected,
         UNCHANGED <<operations, bySource, captured, live, rootEffect>>,
         \A k \in 1..Len(operations) : \A turn \in {0, 1} : Applied(k, turn)' => Applied(k, turn)
  PROVE  EffectInv'
<1>0. /\ \A p \in DOMAIN live : EffectOf(p)
      /\ \A k \in 1..Len(operations) : Placed(k) /\ LatestOf(k)
      /\ RootLatest
  BY DEF EffectInv
<1>1. \A p \in DOMAIN live' : EffectOf(p)'
  BY <1>0 DEF EffectOf, EntryOf, Effect, LiveDirectory
<1>2. ASSUME NEW k \in 1..Len(operations) PROVE Placed(k)' /\ LatestOf(k)'
  <2>1. Placed(k)'
    BY <1>0 DEF Placed, PlacedIn
  <2>2. LatestOf(k)
    BY <1>0
  <2>3. LatestOf(k)'
    BY <2>2 DEF LatestOf, DefinedBy, Effect
  <2>4. QED
    BY <2>1, <2>3
<1>3. RootLatest'
  <2>1. CASE rootEffect = None /\ \A k \in 1..Len(operations) : ~(RootOpaque(k) /\ Applied(k, 0))
    BY <2>1 DEF RootLatest, RootOpaque
  <2>2. CASE \E k \in 1..Len(operations) :
               /\ RootOpaque(k) /\ rootEffect = Effect(k, 0)
               /\ \A m \in 1..Len(operations) : RootOpaque(m) /\ Applied(m, 0)
                                                  => NotAfter(Effect(m, 0), rootEffect)
    BY <2>2 DEF RootLatest, RootOpaque, Effect
  <2>3. QED
    BY <1>0, <2>1, <2>2 DEF RootLatest
<1>4. QED
  BY <1>1, <1>2, <1>3 DEF EffectInv

\* The operation at the cursor and its place.
LEMMA CursorPlace ==
  ASSUME JournalInv, SealInv, phase \in Walking
  PROVE  /\ layer \in Layer /\ layer \in Nat /\ cursor \in Nat \ {0}
         /\ captured[layer] \in Nat /\ Len(bySource[layer]) = captured[layer]
         /\ Within => /\ AtCursor \in 1..Len(operations) /\ operations[AtCursor].layer = layer
                      /\ operations[AtCursor].index = cursor
<1>1. /\ layer \in Layer /\ layer \in Nat /\ cursor \in Nat \ {0}
  BY LayerNumbers DEF SealInv
<1>2. captured[layer] \in Nat /\ Recorded(layer)
  BY <1>1 DEF JournalInv, JournalTypes
<1>3. Len(bySource[layer]) = captured[layer]
  BY <1>2 DEF Recorded
<1>4. ASSUME Within
      PROVE  /\ AtCursor \in 1..Len(operations) /\ operations[AtCursor].layer = layer
             /\ operations[AtCursor].index = cursor
  <2>1. cursor \in 1..captured[layer]
    BY <1>1, <1>2, <1>3, <1>4 DEF Within
  <2>2. /\ Records(AtCursor, transcript[layer].done[cursor])
        /\ operations[AtCursor].layer = layer /\ operations[AtCursor].index = cursor
    BY <1>2, <2>1 DEF Recorded, AtCursor
  <2>3. QED
    BY <2>2 DEF Records, RecordsIn
<1>5. QED
  BY <1>1, <1>2, <1>3, <1>4

LEMMA OperationNumbers ==
  ASSUME JournalInv, NEW k \in 1..Len(operations)
  PROVE  /\ operations[k].layer \in Layer /\ operations[k].layer \in Nat
         /\ operations[k].index \in Nat \ {0} /\ operations[k].entry \in Entry
<1>1. operations[k] \in Operation
  BY ElementOfSeq DEF JournalInv, JournalTypes
<1>2. QED
  BY <1>1, LayerNumbers DEF Operation

\* What a step of the projection applies is the operation at the cursor, and
\* nothing applied before comes after it.
LEMMA AppliedNext ==
  ASSUME JournalInv, SealInv, EffectInv, phase \in {"whiteout", "entry"}, Within,
         phase' = phase, layer' = layer, cursor' = cursor + 1, UNCHANGED operations,
         NEW k \in 1..Len(operations), NEW turn \in {0, 1}, Applied(k, turn)'
  PROVE  LET t == IF phase = "whiteout" THEN 0 ELSE 1
         IN /\ Applied(k, turn) \/ (k = AtCursor /\ turn = t)
            /\ NotAfter(Effect(k, turn), Effect(AtCursor, t))
<1> DEFINE op == operations[k]
<1>0. /\ op.layer \in Nat /\ op.index \in Nat \ {0} /\ layer \in Nat /\ cursor \in Nat \ {0}
      /\ operations[AtCursor].layer = layer /\ operations[AtCursor].index = cursor
  BY OperationNumbers, CursorPlace DEF Walking
<1>1. bySource[op.layer][op.index] = k
  BY DEF EffectInv, Placed, PlacedIn, Walking
<1>2. op.layer = layer /\ op.index = cursor => k = AtCursor
  BY <1>1 DEF AtCursor
<1>3. CASE phase = "whiteout"
  <2>1. op.layer < layer \/ (op.layer = layer /\ turn = 0 /\ op.index < cursor + 1)
    BY <1>3 DEF Applied, Walking, Projected
  <2>2. op.index < cursor + 1 => op.index < cursor \/ op.index = cursor
    BY <1>0
  <2>3. Applied(k, turn) \/ (k = AtCursor /\ turn = 0)
    BY <1>2, <1>3, <2>1, <2>2 DEF Applied, Walking
  <2>4. NotAfter(Effect(k, turn), Effect(AtCursor, 0))
    BY <1>0, <2>1 DEF NotAfter, Effect
  <2>5. QED
    BY <1>3, <2>3, <2>4
<1>4. CASE phase = "entry"
  <2>1. op.layer < layer \/ (op.layer = layer /\ (turn = 0 \/ op.index < cursor + 1))
    BY <1>4 DEF Applied, Walking, Projected
  <2>2. op.index < cursor + 1 => op.index < cursor \/ op.index = cursor
    BY <1>0
  <2>3. Applied(k, turn) \/ (k = AtCursor /\ turn = 1)
    BY <1>2, <1>4, <2>1, <2>2 DEF Applied, Walking
  <2>4. NotAfter(Effect(k, turn), Effect(AtCursor, 1))
    BY <1>0, <2>1 DEF NotAfter, Effect
  <2>5. QED
    BY <1>4, <2>3, <2>4
<1>5. QED
  BY <1>3, <1>4

\* An opaque directory is a live one.
LEMMA OpaqueIsLive ==
  ASSUME JournalInv, SealInv, MirrorInv, phase = "whiteout", Within,
         Current.kind = "opaque", Current.path \in DOMAIN live, Current.path # <<>>
  PROVE  EntryOf(Current.path).kind = "directory"
<1> DEFINE L == image[layer]
<1>1. /\ layer \in Layer /\ image \in Stackable /\ cursor \in 1..Len(L)
      /\ L[cursor].kind = "opaque" /\ L[cursor].path = Current.path
  BY CursorIs DEF Walking
<1>2. WhiteoutsAgree(L, Lower) /\ StandsWhited(Lower, L, cursor)
  BY DEF MirrorInv
<1>3. IsDirectory(Lower, Current.path)
  BY <1>1, <1>2 DEF WhiteoutsAgree, Whiteouts
<1>4. Current.path \in DOMAIN Lower /\ Lower[Current.path].kind = "directory"
  BY <1>3 DEF IsDirectory
<1>5. Lower[Current.path] \in Entry
  <2>1. layer - 1 \in Nat /\ layer - 1 <= Len(BlobOrder)
    BY <1>1, LayerNumbers DEF Layer
  <2>2. QED
    BY <1>1, <1>4, <2>1, StackEntries DEF Lower
<1>6. Records(live[Current.path].definition, Lower[Current.path])
  BY <1>2 DEF StandsWhited
<1>7. QED
  BY <1>4, <1>5, <1>6, RecordedKind DEF EntryOf

\* Of a path that stays as it was, what is known stays true.
LEMMA EffectSame ==
  ASSUME NEW p \in DOMAIN live, EffectOf(p), UNCHANGED operations,
         p \in DOMAIN live', live'[p] = live[p]
  PROVE  EffectOf(p)'
BY DEF EffectOf, EntryOf, Effect, LiveDirectory

LEMMA LatestSame ==
  ASSUME NEW k \in 1..Len(operations), LatestOf(k), UNCHANGED operations,
         operations[k].entry.path \in DOMAIN live' =>
           /\ operations[k].entry.path \in DOMAIN live
           /\ live'[operations[k].entry.path] = live[operations[k].entry.path],
         operations[k].entry.kind \notin Whiteouts /\ Applied(k, 1)' => Applied(k, 1),
         operations[k].entry.kind = "opaque" /\ Applied(k, 0)' => Applied(k, 0)
  PROVE  LatestOf(k)'
BY DEF LatestOf, DefinedBy, Effect

LEMMA EffectWhiteout ==
  ASSUME JournalInv, SealInv, TreeInv, MirrorInv, EffectInv, ApplyWhiteout
  PROVE  EffectInv'
<1> DEFINE n == AtCursor
           q == Current.path
<1>0. /\ phase = "whiteout" /\ phase' = "whiteout" /\ Within /\ cursor' = cursor + 1
      /\ UNCHANGED <<layer, operations, bySource, captured>>
  BY DEF ApplyWhiteout, journalVars
<1>1. /\ n \in 1..Len(operations) /\ operations[n].entry = Current
      /\ q \in PathOf /\ Current.kind \in Kind
  BY <1>0, CursorIs DEF Walking, Current
<1>2. /\ \A p \in DOMAIN live : EffectOf(p)
      /\ \A k \in 1..Len(operations) : Placed(k) /\ LatestOf(k)
      /\ RootLatest
  BY <1>0 DEF EffectInv, Walking
<1>3. ASSUME NEW k \in 1..Len(operations), NEW turn \in {0, 1}, Applied(k, turn)'
      PROVE  /\ Applied(k, turn) \/ (k = n /\ turn = 0)
             /\ NotAfter(Effect(k, turn), Effect(n, 0))
  BY <1>0, <1>3, AppliedNext
<1>4. \A k \in 1..Len(operations) : Placed(k)'
  BY <1>0, <1>2 DEF Placed, PlacedIn
<1>5. CASE Current.kind \in {"remove", "opaque"} /\ ~(Current.kind = "opaque" /\ q # <<>>)
  <2>1. /\ live' = Without(Subtree(q, TRUE)) \/ live' = Without(Subtree(<<>>, FALSE))
        /\ Current.kind = "opaque" => live' = Without(Subtree(<<>>, FALSE))
    BY <1>5 DEF ApplyWhiteout, Whiteouts
  <2>2. ASSUME NEW p \in DOMAIN live' PROVE p \in DOMAIN live /\ live'[p] = live[p]
    BY <2>1 DEF Without
  <2>3. \A p \in DOMAIN live' : EffectOf(p)'
    BY <1>0, <1>2, <2>2, EffectSame
  <2>4. ASSUME NEW k \in 1..Len(operations) PROVE LatestOf(k)'
    <3>1. CASE k = n
      <4>1. operations[k].entry = Current
        BY <1>1, <3>1
      <4>2. CASE Current.kind = "remove"
        BY <1>0, <4>1, <4>2 DEF LatestOf, Whiteouts
      <4>3. CASE Current.kind = "opaque"
        <5>1. q = <<>> /\ <<>> \notin DOMAIN live'
          BY <1>5, <2>1, <4>3 DEF Without, TreeInv
        <5>2. QED
          BY <1>0, <4>1, <5>1 DEF LatestOf
      <4>4. QED
        BY <1>5, <4>2, <4>3
    <3>2. CASE k # n
      BY <1>0, <1>2, <1>3, <2>2, <3>2, LatestSame
    <3>3. QED
      BY <3>1, <3>2
  <2>5. RootLatest'
    <3>1. CASE Current.kind = "opaque"
      <4>1. rootEffect' = Effect(n, 0) /\ RootOpaque(n)
        BY <1>1, <1>5, <3>1 DEF ApplyWhiteout, RootOpaque, Whiteouts
      <4>2. \A m \in 1..Len(operations) : Applied(m, 0)' => NotAfter(Effect(m, 0), rootEffect')
        BY <1>3, <4>1
      <4>3. QED
        BY <1>0, <1>1, <4>1, <4>2 DEF RootLatest, RootOpaque, Effect
    <3>2. CASE Current.kind = "remove"
      <4>1. UNCHANGED rootEffect
        BY <3>2 DEF ApplyWhiteout, Whiteouts
      <4>2. \A m \in 1..Len(operations) : RootOpaque(m) /\ Applied(m, 0)' => Applied(m, 0)
        BY <1>1, <1>3, <3>2 DEF RootOpaque
      <4>3. QED
        BY <1>0, <1>2, <4>1, <4>2 DEF RootLatest, RootOpaque, Effect
    <3>3. QED
      BY <1>5, <3>1, <3>2
  <2>6. QED
    BY <1>0, <1>4, <2>3, <2>4, <2>5 DEF EffectInv
<1>6. CASE Current.kind = "opaque" /\ q # <<>>
  <2>1. /\ live' = [Without(Subtree(q, FALSE)) EXCEPT ![q].last = Effect(n, 0)]
        /\ UNCHANGED rootEffect
    BY <1>6 DEF ApplyWhiteout, Whiteouts
  <2>2. ASSUME NEW p \in DOMAIN live'
        PROVE  /\ p \in DOMAIN live
               /\ p # q => live'[p] = live[p]
               /\ p = q => live'[p] = [live[p] EXCEPT !.last = Effect(n, 0)]
    BY <2>1 DEF Without
  <2>3. ASSUME NEW p \in DOMAIN live' PROVE EffectOf(p)'
    <3>1. CASE p # q
      BY <1>0, <1>2, <2>2, <3>1, EffectSame
    <3>2. CASE p = q
      <4>1. live'[p].last = Effect(n, 0) /\ live'[p].definition = live[p].definition
        <5>1. live[p] = [definition |-> live[p].definition, last |-> live[p].last]
          BY <2>2 DEF TreeInv, Listed
        <5>2. QED
          BY <2>2, <3>2, <5>1
      <4>2. EntryOf(p)' = EntryOf(p) /\ EntryOf(p).path = p /\ EntryOf(p).kind = "directory"
        BY <1>0, <1>2, <1>6, <2>2, <3>2, <4>1, OpaqueIsLive DEF EntryOf, EffectOf
      <4>3. Effect(n, 0).operation = n /\ Effect(n, 0).turn = 0
        BY DEF Effect
      <4>4. operations[n].entry.kind = "opaque" /\ operations[n].entry.path = p
        BY <1>1, <1>6, <3>2
      <4>6. QED
        <5>1. LiveDirectory(p)'
          BY <4>2 DEF LiveDirectory
        <5>2. live'[p].last.operation = n /\ live'[p].last.turn = 0
          BY <4>1, <4>3
        <5>3. live'[p].last = [operation |-> n, layer |-> operations'[n].layer, turn |-> 0,
                               index |-> operations'[n].index]
          BY <1>0, <4>1 DEF Effect
        <5>4. QED
          BY <1>0, <1>1, <4>2, <4>4, <5>1, <5>2, <5>3 DEF EffectOf, Effect
    <3>3. QED
      BY <3>1, <3>2
  <2>4. ASSUME NEW k \in 1..Len(operations) PROVE LatestOf(k)'
    <3>1. CASE operations[k].entry.path # q
      <4>1. k # n
        BY <1>1, <3>1
      <4>2. QED
        BY <1>0, <1>2, <1>3, <2>2, <3>1, <4>1, LatestSame
    <3>2. CASE operations[k].entry.path = q
      <4>1. SUFFICES ASSUME q \in DOMAIN live' PROVE LatestOf(k)'
        BY <1>0, <3>2 DEF LatestOf
      <4>2. q \in DOMAIN live /\ live'[q].last = Effect(n, 0)
            /\ live'[q].definition = live[q].definition
        <5>1. live[q] = [definition |-> live[q].definition, last |-> live[q].last]
          BY <2>2, <4>1 DEF TreeInv, Listed
        <5>2. QED
          BY <2>2, <4>1, <5>1
      <4>3. ASSUME operations[k].entry.kind \notin Whiteouts, Applied(k, 1)'
            PROVE  /\ NotAfter(Effect(k, 1), Effect(live'[q].definition, 1))
                   /\ NotAfter(Effect(k, 1), live'[q].last)
        <5>1. Applied(k, 1) /\ NotAfter(Effect(k, 1), Effect(n, 0))
          BY <1>3, <4>3
        <5>2. NotAfter(Effect(k, 1), DefinedBy(q))
          BY <1>2, <3>2, <4>2, <4>3, <5>1 DEF LatestOf
        <5>3. QED
          BY <4>2, <5>1, <5>2 DEF DefinedBy
      <4>4. Applied(k, 0)' => NotAfter(Effect(k, 0), live'[q].last)
        BY <1>3, <4>2
      <4>5. QED
        <5> HIDE DEF q
        <5>1. QED
          BY <1>0, <3>2, <4>3, <4>4 DEF LatestOf, DefinedBy, Effect
    <3>3. QED
      BY <3>1, <3>2
  <2>5. RootLatest'
    <3>1. \A m \in 1..Len(operations) : RootOpaque(m) /\ Applied(m, 0)' => Applied(m, 0)
      BY <1>1, <1>3, <1>6 DEF RootOpaque
    <3>2. QED
      BY <1>0, <1>2, <2>1, <3>1 DEF RootLatest, RootOpaque, Effect
  <2>6. QED
    BY <1>0, <1>4, <2>3, <2>4, <2>5 DEF EffectInv
<1>7. CASE Current.kind \notin {"remove", "opaque"}
  <2>1. UNCHANGED <<live, rootEffect>>
    BY <1>7 DEF ApplyWhiteout, Whiteouts
  <2>2. \A p \in DOMAIN live' : EffectOf(p)'
    BY <1>0, <1>2, <2>1, EffectSame
  <2>3. ASSUME NEW k \in 1..Len(operations) PROVE LatestOf(k)'
    BY <1>0, <1>1, <1>2, <1>3, <1>7, <2>1, LatestSame
  <2>4. RootLatest'
    <3>1. \A m \in 1..Len(operations) : RootOpaque(m) /\ Applied(m, 0)' => Applied(m, 0)
      BY <1>1, <1>3, <1>7 DEF RootOpaque
    <3>2. QED
      BY <1>0, <1>2, <2>1, <3>1 DEF RootLatest, RootOpaque, Effect
  <2>5. QED
    BY <1>0, <1>4, <2>2, <2>3, <2>4 DEF EffectInv
<1>8. QED
  BY <1>5, <1>6, <1>7

LEMMA EffectEntry ==
  ASSUME JournalInv, SealInv, EffectInv, ApplyEntry, phase' = "entry"
  PROVE  EffectInv'
<1> DEFINE n == AtCursor
           q == Current.path
<1>0. /\ phase = "entry" /\ Within /\ cursor' = cursor + 1
      /\ UNCHANGED <<layer, operations, bySource, captured, rootEffect>>
  BY DEF ApplyEntry, journalVars, Discard
<1>1. n \in 1..Len(operations) /\ operations[n].entry = Current
  BY <1>0, CursorIs DEF Walking, Current
<1>2. /\ \A p \in DOMAIN live : EffectOf(p)
      /\ \A k \in 1..Len(operations) : Placed(k) /\ LatestOf(k)
      /\ RootLatest
  BY <1>0 DEF EffectInv, Walking
<1>3. ASSUME NEW k \in 1..Len(operations), NEW turn \in {0, 1}, Applied(k, turn)'
      PROVE  /\ Applied(k, turn) \/ (k = n /\ turn = 1)
             /\ NotAfter(Effect(k, turn), Effect(n, 1))
  BY <1>0, <1>3, AppliedNext
<1>4. \A k \in 1..Len(operations) : Placed(k)'
  BY <1>0, <1>2 DEF Placed, PlacedIn
<1>5. RootLatest'
  <2>1. \A m \in 1..Len(operations) : Applied(m, 0)' => Applied(m, 0)
    BY <1>3
  <2>2. QED
    BY <1>0, <1>2, <2>1 DEF RootLatest, RootOpaque, Effect
<1>6. CASE Current.kind \in Whiteouts
  <2>1. UNCHANGED live
    BY <1>6 DEF ApplyEntry
  <2>2. \A p \in DOMAIN live' : EffectOf(p)'
    BY <1>0, <1>2, <2>1, EffectSame
  <2>3. ASSUME NEW k \in 1..Len(operations) PROVE LatestOf(k)'
    BY <1>0, <1>1, <1>2, <1>3, <1>6, <2>1, LatestSame
  <2>4. QED
    BY <1>0, <1>4, <1>5, <2>2, <2>3 DEF EffectInv
<1>7. CASE Current.kind \notin Whiteouts
  <2>1. PICK removed :
          live' = [p \in ((DOMAIN live) \ removed) \cup {q} |->
                     IF p = q THEN [definition |-> n, last |-> Effect(n, 1)] ELSE live[p]]
    BY <1>0, <1>7 DEF ApplyEntry, Define, Discard
  <2>2. /\ \A p \in DOMAIN live' : p # q => p \in DOMAIN live /\ live'[p] = live[p]
        /\ q \in DOMAIN live' /\ live'[q].definition = n /\ live'[q].last = Effect(n, 1)
    BY <2>1
  <2> HIDE DEF q
  <2>3. ASSUME NEW p \in DOMAIN live' PROVE EffectOf(p)'
    <3>1. CASE p # q
      BY <1>0, <1>2, <2>2, <3>1, EffectSame
    <3>2. CASE p = q
      <4>1. EntryOf(p)'.path = p
        BY <1>0, <1>1, <2>2, <3>2 DEF EntryOf, q
      <4>2. live'[p].last = [operation |-> n, layer |-> operations'[n].layer, turn |-> 1,
                             index |-> operations'[n].index]
        BY <1>0, <2>2, <3>2 DEF Effect
      <4>3. live'[p].definition = n
        BY <2>2, <3>2
      <4> HIDE DEF n
      <4>4. QED
        BY <1>0, <1>1, <4>1, <4>2, <4>3 DEF EffectOf, Effect
    <3>3. QED
      BY <3>1, <3>2
  <2>4. ASSUME NEW k \in 1..Len(operations) PROVE LatestOf(k)'
    <3>1. CASE operations[k].entry.path # q
      <4>1. k # n
        BY <1>1, <3>1 DEF q
      <4>2. QED
        BY <1>0, <1>2, <1>3, <2>2, <3>1, <4>1, LatestSame
    <3>2. CASE operations[k].entry.path = q
      <4>1. Applied(k, 1)' => /\ NotAfter(Effect(k, 1), Effect(live'[q].definition, 1))
                              /\ NotAfter(Effect(k, 1), live'[q].last)
        BY <1>3, <2>2
      <4>2. Applied(k, 0)' => NotAfter(Effect(k, 0), live'[q].last)
        BY <1>3, <2>2
      <4>3. QED
        BY <1>0, <3>2, <4>1, <4>2 DEF LatestOf, DefinedBy, Effect
    <3>3. QED
      BY <3>1, <3>2
  <2>5. QED
    BY <1>0, <1>4, <1>5, <2>3, <2>4 DEF EffectInv
<1>8. QED
  BY <1>6, <1>7

\* The journal that passes has every operation in its place.
LEMMA EffectBegins ==
  ASSUME JournalInv, SealInv, ValidateJournal, phase' = "check"
  PROVE  EffectInv'
<1>1. /\ ReferencesHold /\ phase = "journal" /\ layer' = 1 /\ live' = <<>> /\ rootEffect' = None
      /\ UNCHANGED <<operations, bySource, captured>>
  BY DEF ValidateJournal, Discard, SealInv, Staging, journalVars, projectionVars
<1>2. ASSUME NEW k \in 1..Len(operations) PROVE Placed(k)'
  BY <1>1 DEF ReferencesHold, Placed, PlacedIn
<1>3. ASSUME NEW k \in 1..Len(operations), NEW turn PROVE ~Applied(k, turn)'
  <2>1. operations[k].layer \in Nat /\ ~(operations[k].layer < 1)
    BY OperationNumbers DEF Layer
  <2>2. QED
    BY <1>1, <2>1 DEF Applied, Projected, Walking
<1>4. RootLatest'
  BY <1>1, <1>3 DEF RootLatest
<1>5. \A k \in 1..Len(operations) : LatestOf(k)'
  BY <1>1 DEF LatestOf
<1>6. QED
  BY <1>1, <1>2, <1>4, <1>5 DEF EffectInv

LEMMA EffectStep ==
  ASSUME JournalInv, SealInv, TreeInv, MirrorInv, EffectInv, [Next]_vars
  PROVE  EffectInv'
<1>1. CASE phase' \in Staging \cup {"discarded"}
  BY <1>1 DEF EffectInv, Staging, Walking, Projected
<1>2. CASE /\ phase \in Projected /\ phase' \in Projected
           /\ UNCHANGED <<operations, bySource, captured, live, rootEffect>>
  <2>1. \A k, turn : Applied(k, turn)
    BY <1>2 DEF Applied
  <2>2. QED
    BY <1>2, <2>1, EffectKept
<1>3. CASE UNCHANGED <<phase, layer, cursor, operations, bySource, captured, live, rootEffect>>
  <2>1. CASE phase \in Walking \cup Projected
    <3>1. \A k \in 1..Len(operations) : \A turn \in {0, 1} : Applied(k, turn)' => Applied(k, turn)
      BY <1>3 DEF Applied
    <3>2. QED
      BY <1>3, <2>1, <3>1, EffectKept
  <2>2. CASE phase \notin Walking \cup Projected
    BY <1>3, <2>2 DEF EffectInv
  <2>3. QED
    BY <2>1, <2>2
<1>4. CASE ValidateJournal
  BY <1>1, <1>4, EffectBegins DEF ValidateJournal, Discard
<1>5. CASE CheckWhiteouts
  <2>1. SUFFICES ASSUME phase' # "discarded" PROVE EffectInv'
    BY <1>1
  <2>2. /\ phase = "check" /\ phase' = "whiteout" /\ cursor' = 1
        /\ UNCHANGED <<layer, operations, bySource, captured, live, rootEffect>>
    BY <1>5, <2>1 DEF CheckWhiteouts, Discard, journalVars
  <2>3. ASSUME NEW k \in 1..Len(operations), NEW turn \in {0, 1}, Applied(k, turn)'
        PROVE  Applied(k, turn)
    <3>1. operations[k].index \in Nat \ {0}
      BY OperationNumbers
    <3>2. QED
      BY <2>2, <2>3, <3>1 DEF Applied, Walking, Projected
  <2>4. QED
    BY <2>2, <2>3, EffectKept DEF Walking
<1>6. CASE EndWhiteouts
  <2>2. /\ phase = "whiteout" /\ phase' = "entry" /\ cursor' = 1 /\ ~Within
        /\ UNCHANGED <<layer, operations, bySource, captured, live, rootEffect>>
    BY <1>6 DEF EndWhiteouts, journalVars
  <2>3. ASSUME NEW k \in 1..Len(operations), NEW turn \in {0, 1}, Applied(k, turn)'
        PROVE  Applied(k, turn)
    <3>1. operations[k].index \in Nat \ {0}
      BY OperationNumbers
    <3>2. operations[k].layer = layer => operations[k].index < cursor
      <4>1. operations[k].index <= captured[operations[k].layer]
        BY <2>2 DEF EffectInv, Placed, PlacedIn, Walking
      <4>2. QED
        BY <2>2, <3>1, <4>1, CursorPlace DEF Within, Walking
    <3>3. QED
      BY <2>2, <2>3, <3>1, <3>2 DEF Applied, Walking, Projected
  <2>4. QED
    BY <2>2, <2>3, EffectKept DEF Walking
<1>7. CASE EndLayer
  <2>1. SUFFICES ASSUME phase' # "discarded" PROVE EffectInv'
    BY <1>1
  <2>2. /\ phase = "entry" /\ cursor' = 1 /\ ~Within
        /\ \/ layer < Len(BlobOrder) /\ phase' = "check" /\ layer' = layer + 1
           \/ ~(layer < Len(BlobOrder)) /\ phase' = "effects"
        /\ UNCHANGED <<operations, bySource, captured, live, rootEffect>>
    BY <1>7, <2>1 DEF EndLayer, Discard, journalVars
  <2>3. ASSUME NEW k \in 1..Len(operations), NEW turn \in {0, 1}, Applied(k, turn)'
        PROVE  Applied(k, turn)
    <3>1. operations[k].index \in Nat \ {0} /\ operations[k].layer \in Layer
          /\ operations[k].layer \in Nat
      BY OperationNumbers
    <3>2. operations[k].layer = layer => operations[k].index < cursor
      <4>1. operations[k].index <= captured[operations[k].layer]
        BY <2>2 DEF EffectInv, Placed, PlacedIn, Walking
      <4>2. QED
        BY <2>2, <3>1, <4>1, CursorPlace DEF Within, Walking
    <3>3. operations[k].layer < layer \/ operations[k].layer = layer
      <4>0. layer \in Nat /\ Len(BlobOrder) \in Nat /\ operations[k].layer <= Len(BlobOrder)
        BY <2>2, <3>1, CursorPlace, LayerNumbers DEF Walking, Layer
      <4>1. CASE phase' = "check"
        <5>1. operations[k].layer < layer + 1
          BY <2>2, <2>3, <4>1 DEF Applied, Walking, Projected
        <5>2. QED
          BY <3>1, <4>0, <5>1
      <4>2. CASE phase' = "effects"
        BY <2>2, <3>1, <4>0, <4>2
      <4>3. QED
        BY <2>2, <4>1, <4>2
    <3>4. QED
      BY <2>2, <3>2, <3>3 DEF Applied, Walking
  <2>4. QED
    BY <2>2, <2>3, EffectKept DEF Walking
<1>8. CASE ApplyEntry
  BY <1>1, <1>8, EffectEntry DEF ApplyEntry, Discard
<1>9. CASE CheckEffects
  BY <1>1, <1>2, <1>9 DEF CheckEffects, Discard, journalVars, projectionVars, Projected
<1>10. CASE ValidateSpool("spool", "retained") \/ ValidateSpool("retained", "revalidated")
  BY <1>1, <1>2, <1>10 DEF ValidateSpool, Discard, journalVars, projectionVars, Projected
<1>11. CASE OpenSink \/ FinishInert \/ DropSink \/ FinishRegular
  BY <1>1, <1>11 DEF OpenSink, FinishInert, DropSink, FinishRegular, Calling, Staging
<1>12. CASE \E e \in Offered : BeginRegular(e) \/ StageInert(e)
  BY <1>1, <1>12 DEF BeginRegular, StageInert, Calling, Staging
<1>13. CASE \E b \in Byte : WriteChunk(b)
  BY <1>1, <1>13 DEF WriteChunk, Calling, Staging
<1>14. CASE FailCall \/ GiveUp \/ FailCheck \/ StartSealing \/ Begin \/ Seal
  BY <1>1, <1>14 DEF FailCall, GiveUp, FailCheck, StartSealing, Begin, Seal, Discard, Staging
<1>15. CASE AlterSpool \/ MoveCustody
  BY <1>3, <1>15 DEF AlterSpool, MoveCustody, Meddle, projectionVars, journalVars
<1>16. CASE Done \/ UNCHANGED vars
  BY <1>3, <1>16 DEF Done, vars
<1>17. QED
  BY <1>4, <1>5, <1>6, <1>7, <1>8, <1>9, <1>10, <1>11, <1>12, <1>13, <1>14, <1>15, <1>16,
     EffectWhiteout DEF Next, Calls, Checks

\* So the validation of the effects finds nothing to object to.
LEMMA EffectsFound ==
  ASSUME TreeInv, EffectInv, phase = "effects"
  PROVE  LiveEffectsHold /\ EffectsAreLatest
<1>0. /\ \A p \in DOMAIN live : EffectOf(p)
      /\ \A k \in 1..Len(operations) : LatestOf(k)
      /\ RootLatest
      /\ \A k, turn : Applied(k, turn)
  BY DEF EffectInv, Projected, Applied
<1>1. ASSUME NEW p \in DOMAIN live
      PROVE  LET last == live[p].last
                 by == operations[last.operation].entry
             IN /\ EntryOf(p).path = p
                /\ last = Effect(last.operation, last.turn)
                /\ last.turn = 1 => last.operation = live[p].definition /\ by.kind \notin Whiteouts
                /\ last.turn = 0 => LiveDirectory(p) /\ by.kind = "opaque" /\ by.path = p
  <2>1. EntryOf(p).kind \in {"regular", "directory", "symlink"}
    BY DEF TreeInv, Listed
  <2>2. EntryOf(p).kind \notin Whiteouts
    BY <2>1 DEF Whiteouts
  <2>3. EffectOf(p)
    BY <1>0
  <2>4. QED
    BY <2>2, <2>3 DEF EffectOf, EntryOf
<1>2. ASSUME NEW k \in 1..Len(operations)
      PROVE  LET e == operations[k].entry
             IN e.path \in DOMAIN live =>
                  /\ e.kind \notin Whiteouts => /\ NotAfter(Effect(k, 1), DefinedBy(e.path))
                                                /\ NotAfter(Effect(k, 1), live[e.path].last)
                  /\ e.kind = "opaque" => NotAfter(Effect(k, 0), live[e.path].last)
  BY <1>0 DEF LatestOf
<1>3. LET roots == {k \in 1..Len(operations) : /\ operations[k].entry.kind = "opaque"
                                               /\ operations[k].entry.path = <<>>}
      IN IF roots = {} THEN rootEffect = None
         ELSE \E k \in roots : /\ rootEffect = Effect(k, 0)
                               /\ \A m \in roots : NotAfter(Effect(m, 0), rootEffect)
  BY <1>0 DEF RootLatest, RootOpaque
<1>4. QED
  BY <1>1, <1>2, <1>3 DEF LiveEffectsHold, EffectsAreLatest

(***************************************************************************)
(* While nothing goes wrong                                                *)
(***************************************************************************)

Calm == deviations = 0 /\ meddles = 0 /\ faults = 0 /\ WellFormed(image)

\* How much of its layer the sink has been given.
Taken == IF sinkState = "regular" THEN next - 2 ELSE next - 1

CalmCalls ==
  /\ blob \in 1..(Len(BlobOrder) + 1)
  /\ \A i \in Layer :
       /\ i < blob => transcript[BlobOrder[i]].done = image[BlobOrder[i]]
       /\ i > blob \/ (i = blob /\ sink = None) => transcript[BlobOrder[i]].done = <<>>
  /\ sink = None => sinkState = "none"
  /\ sink # None =>
       /\ blob \in Layer /\ sink = BlobOrder[blob]
       /\ Taken \in 0..Len(image[sink]) /\ next <= Len(image[sink]) + 1
       /\ transcript[sink].done = SubSeq(image[sink], 1, Taken)
  /\ sinkState = "regular" =>
       /\ open.entry = image[sink][next - 1]
       /\ open.offset = spoolBytes
       /\ open.written = SubSeq(open.entry.payload, 1, Len(open.written))

CalmEnvelope ==
  /\ sinkState # "regular" => open = None
  /\ \A l \in Layer : ~(sinkState = "regular" /\ l = sink) => transcript[l].open = None
  /\ openInert = (sinkState = "inert")
  /\ \A x \in 1..Len(extents) :
       extents[x].offset = IF x = 1 THEN 0 ELSE extents[x - 1].offset
                                                + Len(extents[x - 1].digest)
  /\ spoolBytes = IF extents = <<>> THEN 0
                  ELSE extents[Len(extents)].offset + Len(extents[Len(extents)].digest)

\* An operation refers to the extent that was written for it.
Refers(op, exts) ==
  IF op.entry.kind = "regular"
  THEN /\ op.extent \in 1..Len(exts)
       /\ exts[op.extent].layer = op.layer /\ exts[op.extent].index = op.index
  ELSE op.extent = 0

CalmReferences ==
  /\ \A k \in 1..Len(operations) : Placed(k) /\ Refers(operations[k], extents)
  /\ \A x \in 1..Len(extents) : \E k \in 1..Len(operations) : operations[k].extent = x

\* What has been written is in the spool, what is being written at its end.
CalmSpool ==
  /\ spool \in Seq(Byte)
  /\ Len(spool) = spoolBytes + (IF sinkState = "regular" THEN Len(open.written) ELSE 0)
  /\ \A x \in 1..Len(extents) :
       /\ extents[x].offset + Len(extents[x].digest) <= spoolBytes
       /\ \A j \in 1..Len(extents[x].digest) :
            spool[extents[x].offset + j] = extents[x].digest[j]
  /\ sinkState = "regular" =>
       \A j \in 1..Len(open.written) : spool[spoolBytes + j] = open.written[j]

CalmSeals ==
  /\ DOMAIN sealed = Layer
  /\ phase \in {"begin", "replay"} => CalmCalls /\ \A l \in Layer : sealed[l] = None
  /\ phase \notin {"begin", "replay"} =>
       /\ sinkState = "none"
       /\ \A l \in Layer : transcript[l].done = image[l]
       /\ expected = Census(Stack(image, Len(BlobOrder)))
  /\ phase = "seal" => \A l \in Layer : sealed[l] = IF l < layer THEN captured[l] ELSE None
  /\ phase \in {"journal"} \cup Walking \cup Projected => \A l \in Layer : sealed[l] = captured[l]

Tallies == {deviations, meddles, faults} \subseteq Nat

Undisturbed ==
  /\ phase # "discarded" /\ ~poisoned /\ custody
  /\ CalmSeals /\ CalmEnvelope /\ CalmReferences /\ CalmSpool

CalmInv == Tallies /\ (Calm => Undisturbed)

\* Every layer is in one blob.
LEMMA BlobsApart ==
  /\ \A i \in Layer : BlobOrder[i] \in Layer
  /\ \A i, j \in Layer : BlobOrder[i] = BlobOrder[j] => i = j
<1>1. BlobOrder \in [Layer -> Layer]
  BY ReplayAssumption, LenProperties DEF Layer
<1>2. BlobOrder \in Surjection(Layer, Layer)
  BY <1>1, ReplayAssumption, Zenon DEF Surjection
<1>3. IsFiniteSet(Layer)
  BY LayerNumbers, FS_Interval DEF Layer
<1>4. BlobOrder \in Injection(Layer, Layer)
  BY <1>2, <1>3, FS_SurjSameCardinalityImpliesInj
<1>5. QED
  BY <1>1, <1>4, Zenon DEF Injection, IsInjective

LEMMA TripleFinite ==
  ASSUME NEW A, NEW B, NEW C, IsFiniteSet(A), IsFiniteSet(B), IsFiniteSet(C)
  PROVE  IsFiniteSet(A \X B \X C)
<1> DEFINE S == (A \X B) \X C
           T == A \X B \X C
           f == [x \in S |-> <<x[1][1], x[1][2], x[2]>>]
<1>1. IsFiniteSet(S)
  BY FS_Product
<1>2. f \in [S -> T]
  OBVIOUS
<1>3. ASSUME NEW t \in T PROVE \E x \in S : f[x] = t
  <2>1. t = <<t[1], t[2], t[3]>> /\ <<<<t[1], t[2]>>, t[3]>> \in S
    OBVIOUS
  <2>2. f[<<<<t[1], t[2]>>, t[3]>>] = t
    BY <2>1
  <2>3. QED
    BY <2>1, <2>2
<1> HIDE DEF f, S, T
<1>4. f \in Surjection(S, T)
  BY <1>2, <1>3, Zenon DEF Surjection
<1>5. IsFiniteSet(T)
  BY <1>1, <1>4, FS_Surjection
<1>6. QED
  BY <1>5 DEF T

Begins(s, t) == Len(s) <= Len(t) /\ \A i \in 1..Len(s) : s[i] = t[i]

\* What begins like an image takes no more than it.
LEMMA PrefixCounts ==
  ASSUME NEW D \in Stackable, NEW E \in Stackable, \A l \in Layer : Begins(D[l], E[l])
  PROVE  /\ IsFiniteSet(Positions(D)) /\ IsFiniteSet(Positions(E))
         /\ Cardinality(Positions(D)) \in Nat /\ Cardinality(Positions(E)) \in Nat
         /\ Cardinality(Positions(D)) <= Cardinality(Positions(E))
         /\ IsFiniteSet(Volume(D)) /\ IsFiniteSet(Volume(E))
         /\ Cardinality(Volume(D)) \in Nat /\ Cardinality(Volume(E)) \in Nat
         /\ Cardinality(Volume(D)) <= Cardinality(Volume(E))
<1>0. DOMAIN D = Layer /\ DOMAIN E = Layer
  BY DEF Stackable
<1>1. IsFiniteSet(Layer) /\ IsFiniteSet(1..(MaxTarEntries + 1)) /\ IsFiniteSet(1..(MaxTarBytes + 1))
  BY LayerNumbers, LimitAssumption, FS_Interval DEF Layer
<1>2. ASSUME NEW l \in Layer
      PROVE  /\ Len(D[l]) \in Nat /\ Len(E[l]) \in Nat /\ Len(D[l]) <= Len(E[l])
             /\ \A i \in 1..Len(D[l]) : D[l][i] = E[l][i]
  BY LenProperties DEF Stackable, Begins
<1>3. IsFiniteSet(Positions(E)) /\ Positions(D) \in SUBSET Positions(E)
  <2> DEFINE U == Layer \X (1..(MaxTarEntries + 1))
  <2>1. IsFiniteSet(U) /\ Positions(E) \in SUBSET U
    BY <1>0, <1>1, FS_Product DEF Positions
  <2>2. Positions(D) \in SUBSET Positions(E)
    BY <1>0, <1>2 DEF Positions
  <2>3. QED
    BY <2>1, <2>2, FS_Subset
<1>4. IsFiniteSet(Volume(E)) /\ Volume(D) \in SUBSET Volume(E)
  <2> DEFINE U == Layer \X (1..(MaxTarEntries + 1)) \X (1..(MaxTarBytes + 1))
  <2>1. IsFiniteSet(U)
    BY <1>1, TripleFinite
  <2>2. Volume(E) \in SUBSET U
    BY <1>0 DEF Volume
  <2>3. ASSUME NEW x \in Volume(D) PROVE x \in Volume(E)
    <3>1. x \in U /\ x[2] <= Len(D[x[1]]) /\ x[3] <= Len(D[x[1]][x[2]].payload)
      BY <1>0 DEF Volume
    <3>2. x[1] \in Layer /\ x[2] \in 1..(MaxTarEntries + 1)
      BY <3>1
    <3>3. x[2] \in 1..Len(D[x[1]]) /\ x[2] <= Len(E[x[1]])
      BY <1>2, <3>1, <3>2
    <3>4. D[x[1]][x[2]] = E[x[1]][x[2]]
      BY <1>2, <3>2, <3>3
    <3>5. QED
      BY <1>0, <3>1, <3>3, <3>4 DEF Volume
  <2>4. QED
    BY <2>1, <2>2, <2>3, FS_Subset
<1>5. QED
  BY <1>3, <1>4, FS_Subset, FS_CardinalityType

LEMMA PrefixReserves ==
  ASSUME NEW D \in Stackable, NEW E \in Stackable, \A l \in Layer : Begins(D[l], E[l])
  PROVE  /\ IsFiniteSet(Reservation(D)) /\ IsFiniteSet(Reservation(E))
         /\ Cardinality(Reservation(D)) \in Nat /\ Cardinality(Reservation(E)) \in Nat
         /\ Cardinality(Reservation(D)) <= Cardinality(Reservation(E))
<1>1. /\ IsFiniteSet(Positions(E)) /\ IsFiniteSet(1..(MaxMetadata + 1))
      /\ DOMAIN D = Layer /\ DOMAIN E = Layer
  <2>1. IsFiniteSet(Positions(E))
    BY PrefixCounts
  <2>2. IsFiniteSet(1..(MaxMetadata + 1))
    BY LimitAssumption, FS_Interval
  <2>3. DOMAIN D = Layer /\ DOMAIN E = Layer
    BY DEF Stackable
  <2>4. QED
    BY <2>1, <2>2, <2>3
<1>2. ASSUME NEW x \in Positions(D)
      PROVE  x \in Positions(E) /\ D[x[1]][x[2]] = E[x[1]][x[2]]
  <2>1. x \in Layer \X (1..(MaxTarEntries + 1)) /\ x[2] <= Len(D[x[1]])
    BY <1>1 DEF Positions
  <2>2. x[1] \in Layer /\ Len(D[x[1]]) \in Nat /\ Len(E[x[1]]) \in Nat
        /\ Begins(D[x[1]], E[x[1]])
    BY <2>1, LenProperties DEF Stackable
  <2>3. x[2] \in 1..Len(D[x[1]]) /\ x[2] <= Len(E[x[1]])
    BY <2>1, <2>2 DEF Begins
  <2>4. QED
    BY <1>1, <2>1, <2>2, <2>3 DEF Begins, Positions
<1>3. IsFiniteSet(Reservation(E))
  <2>1. IsFiniteSet(Positions(E) \X (1..(MaxMetadata + 1)))
    BY <1>1, FS_Product
  <2>2. Reservation(E) \in SUBSET (Positions(E) \X (1..(MaxMetadata + 1)))
    BY DEF Reservation
  <2>3. QED
    BY <2>1, <2>2, FS_Subset
<1>4. Reservation(D) \in SUBSET Reservation(E)
  BY <1>2 DEF Reservation
<1>5. QED
  BY <1>3, <1>4, FS_Subset, FS_CardinalityType

\* An entry that is not too many, too long or too costly for the image fits
\* into what is left.
LEMMA RoomFor ==
  ASSUME JournalInv, WellFormed(image), NEW l \in Layer,
         \A m \in Layer : Begins(Heard[m], image[m]),
         Len(Heard[l]) < Len(image[l])
  PROVE  LET e == image[l][Len(Heard[l]) + 1]
         IN /\ e \in Entry /\ Len(operations) < MaxTarEntries
            /\ spoolBytes + Len(e.payload) <= MaxTarBytes
            /\ Len(e.payload) <= MaxFileBytes
            /\ Reserved + Charge(e) <= MaxMetadata
<1> DEFINE n == Len(Heard[l]) + 1
           e == image[l][n]
           E == [Heard EXCEPT ![l] = Append(Heard[l], e)]
<1>1. /\ Heard \in Stackable /\ image \in Stackable /\ Heard[l] \in Seq(Entry) /\ DOMAIN image = Layer
      /\ Len(operations) \in Nat /\ spoolBytes \in Nat /\ MaxTarEntries \in Nat /\ MaxTarBytes \in Nat
  BY ReplayAssumption, LimitAssumption, LenProperties
     DEF JournalInv, JournalTypes, Heard, Stackable
<1>2. /\ Len(Heard[l]) \in Nat /\ n \in 1..Len(image[l]) /\ Len(image[l]) \in Nat
      /\ Len(Heard[l]) <= Len(operations) /\ e \in Entry /\ Len(e.payload) \in Nat
  <2>1. Len(Heard[l]) \in Nat /\ Len(image[l]) \in Nat
        /\ \A i \in 1..Len(image[l]) : image[l][i] \in Entry
    BY <1>1, LenProperties, InLayerIs
  <2>2. n \in 1..Len(image[l])
    BY <2>1
  <2>3. Recorded(l)
    BY DEF JournalInv
  <2>4. Len(Heard[l]) <= Len(operations)
    BY <2>3 DEF Recorded, Heard
  <2>5. e \in Entry /\ Len(e.payload) \in Nat
    BY <2>1, <2>2, EntryParts, LenProperties
  <2>6. QED
    BY <2>1, <2>2, <2>4, <2>5
<1>3. /\ Len(operations) <= MaxTarEntries /\ Cardinality(Positions(Heard)) = Len(operations)
      /\ IsFiniteSet(Positions(Heard)) /\ IsFiniteSet(Volume(Heard))
      /\ Cardinality(Volume(Heard)) = spoolBytes
  BY DEF JournalInv, Measured
<1>4. Cardinality(Positions(image)) <= MaxTarEntries /\ Cardinality(Volume(image)) <= MaxTarBytes
  BY DEF WellFormed
<1> HIDE DEF e
<1>5. E \in Stackable /\ \A m \in Layer : Begins(E[m], image[m])
  <2>1. Append(Heard[l], e) \in Seq(Entry) /\ Len(Append(Heard[l], e)) = n
        /\ Append(Heard[l], e)[n] = e
        /\ \A i \in 1..Len(Heard[l]) : Append(Heard[l], e)[i] = Heard[l][i]
    BY <1>1, <1>2, AppendProperties
  <2>2. E \in Stackable
    BY <1>1, <2>1 DEF Stackable
  <2>3. \A m \in Layer : m # l => E[m] = Heard[m]
    BY <1>1 DEF Stackable
  <2>4. E[l] = Append(Heard[l], e)
    BY <1>1 DEF Stackable
  <2>5. ASSUME NEW i \in 1..n PROVE E[l][i] = image[l][i]
    <3>1. CASE i = n
      BY <2>1, <2>4, <3>1 DEF e
    <3>2. CASE i # n
      <4>1. i \in 1..Len(Heard[l])
        BY <1>2, <3>2
      <4>2. QED
        BY <2>1, <2>4, <4>1 DEF Begins
    <3>3. QED
      BY <3>1, <3>2
  <2> HIDE DEF n, E
  <2>6. Begins(E[l], image[l])
    BY <1>2, <2>1, <2>4, <2>5 DEF Begins
  <2>7. QED
    BY <2>2, <2>3, <2>6
<1> HIDE DEF E
<1>6. Len(operations) < MaxTarEntries
  <2>1. Cardinality(Positions(E)) = Cardinality(Positions(Heard)) + 1
    <3>1. Len(Heard[l]) <= MaxTarEntries
      BY <1>1, <1>2, <1>3
    <3>2. QED
      BY <1>1, <1>2, <1>3, <3>1, PositionsGrow DEF E
  <2>2. Cardinality(Positions(E)) <= Cardinality(Positions(image)) /\ Cardinality(Positions(image)) \in Nat
    BY <1>1, <1>5, PrefixCounts
  <2>3. QED
    BY <1>1, <1>3, <1>4, <2>1, <2>2
<1>7. n <= MaxTarEntries /\ Len(Heard[l]) < MaxTarEntries
  BY <1>1, <1>2, <1>6
<1>8. Len(e.payload) <= MaxTarBytes
  <2> SUFFICES ASSUME Len(e.payload) > MaxTarBytes PROVE FALSE
    BY <1>1, <1>2
  <2> DEFINE N == {<<l, n, j>> : j \in 1..(MaxTarBytes + 1)}
             f == [j \in 1..(MaxTarBytes + 1) |-> <<l, n, j>>]
  <2>1. f \in [1..(MaxTarBytes + 1) -> N] /\ MaxTarBytes + 1 \in Nat
    BY <1>1
  <2>2. /\ \A i, j \in 1..(MaxTarBytes + 1) : f[i] = f[j] => i = j
        /\ \A x \in N : \E i \in 1..(MaxTarBytes + 1) : f[i] = x
    OBVIOUS
  <2>3. N \in SUBSET Volume(image)
    <3>1. ASSUME NEW j \in 1..(MaxTarBytes + 1) PROVE <<l, n, j>> \in Volume(image)
      <4>1. n \in 1..(MaxTarEntries + 1) /\ n <= Len(image[l])
        BY <1>1, <1>2, <1>7
      <4>2. j <= Len(image[l][n].payload)
        BY <1>1, <1>2 DEF e
      <4>3. QED
        BY <1>1, <4>1, <4>2 DEF Volume
    <3>2. QED
      BY <3>1
  <2> HIDE DEF N, f
  <2>4. Cardinality(N) = MaxTarBytes + 1
    BY <2>1, <2>2, Enumerated
  <2>5. IsFiniteSet(Volume(image)) /\ Cardinality(Volume(image)) \in Nat
    BY <1>1, PrefixCounts DEF Begins
  <2>6. Cardinality(N) <= Cardinality(Volume(image))
    BY <2>3, <2>5, FS_Subset
  <2>7. QED
    BY <1>1, <1>4, <2>4, <2>5, <2>6
<1>9. spoolBytes + Len(e.payload) <= MaxTarBytes
  <2>1. Cardinality(Volume(E)) = Cardinality(Volume(Heard)) + Len(e.payload)
    BY <1>1, <1>2, <1>3, <1>7, <1>8, VolumeGrows DEF E
  <2>2. Cardinality(Volume(E)) <= Cardinality(Volume(image)) /\ Cardinality(Volume(image)) \in Nat
    BY <1>1, <1>5, PrefixCounts
  <2>3. QED
    BY <1>1, <1>2, <1>3, <1>4, <2>1, <2>2
<1>10. Len(e.payload) <= MaxFileBytes
  <2>1. e \in InLayer(image, l)
    BY <1>2 DEF InLayer, e
  <2>2. QED
    BY <1>1, <2>1 DEF WellFormed
<1>11. Reserved + Charge(e) <= MaxMetadata
  <2> DEFINE x == <<l, Len(Heard[l]) + 1>>
  <2>1. Positions(E) = Positions(Heard) \cup {x} /\ x \notin Positions(Heard)
    <3>1. Len(Heard[l]) <= MaxTarEntries
      BY <1>1, <1>2, <1>3
    <3>2. QED
      BY <1>1, <1>2, <1>3, <3>1, PositionsGrow DEF E
  <2>2. E[l] = Append(Heard[l], e) /\ \A m \in Layer : m # l => E[m] = Heard[m]
    BY <1>1 DEF E, Stackable
  <2>3. E[l][n] = e /\ \A i \in 1..Len(Heard[l]) : E[l][i] = Heard[l][i]
    BY <1>1, <1>2, <2>2, AppendProperties
  <2>4. ASSUME NEW y \in Positions(Heard) PROVE Prices(E)[y] = Prices(Heard)[y]
    <3>1. y[1] \in Layer /\ y[2] \in Nat \ {0} /\ y[2] <= Len(Heard[y[1]])
      BY <1>1 DEF Positions, Stackable
    <3>2. E[y[1]][y[2]] = Heard[y[1]][y[2]]
      BY <1>2, <2>2, <2>3, <3>1
    <3>3. QED
      BY <2>1, <3>2 DEF Prices
  <2>5. Prices(E)[x] = Charge(e) /\ Charge(e) \in Nat
    BY <1>2, <2>1, <2>3, ChargeIs DEF Prices
  <2> HIDE DEF x
  <2>6. Cardinality(Cells(Positions(Heard) \cup {x}, Prices(E)))
          = Cardinality(Cells(Positions(Heard), Prices(Heard)))
              + (IF Prices(E)[x] <= MaxMetadata THEN Prices(E)[x] ELSE MaxMetadata + 1)
    <3> DEFINE S == Positions(Heard)
               f == Prices(Heard)
               g == Prices(E)
    <3>1. x \notin S /\ IsFiniteSet(S) /\ (\A y \in S : g[y] = f[y]) /\ g[x] \in Nat
      BY <1>3, <2>1, <2>4, <2>5
    <3> HIDE DEF S, f, g
    <3>2. Cardinality(Cells(S \cup {x}, g))
            = Cardinality(Cells(S, f)) + (IF g[x] <= MaxMetadata THEN g[x] ELSE MaxMetadata + 1)
      <4> DEFINE T == S \cup {x}
                 m == IF g[x] <= MaxMetadata THEN g[x] ELSE MaxMetadata + 1
      <4>1. m \in Nat
        BY <3>1, LimitAssumption
      <4>2. T = S \cup {x} /\ m = IF g[x] <= MaxMetadata THEN g[x] ELSE MaxMetadata + 1
        OBVIOUS
      <4> HIDE DEF T, m
      <4>3. Cardinality(Cells(T, g)) = Cardinality(Cells(S, f)) + m
        BY <3>1, <4>1, <4>2, CellsGrow
      <4>4. QED
        BY <4>3 DEF T, m
    <3>3. QED
      BY <3>2 DEF S, f, g
  <2>7. Cardinality(Reservation(E))
          = Reserved + (IF Charge(e) <= MaxMetadata THEN Charge(e) ELSE MaxMetadata + 1)
    <3>1. Reservation(E) = Cells(Positions(Heard) \cup {x}, Prices(E))
      BY <2>1, CountedInCells
    <3>2. Cardinality(Cells(Positions(Heard), Prices(Heard))) = Reserved
      BY CountedInCells, ReservedIs
    <3>3. QED
      BY <2>5, <2>6, <3>1, <3>2
  <2>8. /\ Cardinality(Reservation(E)) <= Cardinality(Reservation(image))
        /\ Cardinality(Reservation(image)) \in Nat /\ Cardinality(Reservation(E)) \in Nat
    BY <1>1, <1>5, PrefixReserves
  <2>9. Cardinality(Reservation(image)) <= MaxMetadata
    BY DEF WellFormed
  <2>10. Reserved \in Nat /\ MaxMetadata \in Nat
    BY ReservedIs, LimitAssumption
  <2>11. QED
    BY <2>5, <2>7, <2>8, <2>9, <2>10
<1>12. QED
  BY <1>2, <1>6, <1>9, <1>10, <1>11 DEF e

LEMMA SubSeqGrows ==
  ASSUME NEW S, NEW s \in Seq(S), NEW n \in 0..Len(s)
  PROVE  /\ SubSeq(s, 1, n) \in Seq(S) /\ Len(SubSeq(s, 1, n)) = n
         /\ \A i \in 1..n : SubSeq(s, 1, n)[i] = s[i]
         /\ SubSeq(s, 1, 0) = <<>> /\ SubSeq(s, 1, Len(s)) = s
         /\ n < Len(s) => Append(SubSeq(s, 1, n), s[n + 1]) = SubSeq(s, 1, n + 1)
<1>0. Len(s) \in Nat /\ s \in [1..Len(s) -> S]
  BY LenProperties
<1>1. ASSUME NEW m \in 0..Len(s)
      PROVE  /\ SubSeq(s, 1, m) \in Seq(S) /\ Len(SubSeq(s, 1, m)) = m
             /\ \A i \in 1..m : SubSeq(s, 1, m)[i] = s[i]
  <2>1. \A i \in 1..m : s[i] \in S
    BY <1>0
  <2>2. QED
    BY <1>0, <2>1, SubSeqProperties
<1>2. SubSeq(s, 1, 0) = <<>>
  BY SubSeqEmpty
<1>3. SubSeq(s, 1, Len(s)) = s
  BY <1>0, <1>1, SeqEqual
<1>4. ASSUME n < Len(s) PROVE Append(SubSeq(s, 1, n), s[n + 1]) = SubSeq(s, 1, n + 1)
  <2>1. n + 1 \in 0..Len(s) /\ n + 1 \in 1..Len(s) /\ s[n + 1] \in S
    BY <1>0, <1>4
  <2> DEFINE a == Append(SubSeq(s, 1, n), s[n + 1])
             b == SubSeq(s, 1, n + 1)
  <2>2. /\ a \in Seq(S) /\ Len(a) = n + 1 /\ a[n + 1] = s[n + 1]
        /\ \A i \in 1..n : a[i] = SubSeq(s, 1, n)[i]
    BY <1>1, <2>1, AppendProperties
  <2>3. b \in Seq(S) /\ Len(b) = n + 1 /\ \A i \in 1..(n + 1) : b[i] = s[i]
    BY <1>1, <2>1
  <2> HIDE DEF a, b
  <2>4. ASSUME NEW i \in 1..(n + 1) PROVE a[i] = b[i]
    <3>1. i = n + 1 \/ i \in 1..n
      OBVIOUS
    <3>2. QED
      BY <1>1, <2>2, <2>3, <3>1
  <2>5. a = b
    BY <2>2, <2>3, <2>4, SeqEqual
  <2>6. QED
    BY <2>5 DEF a, b
<1>5. QED
  BY <1>1, <1>2, <1>3, <1>4

LEMMA ImageLayer ==
  ASSUME JournalInv, NEW l \in Layer
  PROVE  /\ image \in Stackable /\ image[l] \in Seq(Entry) /\ Len(image[l]) \in Nat
         /\ \A i \in 1..Len(image[l]) : image[l][i] \in Entry
<1>1. image \in Stackable
  BY ReplayAssumption DEF JournalInv, JournalTypes, Stackable
<1>2. QED
  BY <1>1, InLayerIs

\* Troubles are only counted up, and the image stays.
LEMMA TroubleStep ==
  ASSUME [Next]_vars
  PROVE  /\ image' = image
         /\ deviations' \in {deviations, deviations + 1}
         /\ meddles' \in {meddles, meddles + 1}
         /\ faults' \in {faults, faults + 1}
<1>1. CASE OpenSink \/ FinishInert \/ DropSink \/ FinishRegular
  BY <1>1 DEF OpenSink, FinishInert, DropSink, FinishRegular, Calling, Deviates
<1>2. CASE \E e \in Offered : BeginRegular(e) \/ StageInert(e)
  BY <1>2 DEF BeginRegular, StageInert, Calling, Delivers, Deviates
<1>3. CASE \E b \in Byte : WriteChunk(b)
  BY <1>3 DEF WriteChunk, Calling, Deviates
<1>4. CASE FailCall \/ FailCheck \/ AlterSpool \/ MoveCustody
  BY <1>4 DEF FailCall, FailCheck, AlterSpool, MoveCustody, Meddle
<1>5. CASE StartSealing
  BY <1>5 DEF StartSealing, Deviates
<1>6. CASE GiveUp \/ Begin \/ Seal \/ ValidateJournal \/ CheckEffects
  BY <1>6 DEF GiveUp, Begin, Seal, ValidateJournal, CheckEffects, Outward, envVars
<1>7. CASE CheckWhiteouts \/ ApplyWhiteout \/ EndWhiteouts \/ ApplyEntry \/ EndLayer
  <2>1. Outward
    BY <1>7 DEF CheckWhiteouts, ApplyWhiteout, EndWhiteouts, ApplyEntry, EndLayer
  <2>2. QED
    BY <2>1 DEF Outward, envVars
<1>8. CASE ValidateSpool("spool", "retained") \/ ValidateSpool("retained", "revalidated")
  BY <1>8 DEF ValidateSpool
<1>9. CASE Done \/ UNCHANGED vars
  BY <1>9 DEF Done, vars
<1>10. QED
  BY <1>1, <1>2, <1>3, <1>4, <1>5, <1>6, <1>7, <1>8, <1>9 DEF Next, Calls, Checks

LEMMA CalmBefore ==
  ASSUME Tallies, [Next]_vars
  PROVE  Tallies' /\ (Calm' => /\ Calm /\ UNCHANGED <<image, deviations, meddles, faults>>
                               /\ deviations = 0 /\ meddles = 0 /\ faults = 0)
BY TroubleStep DEF Tallies, Calm

\* Between two calls, what the sink has been given begins every layer.
LEMMA CalmBegins ==
  ASSUME JournalInv, CalmCalls
  PROVE  /\ \A l \in Layer : Begins(Heard[l], image[l])
         /\ sink # None => Len(Heard[sink]) = Taken
<1>1. ASSUME sink # None
      PROVE  /\ sink \in Layer /\ Heard[sink] = SubSeq(image[sink], 1, Taken)
             /\ Taken \in 0..Len(image[sink])
             /\ Len(Heard[sink]) = Taken /\ Begins(Heard[sink], image[sink])
  <2>1. /\ sink \in Layer /\ Taken \in 0..Len(image[sink])
        /\ Heard[sink] = SubSeq(image[sink], 1, Taken)
    BY <1>1 DEF CalmCalls, JournalInv, JournalTypes, Heard
  <2>2. image[sink] \in Seq(Entry) /\ Len(image[sink]) \in Nat
    BY <2>1, ImageLayer
  <2> HIDE DEF Taken
  <2>3. /\ Len(Heard[sink]) = Taken
        /\ \A i \in 1..Taken : Heard[sink][i] = image[sink][i]
    BY <2>1, <2>2, SubSeqGrows
  <2>4. QED
    BY <2>1, <2>2, <2>3 DEF Begins
<1>2. ASSUME NEW l \in Layer PROVE Begins(Heard[l], image[l])
  <2>1. PICK i \in Layer : BlobOrder[i] = l
    BY ReplayAssumption
  <2>2. i \in Nat /\ blob \in Nat /\ Len(image[l]) \in Nat
    BY LayerNumbers, ImageLayer DEF JournalInv, JournalTypes
  <2>3. CASE i < blob
    <3>1. Heard[l] = image[l]
      BY <2>1, <2>3 DEF CalmCalls, Heard
    <3>2. QED
      BY <2>2, <3>1 DEF Begins
  <2>4. CASE i > blob \/ (i = blob /\ sink = None)
    <3>1. Heard[l] = <<>>
      BY <2>1, <2>4 DEF CalmCalls, Heard
    <3>2. QED
      BY <2>2, <3>1 DEF Begins
  <2>5. CASE i = blob /\ sink # None
    BY <1>1, <2>1, <2>5 DEF CalmCalls
  <2>6. QED
    BY <2>2, <2>3, <2>4, <2>5
<1>3. QED
  BY <1>1, <1>2

\* An entry is taken: the transcript of its layer grows by it.
LEMMA CalmTakes ==
  ASSUME JournalInv, CalmCalls, sink # None, UNCHANGED <<image, blob, sink>>,
         Taken < Len(image[sink]), Taken' = Taken + 1, next' <= Len(image[sink]) + 1,
         sinkState' # "regular",
         transcript'[sink].done = Append(transcript[sink].done, image[sink][Taken + 1]),
         \A m \in Layer : m # sink => transcript'[m].done = transcript[m].done
  PROVE  CalmCalls'
<1>1. /\ blob \in Layer /\ sink = BlobOrder[blob] /\ sink \in Layer
      /\ Taken \in 0..Len(image[sink])
      /\ transcript[sink].done = SubSeq(image[sink], 1, Taken)
  BY BlobsApart DEF CalmCalls
<1>2. image[sink] \in Seq(Entry) /\ Len(image[sink]) \in Nat
  BY <1>1, ImageLayer
<1>3. ASSUME NEW i \in Layer, i # blob PROVE transcript'[BlobOrder[i]].done = transcript[BlobOrder[i]].done
  <2>1. BlobOrder[i] \in Layer /\ BlobOrder[i] # sink
    BY <1>1, <1>3, BlobsApart
  <2>2. QED
    BY <2>1
<1>4. \A i \in Layer : i \in Nat /\ blob \in Nat
  BY <1>1, LayerNumbers
<1>5. \A i \in Layer :
        /\ i < blob' => transcript'[BlobOrder[i]].done = image'[BlobOrder[i]]
        /\ i > blob' \/ (i = blob' /\ sink' = None) => transcript'[BlobOrder[i]].done = <<>>
  <2>1. ASSUME NEW i \in Layer
        PROVE  /\ i < blob => transcript'[BlobOrder[i]].done = image[BlobOrder[i]]
               /\ i > blob => transcript'[BlobOrder[i]].done = <<>>
    <3>1. CASE i = blob
      BY <1>4, <3>1
    <3>2. CASE i # blob
      <4>1. /\ i < blob => transcript[BlobOrder[i]].done = image[BlobOrder[i]]
            /\ i > blob => transcript[BlobOrder[i]].done = <<>>
        BY DEF CalmCalls
      <4>2. QED
        BY <1>3, <3>2, <4>1
    <3>3. QED
      BY <3>1, <3>2
  <2>2. QED
    BY <2>1
<1>6. /\ Taken' \in 0..Len(image[sink])
      /\ transcript'[sink].done = SubSeq(image[sink], 1, Taken')
  <2> DEFINE t == Taken
  <2>1. t \in 0..Len(image[sink]) /\ t < Len(image[sink])
    BY <1>1
  <2> HIDE DEF t
  <2>2. Append(SubSeq(image[sink], 1, t), image[sink][t + 1]) = SubSeq(image[sink], 1, t + 1)
    BY <1>2, <2>1, SubSeqGrows
  <2>3. t + 1 \in 0..Len(image[sink])
    BY <1>2, <2>1
  <2>4. QED
    BY <1>1, <2>2, <2>3 DEF t
<1> HIDE DEF Taken
<1>7. QED
  BY <1>1, <1>5, <1>6 DEF CalmCalls

LEMMA CalmOpens ==
  ASSUME JournalInv, Undisturbed, OpenSink
  PROVE  Undisturbed'
<1>1. /\ phase = "replay" /\ sink = None /\ blob <= Len(BlobOrder) /\ ~poisoned
      /\ sink' = BlobOrder[blob] /\ sinkState' = "none" /\ next' = 1
      /\ UNCHANGED <<phase, image, custody, blob, poisoned, journalVars, projectionVars>>
  BY DEF OpenSink, Calling
<1>2. CalmCalls /\ sinkState = "none" /\ CalmSeals /\ CalmEnvelope /\ CalmReferences /\ CalmSpool
      /\ custody
  BY <1>1 DEF Undisturbed, CalmSeals, CalmCalls
<1>3. blob \in Layer /\ BlobOrder[blob] \in Layer
  <2>1. blob \in Layer
    BY <1>1, LayerNumbers DEF JournalInv, JournalTypes, Layer
  <2>2. QED
    BY <2>1, BlobsApart
<1>4. image[BlobOrder[blob]] \in Seq(Entry) /\ Len(image[BlobOrder[blob]]) \in Nat
  BY <1>3, ImageLayer
<1>5. CalmCalls'
  <2>1. Taken' = 0
    BY <1>1 DEF Taken
  <2>2. sink' # None
    BY <1>1, <1>3, LayerNumbers, NoneAssumption
  <2>3. transcript[BlobOrder[blob]].done = <<>>
    BY <1>1, <1>2, <1>3 DEF CalmCalls
  <2>4. SubSeq(image[BlobOrder[blob]], 1, 0) = <<>>
    BY <1>4, SubSeqGrows
  <2>5. \A i \in Layer :
          /\ i < blob => transcript[BlobOrder[i]].done = image[BlobOrder[i]]
          /\ i > blob => transcript[BlobOrder[i]].done = <<>>
    BY <1>2 DEF CalmCalls
  <2>6. blob \in 1..(Len(BlobOrder) + 1)
    BY <1>2 DEF CalmCalls
  <2>7. UNCHANGED transcript
    BY <1>1 DEF journalVars
  <2>8. /\ Taken' \in 0..Len(image'[sink']) /\ next' <= Len(image'[sink']) + 1
        /\ transcript'[sink'].done = SubSeq(image'[sink'], 1, Taken')
    <3>1. image'[sink'] = image[BlobOrder[blob]] /\ transcript'[sink'] = transcript[BlobOrder[blob]]
      BY <1>1, <2>7
    <3>2. 0 \in 0..Len(image'[sink']) /\ next' <= Len(image'[sink']) + 1
      BY <1>1, <1>4, <3>1
    <3>3. transcript'[sink'].done = SubSeq(image'[sink'], 1, 0)
      BY <2>3, <2>4, <3>1
    <3>4. QED
      BY <2>1, <3>2, <3>3
  <2>9. \A i \in Layer :
          /\ i < blob' => transcript'[BlobOrder[i]].done = image'[BlobOrder[i]]
          /\ i > blob' \/ (i = blob' /\ sink' = None) => transcript'[BlobOrder[i]].done = <<>>
    BY <1>1, <2>2, <2>5, <2>7
  <2>10. QED
    BY <1>1, <1>3, <2>2, <2>6, <2>8, <2>9 DEF CalmCalls
<1>6. CalmSeals'
  BY <1>1, <1>2, <1>5 DEF CalmSeals, journalVars, Walking, Projected
<1>7. CalmEnvelope' /\ CalmReferences' /\ CalmSpool'
  BY <1>1, <1>2 DEF CalmEnvelope, CalmReferences, CalmSpool, Placed, PlacedIn, journalVars
<1>8. QED
  BY <1>1, <1>2, <1>6, <1>7 DEF Undisturbed

LEMMA CalmDrops ==
  ASSUME JournalInv, Undisturbed, DropSink, UNCHANGED deviations, deviations = 0
  PROVE  Undisturbed'
<1>1. /\ phase = "replay" /\ sink # None /\ ~poisoned
      /\ sink' = None /\ sinkState' = "none" /\ blob' = blob + 1
      /\ UNCHANGED <<phase, image, custody, poisoned, journalVars, projectionVars>>
      /\ sinkState = "none" /\ ~(next <= Len(image[sink]))
  BY DEF DropSink, Calling, Deviates
<1>2. CalmCalls /\ CalmSeals /\ CalmEnvelope /\ CalmReferences /\ CalmSpool /\ custody
  BY <1>1 DEF Undisturbed, CalmSeals
<1>3. /\ blob \in Layer /\ sink = BlobOrder[blob] /\ sink \in Layer /\ blob \in Nat
      /\ next <= Len(image[sink]) + 1
      /\ transcript[sink].done = SubSeq(image[sink], 1, next - 1)
  BY <1>1, <1>2, BlobsApart, LayerNumbers DEF CalmCalls, Taken
<1>4. image[sink] \in Seq(Entry) /\ Len(image[sink]) \in Nat /\ next \in Nat
  BY <1>3, ImageLayer DEF JournalInv, JournalTypes
<1>5. transcript[sink].done = image[sink]
  <2>1. next - 1 = Len(image[sink])
    BY <1>1, <1>3, <1>4
  <2>2. QED
    BY <1>3, <1>4, <2>1, SubSeqGrows
<1>6. CalmCalls'
  <2>1. \A i \in Layer :
          /\ i < blob + 1 => transcript[BlobOrder[i]].done = image[BlobOrder[i]]
          /\ i >= blob + 1 => transcript[BlobOrder[i]].done = <<>>
    <3>1. ASSUME NEW i \in Layer
          PROVE  /\ i < blob + 1 => i < blob \/ i = blob
                 /\ i >= blob + 1 => i > blob
      BY <1>3, LayerNumbers
    <3>2. QED
      BY <1>2, <1>3, <1>5, <3>1 DEF CalmCalls
  <2>2. blob + 1 \in 1..(Len(BlobOrder) + 1)
    BY <1>3, LayerNumbers DEF Layer
  <2>3. UNCHANGED transcript
    BY <1>1 DEF journalVars
  <2>4. \A i \in Layer : i > blob + 1 \/ i = blob + 1 => i >= blob + 1
    BY <1>3, LayerNumbers
  <2>5. QED
    BY <1>1, <2>1, <2>2, <2>3, <2>4 DEF CalmCalls
<1>7. CalmSeals'
  BY <1>1, <1>2, <1>6 DEF CalmSeals, journalVars, Walking, Projected
<1>8. CalmEnvelope' /\ CalmReferences' /\ CalmSpool'
  BY <1>1, <1>2 DEF CalmEnvelope, CalmReferences, CalmSpool, Placed, PlacedIn, journalVars
<1>9. QED
  BY <1>1, <1>2, <1>7, <1>8 DEF Undisturbed

\* The next entry of the layer can always be staged.
LEMMA CalmStageable ==
  ASSUME JournalInv, LimitInv, Undisturbed, WellFormed(image), phase = "replay", sink # None,
         sinkState = "none", next <= Len(image[sink])
  PROVE  Stageable(image[sink][next]) /\ image[sink][next] \in Entry
<1> DEFINE e == image[sink][next]
<1>1. CalmCalls /\ CalmEnvelope /\ CalmSpool /\ custody /\ \A l \in Layer : sealed[l] = None
  BY DEF Undisturbed, CalmSeals
<1>2. sink \in Layer /\ Taken = next - 1 /\ next \in Nat
  BY DEF JournalInv, JournalTypes, Taken
<1>3. (\A l \in Layer : Begins(Heard[l], image[l])) /\ Len(Heard[sink]) = next - 1
  BY <1>1, <1>2, CalmBegins
<1>4. Len(image[sink]) \in Nat
  BY <1>2, ImageLayer
<1>5. Len(Heard[sink]) < Len(image[sink]) /\ Len(Heard[sink]) + 1 = next
  BY <1>2, <1>3, <1>4
<1>6. /\ e \in Entry /\ Len(operations) < MaxTarEntries
      /\ spoolBytes + Len(e.payload) <= MaxTarBytes /\ Len(e.payload) <= MaxFileBytes
      /\ Reserved + Charge(e) <= MaxMetadata
  BY <1>2, <1>3, <1>5, RoomFor
<1>7. open = None /\ ~openInert /\ transcript[sink].open = None
  BY <1>1, <1>2 DEF CalmEnvelope
<1>8. captured[sink] = Len(bySource[sink])
  <2>1. Recorded(sink)
    BY <1>2 DEF JournalInv
  <2>2. QED
    BY <2>1 DEF Recorded
<1>9. SpoolIs(SpoolLength)
  BY <1>1, <1>7 DEF SpoolIs, SpoolLength, CalmSpool
<1>10. metadata + Charge(e) <= MaxMetadata
  <2>1. metadata = Reserved + 0 /\ Reserved \in Nat
    BY <1>7, ReservedIs DEF Undisturbed, LimitInv
  <2>2. QED
    BY <1>6, <2>1
<1>11. QED
  BY <1>1, <1>2, <1>6, <1>7, <1>8, <1>9, <1>10 DEF Stageable, SourceIsNext

LEMMA CalmStarts ==
  ASSUME JournalInv, LimitInv, Undisturbed, WellFormed(image), NEW e \in Offered, BeginRegular(e),
         UNCHANGED deviations, deviations = 0
  PROVE  Undisturbed'
<1>1. /\ phase = "replay" /\ sink # None /\ sinkState = "none" /\ ~poisoned
      /\ next <= Len(image[sink]) /\ image[sink][next] = e /\ next' = next + 1
      /\ UNCHANGED <<phase, image, custody, blob, projectionVars>>
  BY DEF BeginRegular, Calling, Delivers, Deviates
<1>2. Stageable(e) /\ e \in Entry
  BY <1>1, CalmStageable
<1>3. /\ transcript' = [transcript EXCEPT ![sink].open = Header(e)]
      /\ open' = [layer |-> sink, index |-> captured[sink] + 1, entry |-> e,
                  offset |-> spoolBytes, written |-> <<>>]
      /\ sinkState' = "regular"
      /\ UNCHANGED <<sink, poisoned, spool, spoolBytes, extents, operations, bySource,
                     captured, sealed, openInert>>
  BY <1>2 DEF BeginRegular
<1>4. CalmCalls /\ CalmSeals /\ CalmEnvelope /\ CalmReferences /\ CalmSpool /\ custody
  BY <1>1 DEF Undisturbed, CalmSeals
<1>5. /\ sink \in Layer /\ next \in Nat /\ Len(image[sink]) \in Nat
      /\ \A l \in Layer : transcript'[l].done = transcript[l].done
      /\ \A l \in Layer : l # sink => transcript'[l].open = transcript[l].open
  <2>1. sink \in Layer /\ next \in Nat
    BY <1>1 DEF JournalInv, JournalTypes
  <2>2. Len(image[sink]) \in Nat
    BY <2>1, ImageLayer
  <2>3. transcript \in [Layer -> [done : Seq(Entry), open : Entry \cup {None}]]
    BY DEF JournalInv, JournalTypes
  <2>4. QED
    BY <1>3, <2>1, <2>2, <2>3
<1>6. CalmCalls'
  <2>1. Taken' = Taken /\ Taken = next - 1
    BY <1>1, <1>3, <1>5 DEF Taken
  <2>2. next' - 1 = next /\ next' <= Len(image[sink]) + 1
    BY <1>1, <1>5
  <2>3. SubSeq(e.payload, 1, 0) = <<>> /\ Len(open'.written) = 0
    BY <1>2, <1>3, EntryParts, SubSeqEmpty
  <2>4. \A i \in Layer : transcript'[BlobOrder[i]].done = transcript[BlobOrder[i]].done
    BY <1>5, BlobsApart
  <2>5. /\ open'.entry = image'[sink'][next' - 1] /\ open'.offset = spoolBytes'
        /\ open'.written = SubSeq(open'.entry.payload, 1, Len(open'.written))
    BY <1>1, <1>3, <2>2, <2>3
  <2>6. /\ blob \in Layer /\ sink = BlobOrder[blob] /\ blob \in 1..(Len(BlobOrder) + 1)
        /\ Taken \in 0..Len(image[sink])
        /\ transcript[sink].done = SubSeq(image[sink], 1, Taken)
        /\ \A i \in Layer :
             /\ i < blob => transcript[BlobOrder[i]].done = image[BlobOrder[i]]
             /\ i > blob \/ (i = blob /\ sink = None) => transcript[BlobOrder[i]].done = <<>>
    BY <1>1, <1>4 DEF CalmCalls
  <2>7. /\ Taken' \in 0..Len(image'[sink'])
        /\ transcript'[sink'].done = SubSeq(image'[sink'], 1, Taken')
        /\ next' <= Len(image'[sink']) + 1
    BY <1>1, <1>3, <1>5, <2>1, <2>2, <2>6
  <2>8. QED
    BY <1>1, <1>3, <2>4, <2>5, <2>6, <2>7 DEF CalmCalls
<1>7. CalmSeals'
  BY <1>1, <1>3, <1>4, <1>6 DEF CalmSeals, Walking, Projected
<1>8. CalmEnvelope'
  <2>1. \A l \in Layer : l # sink => transcript'[l].open = None
    BY <1>1, <1>4, <1>5 DEF CalmEnvelope
  <2>2. openInert' = FALSE
    BY <1>1, <1>3, <1>4 DEF CalmEnvelope
  <2>3. openInert' = (sinkState' = "inert")
    BY <1>3, <2>2
  <2>4. QED
    BY <1>3, <1>4, <2>1, <2>3 DEF CalmEnvelope
<1>9. CalmReferences'
  BY <1>3, <1>4 DEF CalmReferences, Placed, PlacedIn
<1>10. CalmSpool'
  <2>1. Len(open'.written) = 0 /\ spoolBytes \in Nat
    BY <1>3 DEF JournalInv, JournalTypes
  <2>2. Len(spool') = spoolBytes' + Len(open'.written)
    BY <1>1, <1>3, <1>4, <2>1 DEF CalmSpool
  <2>3. \A j \in 1..Len(open'.written) : spool'[spoolBytes' + j] = open'.written[j]
    BY <2>1
  <2>4. QED
    BY <1>3, <1>4, <2>2, <2>3 DEF CalmSpool
<1>11. QED
  BY <1>1, <1>3, <1>4, <1>7, <1>8, <1>9, <1>10 DEF Undisturbed

LEMMA CalmInertEnds ==
  ASSUME JournalInv, Undisturbed, FinishInert
  PROVE  Undisturbed'
<1>1. /\ phase = "replay" /\ sink # None /\ sinkState = "inert" /\ ~poisoned
      /\ openInert' = FALSE /\ sinkState' = "none"
      /\ UNCHANGED <<phase, image, custody, projectionVars, blob, next, sink, poisoned, spool,
                     spoolBytes, extents, operations, bySource, captured, transcript, sealed,
                     open, metadata>>
  BY DEF FinishInert, Calling
<1>2. CalmCalls /\ CalmSeals /\ CalmEnvelope /\ CalmReferences /\ CalmSpool /\ custody
  BY <1>1 DEF Undisturbed, CalmSeals
<1>3. Taken' = Taken
  BY <1>1 DEF Taken
<1>4. CalmCalls'
  BY <1>1, <1>2, <1>3 DEF CalmCalls
<1>5. CalmSeals'
  BY <1>1, <1>2, <1>4 DEF CalmSeals, Walking, Projected
<1>6. CalmEnvelope' /\ CalmReferences' /\ CalmSpool'
  <2>1. CalmEnvelope'
    BY <1>1, <1>2 DEF CalmEnvelope
  <2>2. CalmReferences' /\ CalmSpool'
    BY <1>1, <1>2 DEF CalmReferences, CalmSpool, Placed, PlacedIn
  <2>3. QED
    BY <2>1, <2>2
<1>7. QED
  BY <1>1, <1>2, <1>5, <1>6 DEF Undisturbed

LEMMA ReferencesGrow ==
  ASSUME JournalInv, CalmReferences, NEW l \in Layer, NEW op \in Operation, Journalled(l, op),
         op.layer = l, op.index = captured[l] + 1,
         \/ UNCHANGED extents /\ op.entry.kind # "regular" /\ op.extent = 0
         \/ /\ op.entry.kind = "regular" /\ op.extent = Len(extents) + 1
            /\ \E x \in Stretch : /\ extents' = Append(extents, x)
                                  /\ x.layer = l /\ x.index = op.index
  PROVE  CalmReferences'
<1> DEFINE n == Len(operations) + 1
           y == Len(extents) + 1
<1>1. /\ operations \in Seq(Operation) /\ Len(operations) \in Nat
      /\ extents \in Seq(Stretch) /\ Len(extents) \in Nat
      /\ bySource \in [Layer -> Seq(Nat)] /\ captured \in [Layer -> Nat]
      /\ \A m \in Layer : Len(bySource[m]) = captured[m]
  BY LenProperties DEF JournalInv, JournalTypes, Recorded
<1>2. /\ operations' = Append(operations, op) /\ Len(operations') = n /\ operations'[n] = op
      /\ \A k \in 1..Len(operations) : operations'[k] = operations[k]
  BY <1>1, AppendProperties DEF Journalled
<1>3. /\ \A m \in Layer : m # l => bySource'[m] = bySource[m] /\ captured'[m] = captured[m]
      /\ bySource'[l] = Append(bySource[l], n) /\ captured'[l] = captured[l] + 1
  BY <1>1 DEF Journalled
<1>4. /\ bySource'[l][captured[l] + 1] = n
      /\ \A i \in 1..captured[l] : bySource'[l][i] = bySource[l][i]
  BY <1>1, <1>3, AppendProperties
<1>5. /\ Len(extents') \in Nat /\ Len(extents) <= Len(extents')
      /\ \A x \in 1..Len(extents) : extents'[x] = extents[x]
  <2>1. CASE UNCHANGED extents
    BY <1>1, <2>1
  <2>2. CASE \E x \in Stretch : extents' = Append(extents, x)
    BY <1>1, <2>2, AppendProperties
  <2>3. QED
    BY <2>1, <2>2
<1>6. ASSUME NEW k \in 1..Len(operations)
      PROVE  /\ PlacedIn(operations', bySource', captured', k)
             /\ Refers(operations'[k], extents')
  <2> DEFINE o == operations[k]
  <2>1. operations'[k] = o /\ o.layer \in Layer /\ o.index \in Nat \ {0}
    BY <1>2, OperationNumbers
  <2>2. o.index <= captured[o.layer] /\ bySource[o.layer][o.index] = k
    BY DEF CalmReferences, Placed, PlacedIn
  <2>3. o.index \in 1..captured[o.layer] /\ captured[o.layer] \in Nat
    BY <1>1, <2>1, <2>2
  <2>4. o.index <= captured'[o.layer] /\ bySource'[o.layer][o.index] = k
    <3>1. CASE o.layer = l
      <4>1. o.index <= captured[l] + 1
        BY <2>3, <3>1
      <4>2. bySource'[l][o.index] = bySource[l][o.index]
        BY <1>4, <2>3, <3>1
      <4>3. QED
        BY <1>3, <2>2, <3>1, <4>1, <4>2
    <3>2. CASE o.layer # l
      BY <1>3, <2>1, <2>2, <3>2
    <3>3. QED
      BY <3>1, <3>2
  <2>5. Refers(o, extents)
    BY DEF CalmReferences
  <2> HIDE DEF o
  <2>6. o.extent \in 1..Len(extents) => o.extent \in 1..Len(extents')
    BY <1>1, <1>5
  <2>7. Refers(o, extents')
    BY <1>5, <2>5, <2>6 DEF Refers
  <2>8. QED
    BY <2>1, <2>4, <2>7 DEF PlacedIn
<1>7. /\ PlacedIn(operations', bySource', captured', n)
      /\ Refers(operations'[n], extents')
      /\ Len(extents') = Len(extents) \/ (Len(extents') = y /\ operations'[n].extent = y)
  <2>1. PlacedIn(operations', bySource', captured', n)
    BY <1>1, <1>2, <1>3, <1>4 DEF PlacedIn
  <2>4. CASE op.entry.kind = "regular"
    <3>1. PICK x \in Stretch : extents' = Append(extents, x) /\ x.layer = l /\ x.index = op.index
      BY <2>4
    <3>2. Len(extents') = y /\ extents'[y] = x /\ y \in 1..y
      BY <1>1, <3>1, AppendProperties
    <3>3. QED
      BY <1>2, <2>1, <2>4, <3>1, <3>2 DEF Refers
  <2>5. CASE op.entry.kind # "regular"
    BY <1>2, <2>1, <2>5 DEF Refers
  <2>6. QED
    BY <2>4, <2>5
<1>8. \A k \in 1..n : k \in 1..Len(operations) \/ k = n
  BY <1>1
<1>9. ASSUME NEW x \in 1..Len(extents') PROVE \E k \in 1..n : operations'[k].extent = x
  <2>1. CASE x \in 1..Len(extents)
    <3>1. PICK k \in 1..Len(operations) : operations[k].extent = x
      BY <2>1 DEF CalmReferences
    <3>2. k \in 1..n
      BY <1>1
    <3>3. QED
      BY <1>2, <3>1, <3>2
  <2>2. CASE x \notin 1..Len(extents)
    <3>1. x = y /\ operations'[n].extent = y /\ n \in 1..n
      BY <1>1, <1>7, <2>2
    <3>2. QED
      BY <3>1
  <2>3. QED
    BY <2>1, <2>2
<1> HIDE DEF n
<1>10. QED
  BY <1>2, <1>6, <1>7, <1>8, <1>9 DEF CalmReferences, Placed

LEMMA CalmStages ==
  ASSUME JournalInv, LimitInv, Undisturbed, WellFormed(image), NEW e \in Offered, StageInert(e),
         UNCHANGED deviations, deviations = 0
  PROVE  Undisturbed'
<1> DEFINE op == [layer |-> sink, index |-> captured[sink] + 1, entry |-> e, extent |-> 0]
<1>1. /\ phase = "replay" /\ sink # None /\ sinkState = "none" /\ ~poisoned /\ e.kind # "regular"
      /\ next <= Len(image[sink]) /\ image[sink][next] = e /\ next' = next + 1
      /\ UNCHANGED <<phase, image, custody, blob, projectionVars>>
  BY DEF StageInert, Calling, Delivers, Deviates
<1>2. Stageable(e) /\ e \in Entry
  BY <1>1, CalmStageable
<1>3. /\ transcript' = [transcript EXCEPT ![sink].done = Append(@, e)]
      /\ Journalled(sink, op)
      /\ openInert' = TRUE /\ sinkState' = "inert"
      /\ UNCHANGED <<sink, poisoned, spool, spoolBytes, extents, sealed, open>>
  BY <1>2 DEF StageInert
<1>4. CalmCalls /\ CalmSeals /\ CalmEnvelope /\ CalmReferences /\ CalmSpool /\ custody
  BY <1>1 DEF Undisturbed, CalmSeals
<1>5. /\ sink \in Layer /\ next \in Nat \ {0} /\ Len(image[sink]) \in Nat
      /\ transcript'[sink].done = Append(transcript[sink].done, e)
      /\ \A l \in Layer : l # sink => transcript'[l].done = transcript[l].done
      /\ \A l \in Layer : transcript'[l].open = transcript[l].open
  <2>1. sink \in Layer /\ next \in Nat \ {0}
    BY <1>1 DEF JournalInv, JournalTypes
  <2>2. Len(image[sink]) \in Nat
    BY <2>1, ImageLayer
  <2>3. transcript \in [Layer -> [done : Seq(Entry), open : Entry \cup {None}]]
    BY DEF JournalInv, JournalTypes
  <2>4. QED
    BY <1>3, <2>1, <2>2, <2>3
<1>6. CalmCalls'
  <2>1. Taken' = Taken + 1 /\ Taken + 1 = next /\ Taken < Len(image[sink])
        /\ next' <= Len(image[sink]) + 1
    BY <1>1, <1>3, <1>5 DEF Taken
  <2>2. sinkState' # "regular" /\ UNCHANGED <<image, blob, sink>>
    BY <1>1, <1>3
  <2>3. transcript'[sink].done = Append(transcript[sink].done, image[sink][Taken + 1])
    BY <1>1, <1>5, <2>1
  <2>4. QED
    BY <1>1, <1>4, <1>5, <2>1, <2>2, <2>3, CalmTakes
<1>7. CalmSeals'
  BY <1>1, <1>3, <1>4, <1>6 DEF CalmSeals, Walking, Projected
<1>8. op \in Operation /\ op.layer = sink /\ op.index = captured[sink] + 1
      /\ op.entry.kind # "regular" /\ op.extent = 0
  BY <1>1, <1>2, <1>5 DEF JournalInv, JournalTypes, Operation
<1> HIDE DEF op
<1>9. CalmReferences'
  BY <1>3, <1>4, <1>5, <1>8, ReferencesGrow
<1>10. CalmEnvelope'
  <2>1. \A l \in Layer : transcript'[l].open = None
    BY <1>1, <1>4, <1>5 DEF CalmEnvelope
  <2>2. openInert' = (sinkState' = "inert")
    BY <1>3
  <2>3. open' = None
    BY <1>1, <1>3, <1>4 DEF CalmEnvelope
  <2>4. QED
    BY <1>3, <1>4, <2>1, <2>2, <2>3 DEF CalmEnvelope
<1>11. CalmSpool'
  BY <1>1, <1>3, <1>4 DEF CalmSpool
<1>12. QED
  BY <1>1, <1>3, <1>4, <1>7, <1>9, <1>10, <1>11 DEF Undisturbed

\* The regular file being written, while nothing goes wrong.
LEMMA CalmFile ==
  ASSUME JournalInv, Undisturbed, phase = "replay", sink # None, sinkState = "regular"
  PROVE  /\ sink \in Layer /\ next \in Nat /\ Taken = next - 2
         /\ next - 1 \in 1..Len(image[sink]) /\ Len(image[sink]) \in Nat
         /\ open \in Opening /\ open.entry = image[sink][next - 1] /\ open.entry.kind = "regular"
         /\ open.entry \in Entry /\ open.entry.payload \in Seq(Byte)
         /\ Len(open.entry.payload) \in Nat
         /\ open.written \in Seq(Byte) /\ Len(open.written) \in Nat
         /\ open.written = SubSeq(open.entry.payload, 1, Len(open.written))
         /\ Len(open.written) <= Len(open.entry.payload)
         /\ transcript[sink].open = [open.entry EXCEPT !.payload = open.written]
         /\ open.offset = spoolBytes /\ spoolBytes \in Nat /\ open.index = captured[sink] + 1
         /\ spool \in Seq(Byte) /\ Len(spool) = spoolBytes + Len(open.written)
<1>1. CalmCalls /\ CalmSpool /\ ~poisoned
  BY DEF Undisturbed, CalmSeals
<1>2. sink \in Layer /\ next \in Nat /\ Taken = next - 2 /\ spoolBytes \in Nat
  BY DEF JournalInv, JournalTypes, Taken
<1>3. /\ open \in Opening /\ open.entry.kind = "regular"
      /\ open.index = captured[sink] + 1
      /\ Len(open.written) <= Len(open.entry.payload)
      /\ transcript[sink].open = [open.entry EXCEPT !.payload = open.written]
  BY <1>1 DEF JournalInv, Opened
<1>4. /\ open.entry \in Entry /\ open.entry.payload \in Seq(Byte)
      /\ Len(open.entry.payload) \in Nat
      /\ open.written \in Seq(Byte) /\ Len(open.written) \in Nat
  BY <1>3, EntryParts, LenProperties DEF Opening
<1>5. /\ Taken \in 0..Len(image[sink]) /\ next <= Len(image[sink]) + 1
      /\ open.entry = image[sink][next - 1] /\ open.offset = spoolBytes
      /\ open.written = SubSeq(open.entry.payload, 1, Len(open.written))
  BY <1>1 DEF CalmCalls
<1>6. Len(image[sink]) \in Nat
  BY <1>2, ImageLayer
<1>7. next - 1 \in 1..Len(image[sink])
  BY <1>2, <1>5, <1>6
<1>8. spool \in Seq(Byte) /\ Len(spool) = spoolBytes + Len(open.written)
  BY <1>1 DEF CalmSpool
<1>9. QED
  BY <1>2, <1>3, <1>4, <1>5, <1>6, <1>7, <1>8

LEMMA CalmWrites ==
  ASSUME JournalInv, Undisturbed, NEW b \in Byte, WriteChunk(b),
         UNCHANGED deviations, deviations = 0
  PROVE  Undisturbed'
<1> DEFINE w == open.written
           n == Len(w)
<1>1. /\ phase = "replay" /\ sink # None /\ sinkState = "regular" /\ ~poisoned
      /\ n < Len(open.entry.payload) /\ open.entry.payload[n + 1] = b
      /\ UNCHANGED <<phase, image, custody, blob, next, projectionVars>>
  BY DEF WriteChunk, Calling, Deviates
<1>2. CalmCalls /\ CalmSeals /\ CalmEnvelope /\ CalmReferences /\ CalmSpool /\ custody
  BY <1>1 DEF Undisturbed, CalmSeals
<1>3. /\ spool' = WrittenAt(open.offset + n + 1, b)
      /\ open' = [open EXCEPT !.written = Append(@, b)]
      /\ transcript' = [transcript EXCEPT ![sink].open.payload = Append(@, b)]
      /\ UNCHANGED <<sink, sinkState, poisoned, spoolBytes, extents, operations, bySource,
                     captured, sealed, openInert, metadata>>
  BY <1>1, <1>2 DEF WriteChunk
<1>4. /\ sink \in Layer /\ open \in Opening /\ w \in Seq(Byte) /\ n \in Nat
      /\ open.entry.payload \in Seq(Byte) /\ Len(open.entry.payload) \in Nat
      /\ w = SubSeq(open.entry.payload, 1, n)
      /\ open.offset = spoolBytes /\ spoolBytes \in Nat
      /\ spool \in Seq(Byte) /\ Len(spool) = spoolBytes + n
  BY <1>1, CalmFile
<1>5. /\ open'.written = Append(w, b) /\ open'.entry = open.entry /\ open'.offset = open.offset
      /\ Len(open'.written) = n + 1 /\ Append(w, b)[n + 1] = b
      /\ \A j \in 1..n : Append(w, b)[j] = w[j]
  BY <1>3, <1>4, AppendProperties DEF Opening
<1>6. /\ \A l \in Layer : transcript'[l].done = transcript[l].done
      /\ \A l \in Layer : l # sink => transcript'[l].open = transcript[l].open
  <2>1. transcript \in [Layer -> [done : Seq(Entry), open : Entry \cup {None}]]
    BY DEF JournalInv, JournalTypes
  <2>2. QED
    BY <1>3, <1>4, <2>1
<1>7. CalmCalls'
  <2>1. Taken' = Taken
    BY <1>1, <1>3 DEF Taken
  <2>2. Append(w, b) = SubSeq(open.entry.payload, 1, n + 1)
    <3>1. n \in 0..Len(open.entry.payload)
      BY <1>1, <1>4
    <3> HIDE DEF n
    <3>2. Append(SubSeq(open.entry.payload, 1, n), open.entry.payload[n + 1])
            = SubSeq(open.entry.payload, 1, n + 1)
      BY <1>1, <1>4, <3>1, SubSeqGrows
    <3>3. QED
      BY <1>1, <1>4, <3>2
  <2>3. open'.written = SubSeq(open'.entry.payload, 1, Len(open'.written))
    BY <1>5, <2>2
  <2>4. \A i \in Layer : transcript'[BlobOrder[i]].done = transcript[BlobOrder[i]].done
    BY <1>6, BlobsApart
  <2>5. transcript'[sink'].done = transcript[sink].done
    BY <1>3, <1>4, <1>6
  <2>6. open'.entry = image'[sink'][next' - 1] /\ open'.offset = spoolBytes'
    BY <1>1, <1>2, <1>3, <1>5 DEF CalmCalls
  <2> HIDE DEF w, n
  <2>7. QED
    BY <1>1, <1>2, <1>3, <2>1, <2>3, <2>4, <2>5, <2>6 DEF CalmCalls
<1>8. CalmSeals'
  BY <1>1, <1>2, <1>3, <1>7 DEF CalmSeals, Walking, Projected
<1>9. CalmEnvelope' /\ CalmReferences'
  <2>1. \A l \in Layer : l # sink => transcript'[l].open = None
    BY <1>2, <1>6 DEF CalmEnvelope
  <2>2. CalmEnvelope'
    BY <1>1, <1>2, <1>3, <2>1 DEF CalmEnvelope
  <2>3. CalmReferences'
    BY <1>2, <1>3 DEF CalmReferences, Placed, PlacedIn
  <2>4. QED
    BY <2>2, <2>3
<1>10. CalmSpool'
  <2> DEFINE at == Len(spool) + 1
  <2>1. open.offset + n + 1 = at /\ at \in Nat /\ at > Len(spool) /\ Len(spool) \in Nat
    BY <1>4
  <2>2. spool' = [i \in 1..at |-> IF i = at THEN b ELSE IF i <= Len(spool) THEN spool[i] ELSE 0]
    BY <1>3, <2>1 DEF WrittenAt
  <2>3. /\ \A i \in 1..Len(spool) : spool'[i] = spool[i]
        /\ spool'[at] = b /\ spool' \in [1..at -> Byte]
    <3>1. spool \in [1..Len(spool) -> Byte] /\ 0 \in Byte
      BY <1>4, LenProperties DEF Byte
    <3>2. \A i \in 1..at : i # at => i \in 1..Len(spool)
      BY <2>1
    <3>3. \A i \in 1..Len(spool) : i \in 1..at /\ i # at /\ i <= Len(spool)
      BY <2>1
    <3>4. at \in 1..at
      BY <2>1
    <3> HIDE DEF at
    <3>5. QED
      BY <2>2, <3>1, <3>2, <3>3, <3>4
  <2>4. spool' \in Seq(Byte) /\ Len(spool') = at
    BY <2>1, <2>3
  <2>5. Len(spool') = spoolBytes' + Len(open'.written)
    BY <1>3, <1>4, <1>5, <2>4
  <2>6. ASSUME NEW x \in 1..Len(extents)
        PROVE  /\ extents[x].offset + Len(extents[x].digest) <= spoolBytes
               /\ \A j \in 1..Len(extents[x].digest) :
                    spool'[extents[x].offset + j] = extents[x].digest[j]
    <3>1. extents[x].offset \in Nat /\ Len(extents[x].digest) \in Nat
      <4>1. extents[x] \in Stretch
        BY ElementOfSeq DEF JournalInv, JournalTypes
      <4>2. QED
        BY <4>1, LenProperties DEF Stretch
    <3>2. /\ extents[x].offset + Len(extents[x].digest) <= spoolBytes
          /\ \A j \in 1..Len(extents[x].digest) :
               spool[extents[x].offset + j] = extents[x].digest[j]
      BY <1>2 DEF CalmSpool
    <3>3. \A j \in 1..Len(extents[x].digest) : extents[x].offset + j \in 1..Len(spool)
      BY <1>4, <3>1, <3>2
    <3>4. QED
      BY <2>3, <3>2, <3>3
  <2>7. ASSUME NEW j \in 1..(n + 1) PROVE spool'[spoolBytes + j] = Append(w, b)[j]
    <3>1. CASE j = n + 1
      BY <1>4, <1>5, <2>3, <3>1
    <3>2. CASE j # n + 1
      <4>1. j \in 1..n /\ spoolBytes + j \in 1..Len(spool)
        BY <1>4, <3>2
      <4>2. spool[spoolBytes + j] = w[j]
        BY <1>1, <1>2, <4>1 DEF CalmSpool
      <4>3. QED
        BY <1>5, <2>3, <4>1, <4>2
    <3>3. QED
      BY <3>1, <3>2
  <2>8. \A j \in 1..Len(open'.written) : spool'[spoolBytes' + j] = open'.written[j]
    BY <1>3, <1>5, <2>7
  <2>9. QED
    BY <1>1, <1>3, <2>4, <2>5, <2>6, <2>8 DEF CalmSpool
<1>11. QED
  BY <1>1, <1>2, <1>3, <1>8, <1>9, <1>10 DEF Undisturbed

LEMMA CalmFinishes ==
  ASSUME JournalInv, Undisturbed, FinishRegular, UNCHANGED deviations, deviations = 0
  PROVE  Undisturbed'
<1> DEFINE w == open.written
           y == Len(extents) + 1
           op == [layer |-> sink, index |-> open.index,
                  entry |-> Header(open.entry), extent |-> y]
<1>1. /\ phase = "replay" /\ sink # None /\ sinkState = "regular" /\ ~poisoned
      /\ Len(w) = Len(open.entry.payload)
      /\ UNCHANGED <<phase, image, custody, blob, next, projectionVars>>
  BY DEF FinishRegular, Calling, Deviates
<1>2. CalmCalls /\ CalmSeals /\ CalmEnvelope /\ CalmReferences /\ CalmSpool /\ custody
  BY <1>1 DEF Undisturbed, CalmSeals
<1>3. /\ sink \in Layer /\ next \in Nat /\ Taken = next - 2
      /\ next - 1 \in 1..Len(image[sink]) /\ Len(image[sink]) \in Nat
      /\ open \in Opening /\ open.entry = image[sink][next - 1] /\ open.entry.kind = "regular"
      /\ open.entry \in Entry /\ open.entry.payload \in Seq(Byte)
      /\ w \in Seq(Byte) /\ Len(w) \in Nat /\ w = SubSeq(open.entry.payload, 1, Len(w))
      /\ transcript[sink].open = [open.entry EXCEPT !.payload = w]
      /\ open.offset = spoolBytes /\ spoolBytes \in Nat /\ open.index = captured[sink] + 1
      /\ spool \in Seq(Byte) /\ Len(spool) = spoolBytes + Len(w)
  BY <1>1, CalmFile
<1>4. /\ extents' = Append(extents, Extent) /\ Journalled(sink, op)
      /\ transcript' = [transcript EXCEPT ![sink].done = Append(@, transcript[sink].open),
                                          ![sink].open = None]
      /\ spoolBytes' = spoolBytes + Len(w) /\ open' = None /\ sinkState' = "none"
      /\ UNCHANGED <<sink, poisoned, spool, sealed, openInert, metadata>>
  <2>1. PayloadIsComplete
    BY <1>1, <1>2, <1>3 DEF PayloadIsComplete, SpoolIs
  <2>2. QED
    BY <2>1 DEF FinishRegular
<1>5. transcript[sink].open = image[sink][next - 1]
  <2>1. w = open.entry.payload
    <3>1. 0 \in 0..Len(open.entry.payload)
      BY <1>1, <1>3
    <3>2. SubSeq(open.entry.payload, 1, Len(open.entry.payload)) = open.entry.payload
      BY <1>3, <3>1, SubSeqGrows
    <3>3. QED
      BY <1>1, <1>3, <3>2
  <2>2. [open.entry EXCEPT !.payload = open.entry.payload] = open.entry
    BY <1>3, EntryParts
  <2>3. QED
    BY <1>3, <2>1, <2>2
<1>6. /\ transcript'[sink].done = Append(transcript[sink].done, image[sink][next - 1])
      /\ transcript'[sink].open = None
      /\ \A l \in Layer : l # sink => transcript'[l] = transcript[l]
  <2>1. transcript \in [Layer -> [done : Seq(Entry), open : Entry \cup {None}]]
    BY DEF JournalInv, JournalTypes
  <2>2. QED
    BY <1>3, <1>4, <1>5, <2>1
<1>7. CalmCalls'
  <2>1. Taken' = Taken + 1 /\ Taken + 1 = next - 1 /\ Taken < Len(image[sink])
        /\ next' <= Len(image[sink]) + 1
    <3>1. Taken' = next - 1
      BY <1>1, <1>4 DEF Taken
    <3>2. QED
      BY <1>1, <1>3, <3>1
  <2>2. sinkState' # "regular" /\ UNCHANGED <<image, blob, sink>>
    BY <1>1, <1>4
  <2>3. transcript'[sink].done = Append(transcript[sink].done, image[sink][Taken + 1])
    BY <1>6, <2>1
  <2>4. QED
    BY <1>1, <1>2, <1>6, <2>1, <2>2, <2>3, CalmTakes
<1>8. CalmSeals'
  BY <1>1, <1>2, <1>4, <1>7 DEF CalmSeals, Walking, Projected
<1>9. /\ op \in Operation /\ op.layer = sink /\ op.index = captured[sink] + 1
      /\ op.entry.kind = "regular" /\ op.extent = y
      /\ Extent \in Stretch /\ Extent.layer = sink /\ Extent.index = op.index
      /\ Extent.offset = spoolBytes /\ Extent.digest = w
      /\ extents \in Seq(Stretch) /\ Len(extents) \in Nat
      /\ operations \in Seq(Operation) /\ Len(operations) \in Nat
  <2>1. /\ extents \in Seq(Stretch) /\ Len(extents) \in Nat
        /\ operations \in Seq(Operation) /\ Len(operations) \in Nat
    BY LenProperties DEF JournalInv, JournalTypes
  <2>2. Header(open.entry) \in Entry /\ Header(open.entry).kind = "regular"
    BY <1>3, HeaderIs
  <2>3. QED
    BY <1>3, <2>1, <2>2 DEF Operation, Extent, Stretch, Opening
<1> HIDE DEF op
<1>10. CalmReferences'
  BY <1>2, <1>3, <1>4, <1>9, ReferencesGrow
<1>11. /\ Len(extents') = y /\ extents'[y] = Extent /\ y \in Nat
       /\ \A x \in 1..Len(extents) : extents'[x] = extents[x]
       /\ Len(operations') = Len(operations) + 1
  BY <1>4, <1>9, AppendProperties DEF Journalled
<1>12. CalmEnvelope'
  <2>1. \A l \in Layer : transcript'[l].open = None
    BY <1>2, <1>3, <1>6 DEF CalmEnvelope
  <2>2. openInert' = (sinkState' = "inert")
    BY <1>1, <1>2, <1>4 DEF CalmEnvelope
  <2>3. ASSUME NEW x \in 1..y
        PROVE  extents'[x].offset = IF x = 1 THEN 0 ELSE extents'[x - 1].offset
                                                         + Len(extents'[x - 1].digest)
    <3>1. CASE x \in 1..Len(extents)
      <4>1. x # 1 => x - 1 \in 1..Len(extents)
        BY <1>9, <3>1
      <4>2. extents[x].offset = IF x = 1 THEN 0 ELSE extents[x - 1].offset
                                                     + Len(extents[x - 1].digest)
        BY <1>2, <3>1 DEF CalmEnvelope
      <4>3. QED
        BY <1>11, <3>1, <4>1, <4>2
    <3>2. CASE x = y
      <4>1. CASE extents = <<>>
        <5>1. y = 1 /\ spoolBytes = 0
          BY <1>2, <4>1 DEF CalmEnvelope
        <5>2. QED
          BY <1>9, <1>11, <3>2, <5>1
      <4>2. CASE extents # <<>>
        <5>1. Len(extents) # 0
          BY <1>9, <4>2, EmptySeq
        <5>2. x # 1 /\ x - 1 = Len(extents) /\ Len(extents) \in 1..Len(extents)
          BY <1>9, <3>2, <5>1
        <5>3. spoolBytes = extents[Len(extents)].offset + Len(extents[Len(extents)].digest)
          BY <1>2, <4>2 DEF CalmEnvelope
        <5>4. QED
          BY <1>9, <1>11, <3>2, <5>2, <5>3
      <4>3. QED
        BY <4>1, <4>2
    <3>3. QED
      BY <1>9, <3>1, <3>2
  <2>4. extents' # <<>> /\ spoolBytes' = extents'[y].offset + Len(extents'[y].digest)
    BY <1>4, <1>9, <1>11, AppendProperties
  <2> HIDE DEF y
  <2>5. QED
    BY <1>4, <1>11, <2>1, <2>2, <2>3, <2>4 DEF CalmEnvelope
<1>13. CalmSpool'
  <2>1. Len(spool') = spoolBytes' + 0 /\ spool' \in Seq(Byte)
    BY <1>3, <1>4
  <2>2. ASSUME NEW x \in 1..y
        PROVE  /\ extents'[x].offset + Len(extents'[x].digest) <= spoolBytes'
               /\ \A j \in 1..Len(extents'[x].digest) :
                    spool'[extents'[x].offset + j] = extents'[x].digest[j]
    <3>1. CASE x \in 1..Len(extents)
      <4>1. extents'[x] = extents[x]
        BY <1>11, <3>1
      <4>2. extents[x].offset \in Nat /\ Len(extents[x].digest) \in Nat
        <5>1. extents[x] \in Stretch
          BY <1>9, <3>1, ElementOfSeq
        <5>2. QED
          BY <5>1, LenProperties DEF Stretch
      <4>3. /\ extents[x].offset + Len(extents[x].digest) <= spoolBytes
            /\ \A j \in 1..Len(extents[x].digest) :
                 spool[extents[x].offset + j] = extents[x].digest[j]
        BY <1>2, <3>1 DEF CalmSpool
      <4>4. extents[x].offset + Len(extents[x].digest) <= spoolBytes'
        <5>1. ASSUME NEW a \in Nat, NEW d \in Nat, NEW c \in Nat, NEW n \in Nat, a + d <= c
              PROVE  a + d <= c + n
          BY <5>1
        <5>2. extents[x].offset + Len(extents[x].digest) <= spoolBytes
          BY <4>3
        <5>3. spoolBytes \in Nat /\ Len(w) \in Nat
          BY <1>3
        <5> HIDE DEF w
        <5>4. extents[x].offset + Len(extents[x].digest) <= spoolBytes + Len(w)
          BY <4>2, <5>1, <5>2, <5>3
        <5>5. QED
          BY <1>4, <5>4
      <4>5. QED
        BY <1>4, <4>1, <4>3, <4>4
    <3>2. CASE x = y
      <4>1. extents'[x].offset = spoolBytes /\ extents'[x].digest = w
        BY <1>9, <1>11, <3>2
      <4>2. \A j \in 1..Len(w) : spool[spoolBytes + j] = w[j]
        BY <1>1, <1>2 DEF CalmSpool
      <4>3. QED
        BY <1>3, <1>4, <4>1, <4>2
    <3>3. QED
      BY <1>9, <3>1, <3>2
  <2> HIDE DEF y
  <2>3. QED
    BY <1>4, <1>11, <2>1, <2>2 DEF CalmSpool
<1>14. QED
  BY <1>1, <1>2, <1>4, <1>8, <1>10, <1>12, <1>13 DEF Undisturbed

LEMMA CalmSealing ==
  ASSUME JournalInv, Undisturbed, StartSealing, UNCHANGED deviations, deviations = 0
  PROVE  Undisturbed'
<1>1. /\ phase = "replay" /\ phase' = "seal" /\ layer' = 1 /\ sinkState' = "none"
      /\ UNCHANGED <<image, poisoned, journalVars, custody>>
  BY DEF StartSealing
<1>2. /\ CalmCalls /\ CalmEnvelope /\ CalmReferences /\ CalmSpool /\ custody /\ ~poisoned
      /\ DOMAIN sealed = Layer /\ \A l \in Layer : sealed[l] = None
  BY <1>1 DEF Undisturbed, CalmSeals
<1>3. /\ sink = None /\ ~(blob <= Len(BlobOrder))
      /\ expected' = Census(Stack(image, Len(BlobOrder)))
  BY <1>2 DEF StartSealing, Deviates
<1>4. sinkState = "none"
  BY <1>2, <1>3 DEF CalmCalls
<1>5. ASSUME NEW l \in Layer PROVE transcript[l].done = image[l]
  <2>1. PICK i \in Layer : BlobOrder[i] = l
    BY ReplayAssumption
  <2>2. i < blob
    BY <1>3, LayerNumbers DEF JournalInv, JournalTypes, Layer
  <2>3. QED
    BY <1>2, <2>1, <2>2 DEF CalmCalls
<1>6. \A l \in Layer : ~(l < 1)
  BY LayerNumbers DEF Layer
<1>7. CalmSeals'
  BY <1>1, <1>2, <1>3, <1>5, <1>6 DEF CalmSeals, journalVars, Walking, Projected
<1>8. CalmEnvelope' /\ CalmReferences' /\ CalmSpool'
  <2>1. CalmEnvelope'
    BY <1>1, <1>2, <1>4 DEF CalmEnvelope, journalVars
  <2>2. CalmReferences' /\ CalmSpool'
    BY <1>1, <1>2, <1>4 DEF CalmReferences, CalmSpool, Placed, PlacedIn, journalVars
  <2>3. QED
    BY <2>1, <2>2
<1>9. QED
  BY <1>1, <1>2, <1>7, <1>8 DEF Undisturbed

LEMMA CalmSealed ==
  ASSUME JournalInv, SealInv, Undisturbed, Seal
  PROVE  Undisturbed'
<1>1. /\ phase = "seal" /\ UNCHANGED <<image, sinkState, sink, custody>>
  BY DEF Seal, Outward, callVars, envVars
<1>2. /\ CalmSeals /\ CalmEnvelope /\ CalmReferences /\ CalmSpool /\ custody /\ ~poisoned
      /\ sinkState = "none" /\ (\A l \in Layer : transcript[l].done = image[l])
      /\ expected = Census(Stack(image, Len(BlobOrder)))
      /\ \A l \in Layer : sealed[l] = IF l < layer THEN captured[l] ELSE None
  BY <1>1 DEF Undisturbed, CalmSeals
<1>3. layer \in Layer /\ layer \in Nat /\ Len(BlobOrder) \in Nat
  BY <1>1, LayerNumbers DEF SealInv
<1>4. SealHolds(layer)
  <2>1. open = None /\ ~openInert /\ transcript[layer].open = None
    BY <1>2, <1>3 DEF CalmEnvelope
  <2>2. captured[layer] = Len(image[layer])
    <3>1. Recorded(layer)
      BY <1>3 DEF JournalInv
    <3>2. QED
      BY <1>2, <1>3, <3>1 DEF Recorded
  <2>3. sealed[layer] = None
    BY <1>2, <1>3
  <2>4. QED
    BY <1>2, <1>3, <2>1, <2>2, <2>3 DEF SealHolds
<1>5. /\ sealed' = [sealed EXCEPT ![layer] = captured[layer]]
      /\ IF layer < Len(BlobOrder) THEN layer' = layer + 1 /\ phase' = "seal"
                                   ELSE layer' = 1 /\ phase' = "journal"
      /\ UNCHANGED <<poisoned, spool, spoolBytes, extents, operations, bySource, captured,
                     transcript, open, openInert, metadata, expected>>
  BY <1>1, <1>4 DEF Seal
<1>6. CalmEnvelope' /\ CalmReferences' /\ CalmSpool'
  <2>1. CalmEnvelope'
    BY <1>1, <1>2, <1>5 DEF CalmEnvelope
  <2>2. CalmReferences' /\ CalmSpool'
    BY <1>1, <1>2, <1>5 DEF CalmReferences, CalmSpool, Placed, PlacedIn
  <2>3. QED
    BY <2>1, <2>2
<1>7. ASSUME NEW l \in Layer
      PROVE  sealed'[l] = IF l < layer + 1 THEN captured[l] ELSE None
  <2>0. l \in Nat /\ layer \in DOMAIN sealed /\ l \in DOMAIN sealed
    BY <1>2, <1>3, LayerNumbers DEF CalmSeals
  <2>1. CASE l = layer
    BY <1>3, <1>5, <2>0, <2>1
  <2>2. CASE l # layer
    <3>1. sealed'[l] = sealed[l]
      BY <1>5, <2>0, <2>2
    <3>2. l < layer + 1 <=> l < layer
      BY <1>3, <2>0, <2>2
    <3>3. QED
      BY <1>2, <3>1, <3>2
  <2>3. QED
    BY <2>1, <2>2
<1>8. CalmSeals'
  <2>0. DOMAIN sealed' = Layer
    BY <1>2, <1>5 DEF CalmSeals
  <2>1. CASE layer < Len(BlobOrder)
    BY <1>1, <1>2, <1>5, <1>7, <2>0, <2>1 DEF CalmSeals, Walking, Projected
  <2>2. CASE ~(layer < Len(BlobOrder))
    <3>1. \A l \in Layer : l < layer + 1
      BY <1>3, <2>2 DEF Layer
    <3>2. QED
      BY <1>1, <1>2, <1>5, <1>7, <2>0, <2>2, <3>1 DEF CalmSeals, Walking, Projected
  <2>3. QED
    BY <2>1, <2>2
<1>9. phase' # "discarded"
  BY <1>5
<1>10. QED
  BY <1>1, <1>2, <1>5, <1>6, <1>8, <1>9 DEF Undisturbed

\* The journal of a calm replay passes every validation.
LEMMA CalmJournal ==
  ASSUME JournalInv, LimitInv, Undisturbed, WellFormed(image), phase = "journal"
  PROVE  ~poisoned /\ open = None /\ ~openInert /\ EnvelopeHolds /\ ReferencesHold /\ SealsHold
<1>1. /\ CalmSeals /\ CalmEnvelope /\ CalmReferences /\ ~poisoned /\ sinkState = "none"
      /\ \A l \in Layer : transcript[l].done = image[l] /\ sealed[l] = captured[l]
  BY DEF Undisturbed, CalmSeals, Walking, Projected
<1>2. open = None /\ ~openInert /\ \A l \in Layer : transcript[l].open = None
  BY <1>1 DEF CalmEnvelope
<1>3. /\ Len(operations) \in Nat /\ Len(operations) <= MaxTarEntries /\ spoolBytes <= MaxTarBytes
      /\ Cardinality(Positions(Heard)) = Len(operations)
      /\ captured \in [Layer -> Nat] /\ \A l \in Layer : Len(bySource[l]) = captured[l]
  BY LenProperties DEF JournalInv, JournalTypes, Measured, Recorded
<1>4. EnvelopeHolds
  <2>1. Positions(Heard) = Positions(image)
    <3>1. DOMAIN Heard = Layer /\ DOMAIN image = Layer /\ \A l \in Layer : Heard[l] = image[l]
      BY <1>1, ReplayAssumption DEF Heard, JournalInv, JournalTypes
    <3>2. QED
      BY <3>1 DEF Positions
  <2>2. Len(operations) = Cardinality({e \in Layer \X (1..MaxTarEntries) :
                                         e[2] <= Len(bySource[e[1]])})
    BY <1>1, <1>3, <2>1, CountedAlike
  <2>3. /\ metadata = Reserved + (IF open = None THEN 0 ELSE Charge(open.entry))
        /\ metadata <= MaxMetadata
    BY <1>1 DEF LimitInv
  <2>4. /\ \A i \in 1..Len(extents) :
             extents[i].offset = IF i = 1 THEN 0 ELSE extents[i - 1].offset
                                                      + Len(extents[i - 1].digest)
        /\ spoolBytes = IF extents = <<>> THEN 0
                        ELSE extents[Len(extents)].offset + Len(extents[Len(extents)].digest)
    BY <1>1 DEF CalmEnvelope
  <2>5. QED
    BY <1>3, <2>2, <2>3, <2>4 DEF EnvelopeHolds
<1>5. ReferencesHold
  <2>1. ASSUME NEW k \in 1..Len(operations)
        PROVE  LET op == operations[k]
               IN /\ op.index <= Len(bySource[op.layer]) /\ bySource[op.layer][op.index] = k
                  /\ op.index <= captured[op.layer]
                  /\ Refers(op, extents) /\ op.layer \in Layer
    <3>1. Placed(k) /\ Refers(operations[k], extents) /\ operations[k].layer \in Layer
      BY <1>1, OperationNumbers DEF CalmReferences
    <3>2. QED
      BY <1>3, <3>1 DEF Placed, PlacedIn
  <2>2. ASSUME NEW x \in 1..Len(extents)
        PROVE  \E k \in 1..Len(operations) :
                 /\ operations[k].extent = x
                 /\ \A m \in 1..Len(operations) : operations[m].extent = x => m = k
    <3>0. x # 0
      <4>1. Len(extents) \in Nat
        BY LenProperties DEF JournalInv, JournalTypes
      <4>2. QED
        BY <4>1
    <3>1. PICK k \in 1..Len(operations) : operations[k].extent = x
      BY <1>1 DEF CalmReferences
    <3>2. ASSUME NEW m \in 1..Len(operations), operations[m].extent = x
          PROVE  /\ extents[x].layer = operations[m].layer /\ extents[x].index = operations[m].index
                 /\ bySource[extents[x].layer][extents[x].index] = m
      BY <2>1, <3>0, <3>2 DEF Refers
    <3>3. QED
      BY <3>1, <3>2
  <2>3. QED
    BY <2>1, <2>2 DEF ReferencesHold, Refers
<1>6. SealsHold
  <2>1. ASSUME NEW l \in Layer
        PROVE  /\ sealed[l] # None /\ sealed[l] = captured[l] /\ sealed[l] <= Len(bySource[l])
               /\ StrictlyOrdered([i \in 1..sealed[l] |-> Ops(l)[i].entry])
               /\ lines[l] = [i \in 1..sealed[l] |-> Line(Ops(l)[i], extents)]
               /\ transcript[l].open = None /\ transcript[l].done = image[l]
    <3>1. sealed[l] = captured[l] /\ captured[l] \in Nat /\ Len(bySource[l]) = captured[l]
      BY <1>1, <1>3
    <3>2. DOMAIN image = Layer
      BY ReplayAssumption DEF JournalInv, JournalTypes
    <3>3. StrictlyOrdered(image[l])
      BY <3>2 DEF WellFormed, Admissible
    <3>4. StrictlyOrdered([i \in 1..sealed[l] |-> Ops(l)[i].entry])
      BY <1>1, <3>1, <3>3, OrderedAlike
    <3>5. lines[l] = [i \in 1..sealed[l] |-> Line(Ops(l)[i], extents)]
      <4>1. lines[l] = [i \in 1..captured[l] |-> Line(operations[bySource[l][i]], extents)]
        BY <1>1 DEF LimitInv, LinesKept
      <4>2. \A i \in 1..captured[l] : Ops(l)[i] = operations[bySource[l][i]]
        BY <3>1 DEF Ops
      <4>3. QED
        BY <3>1, <4>1, <4>2
    <3>6. QED
      BY <1>1, <1>2, <3>1, <3>4, <3>5, NoneAssumption
  <2>2. QED
    BY <2>1 DEF SealsHold
<1>7. QED
  BY <1>1, <1>2, <1>4, <1>5, <1>6

\* The validations and the projection leave the journal alone.
LEMMA CalmFrame ==
  ASSUME Undisturbed, phase \in {"journal"} \cup Walking \cup Projected,
         phase' \in Walking \cup Projected,
         UNCHANGED <<image, sink, sinkState, poisoned, custody, journalVars, expected>>
  PROVE  Undisturbed'
<1>1. CalmSeals'
  BY DEF Undisturbed, CalmSeals, journalVars, Walking, Projected
<1>2. CalmEnvelope' /\ CalmReferences' /\ CalmSpool'
  <2>1. CalmEnvelope'
    BY DEF Undisturbed, CalmEnvelope, journalVars
  <2>2. CalmReferences' /\ CalmSpool'
    BY DEF Undisturbed, CalmReferences, CalmSpool, Placed, PlacedIn, journalVars
  <2>3. QED
    BY <2>1, <2>2
<1>3. phase' # "discarded" /\ ~poisoned' /\ custody'
  BY DEF Undisturbed, Walking, Projected
<1>4. QED
  BY <1>1, <1>2, <1>3 DEF Undisturbed

LEMMA CalmLayer ==
  ASSUME JournalInv, SealInv, WellFormed(image), phase \in Walking
  PROVE  layer \in Layer /\ image \in Stackable /\ Admissible(image, layer)
BY ReplayAssumption DEF JournalInv, JournalTypes, SealInv, Stackable, WellFormed

LEMMA CalmWhiteouts ==
  ASSUME JournalInv, SealInv, MirrorInv, WellFormed(image), phase = "check"
  PROVE  WhiteoutsHold(layer)
<1>1. Admissible(image, layer)
  BY CalmLayer DEF Walking
<1>2. WhiteoutsAgree(image[layer], Lower)
  BY <1>1 DEF Admissible, Lower
<1>3. QED
  BY <1>2, WhiteoutsDecided DEF MirrorInv

\* The entry at the cursor has its parent before it, or below.
LEMMA CalmFits ==
  ASSUME JournalInv, SealInv, MirrorInv, WellFormed(image), phase = "entry", Within,
         Current.kind \notin Whiteouts
  PROVE  EntryFits
<1> DEFINE L == image[layer]
           c == cursor
           e == L[c]
           p == e.path
           S == Lower
           U == Stack(image, layer)
<1>1. /\ layer \in Layer /\ image \in Stackable /\ StrictlyOrdered(L) /\ L \in Seq(Entry)
      /\ c \in 1..Len(L) /\ Len(L) \in Nat /\ e \in Entry
      /\ Current.kind = e.kind /\ Current.path = p /\ p \in PathOf /\ p # <<>>
      /\ e.kind \notin Whiteouts /\ \A i \in 1..Len(L) : L[i] \in Entry
  BY CursorIs, InLayerIs DEF Walking, Whiteouts
<1>2. /\ DOMAIN live = {L[i].path : i \in Given(L, c)}
                         \cup {r \in DOMAIN S : ~Swept(L, r) /\ ~Covered(L, c, r)}
      /\ \A i \in Given(L, c) : Records(live[L[i].path].definition, L[i])
      /\ \A r \in DOMAIN live : (\A i \in Given(L, c) : L[i].path # r)
                                  => Records(live[r].definition, S[r])
  BY DEF MirrorInv, StandsEntered
<1>3. /\ \A f : f \in InLayer(image, layer) <=> \E i \in 1..Len(L) : f = L[i]
      /\ \A i : i \in Given(L, c) <=> i \in 1..Len(L) /\ i < c /\ L[i].kind \notin Whiteouts
  BY DEF InLayer, Given, Upto
<1>4. e \in InLayer(image, layer)
  BY <1>1, <1>3
<1>5. /\ IsDirectory(U, Parent(p))
      /\ e.kind = "directory" /\ p \in DOMAIN S /\ ~Swept(L, p) => S[p].kind = "directory"
  <2>1. Admissible(image, layer)
    BY CalmLayer DEF Walking
  <2>2. Swept(L, p) <=> \E f \in InLayer(image, layer) : f.kind \in Whiteouts /\ Hides(f, p)
    BY <1>3 DEF Swept
  <2>3. QED
    BY <1>1, <1>4, <2>1, <2>2 DEF Admissible, Lower
<1>6. ASSUME NEW r, r \in DOMAIN S PROVE S[r] \in Entry
  <2>1. layer - 1 \in Nat /\ layer - 1 <= Len(BlobOrder)
    BY <1>1, LayerNumbers DEF Layer
  <2>2. QED
    BY <1>1, <1>6, <2>1, StackEntries DEF Lower
<1>7. ASSUME Len(p) > 1 PROVE LiveDirectory(Parent(p))
  <2> DEFINE q == Parent(p)
  <2>1. q \in PathOf /\ Below(p, q) /\ q # <<>> /\ Len(q) < Len(p)
    <3>1. q \in PathOf /\ Below(p, q) /\ Len(q) = Len(p) - 1 /\ Len(p) \in Nat
      BY <1>1, ParentIs, LenProperties DEF PathOf
    <3>2. QED
      BY <1>7, <3>1
  <2>2. q \in DOMAIN U /\ U[q].kind = "directory"
    BY <1>5, <2>1 DEF IsDirectory
  <2>3. CASE DefinedIn(image, layer, q)
    <3>1. PICK j \in 1..Len(L) : L[j].kind \notin Whiteouts /\ L[j].path = q
      BY <1>3, <2>3 DEF DefinedIn, Defines
    <3>2. j < c
      <4>1. ~(c < j)
        BY <1>1, <2>1, <3>1, OrderedDefinitions
      <4>2. c # j
        BY <2>1, <3>1 DEF Below
      <4>3. QED
        BY <1>1, <4>1, <4>2
    <3>3. j \in Given(L, c)
      BY <1>3, <3>1, <3>2
    <3>4. U[q] = L[j]
      <4>1. L[j] \in InLayer(image, layer)
        BY <1>3
      <4>2. ASSUME NEW f \in InLayer(image, layer), Defines(f, L[j].path) PROVE f = L[j]
        <5>1. PICK i \in 1..Len(L) : f = L[i]
          BY <1>3
        <5>2. L[i].kind \notin Whiteouts /\ L[i].path = L[j].path
          BY <4>2, <5>1 DEF Defines
        <5>3. ~(i < j) /\ ~(j < i)
          BY <1>1, <3>1, <5>2, OrderedDefinitions
        <5>4. i = j
          BY <1>1, <5>3
        <5>5. QED
          BY <5>1, <5>4
      <4>3. QED
        BY <1>1, <3>1, <4>1, <4>2, StackNew
    <3>5. q \in DOMAIN live /\ Records(live[q].definition, L[j])
      BY <1>2, <3>1, <3>3
    <3>6. QED
      BY <1>1, <2>2, <3>4, <3>5, RecordedKind DEF LiveDirectory, EntryOf
  <2>4. CASE ~DefinedIn(image, layer, q)
    <3>1. q \in DOMAIN S /\ U[q] = S[q] /\ ~HiddenIn(image, layer, q)
      BY <1>1, <2>2, <2>4, StackOld, StackDomain DEF Lower
    <3>2. ~Swept(L, q) /\ ~Covered(L, c, q)
      BY <1>3, <3>1 DEF HiddenIn, Swept, Covered, Upto
    <3>3. \A i \in Given(L, c) : L[i].path # q
      BY <1>3, <2>4 DEF DefinedIn, Defines
    <3>4. q \in DOMAIN live
      BY <1>2, <3>1, <3>2
    <3>5. Records(live[q].definition, S[q]) /\ S[q] \in Entry
      BY <1>2, <1>6, <3>1, <3>3, <3>4
    <3>6. QED
      BY <2>2, <3>1, <3>4, <3>5, RecordedKind DEF LiveDirectory, EntryOf
  <2>5. QED
    BY <2>3, <2>4
<1>8. ASSUME e.kind = "directory", p \in DOMAIN live PROVE LiveDirectory(p)
  <2>1. \A i \in Given(L, c) : L[i].path # p
    BY <1>1, <1>3, OrderedDefinitions
  <2>2. p \in DOMAIN S /\ ~Swept(L, p)
    BY <1>2, <1>8, <2>1
  <2>3. Records(live[p].definition, S[p]) /\ S[p] \in Entry /\ S[p].kind = "directory"
    BY <1>2, <1>5, <1>6, <1>8, <2>1, <2>2
  <2>4. QED
    BY <1>8, <2>3, RecordedKind DEF LiveDirectory, EntryOf
<1>9. QED
  BY <1>1, <1>7, <1>8 DEF EntryFits

\* The projection is counted as its stack is.
LEMMA CalmCounts ==
  ASSUME JournalInv, SealInv, TreeInv, CountInv, MirrorInv, WellFormed(image),
         phase = "entry", ~Within
  PROVE  CountersHold
<1> DEFINE D == DOMAIN live
           A == {p \in D : EntryOf(p).kind = "regular"}
           B == {p \in D : EntryOf(p).kind = "directory"}
           C == {p \in D : EntryOf(p).kind = "symlink"}
<1>1. /\ counters.entries = Cardinality(D) /\ counters.regular = Cardinality(A)
      /\ counters.directory = Cardinality(B) /\ counters.symlink = Cardinality(C)
  BY DEF CountInv, KindAt
<1>2. IsFiniteSet(D) /\ \A p \in D : EntryOf(p).kind \in {"regular", "directory", "symlink"}
  BY DEF TreeInv, Listed
<1>3. A \in SUBSET D /\ B \in SUBSET (D \ A) /\ (D \ A) \ B = C
  BY <1>2
<1>4. Cardinality(D) <= MaxLiveEntries /\ counters.bytes <= MaxLiveBytes
  <2>1. Stands(Stack(image, layer))
    BY LayerApplied
  <2>2. layer \in Layer /\ Admissible(image, layer)
    BY CalmLayer DEF Walking
  <2>3. layer \in Nat /\ layer <= Len(BlobOrder)
    BY <2>2, LayerNumbers DEF Layer
  <2>4. counters = Census(Stack(image, layer))
    BY <2>1, <2>3, CensusIs
  <2>5. counters.bytes = BytesOf(Stack(image, layer))
    BY <2>4 DEF Census
  <2>6. QED
    BY <2>1, <2>2, <2>5 DEF Stands, Admissible
<1> HIDE DEF D, A, B, C
<1>5. /\ IsFiniteSet(D \ A) /\ Cardinality(D) \in Nat /\ Cardinality(A) \in Nat
      /\ Cardinality(D \ A) = Cardinality(D) - Cardinality(A)
  BY <1>2, <1>3, Removal
<1>6. /\ Cardinality(B) \in Nat /\ Cardinality(C) \in Nat
      /\ Cardinality(C) = Cardinality(D \ A) - Cardinality(B)
  BY <1>3, <1>5, Removal
<1>7. QED
  BY <1>1, <1>4, <1>5, <1>6 DEF CountersHold

LEMMA CalmEffects ==
  ASSUME JournalInv, TreeInv, CountInv, MirrorInv, EffectInv, Undisturbed, phase = "effects"
  PROVE  LiveEffectsHold /\ EffectsAreLatest /\ counters = expected
<1>1. expected = Census(Stack(image, Len(BlobOrder)))
  BY DEF Undisturbed, CalmSeals
<1>2. Stands(Stack(image, Len(BlobOrder)))
  BY DEF MirrorInv, Projected
<1>3. counters = Census(Stack(image, Len(BlobOrder)))
  BY <1>2, CensusIs, LayerNumbers
<1>4. QED
  BY <1>1, <1>3, EffectsFound

LEMMA CalmSpoolHolds ==
  ASSUME JournalInv, Undisturbed, phase \in {"spool", "retained"}
  PROVE  SpoolHolds
<1>1. custody /\ CalmSpool /\ sinkState = "none"
  BY DEF Undisturbed, CalmSeals
<1>2. spool \in Seq(Byte) /\ Len(spool) = spoolBytes /\ spoolBytes \in Nat
  BY <1>1 DEF CalmSpool, JournalInv, JournalTypes
<1>3. ASSUME NEW x \in 1..Len(extents)
      PROVE  SubSeq(spool, extents[x].offset + 1, extents[x].offset + Len(extents[x].digest))
               = extents[x].digest
  <2> DEFINE a == extents[x].offset
             d == extents[x].digest
             s == SubSeq(spool, a + 1, a + Len(d))
  <2>1. a \in Nat /\ d \in Seq(Byte) /\ Len(d) \in Nat
    <3>1. extents[x] \in Stretch
      BY ElementOfSeq DEF JournalInv, JournalTypes
    <3>2. QED
      BY <3>1, LenProperties DEF Stretch
  <2>2. a + Len(d) <= spoolBytes /\ \A j \in 1..Len(d) : spool[a + j] = d[j]
    BY <1>1 DEF CalmSpool
  <2> HIDE DEF a, d
  <2>3. \A i \in (a + 1)..(a + Len(d)) : i \in 1..Len(spool) /\ spool[i] \in Byte
    <3>1. \A i \in 1..Len(spool) : spool[i] \in Byte
      BY <1>2, LenProperties
    <3>2. QED
      BY <1>2, <2>1, <2>2, <3>1
  <2>4. /\ s \in Seq(Byte)
        /\ Len(s) = IF a + 1 <= a + Len(d) THEN a + Len(d) - (a + 1) + 1 ELSE 0
        /\ \A i \in 1..(a + Len(d) - (a + 1) + 1) : s[i] = spool[a + 1 + i - 1]
    BY <2>1, <2>3, SubSeqProperties
  <2> HIDE DEF s
  <2>5. Len(s) = Len(d) /\ \A i \in 1..Len(d) : s[i] = spool[a + i]
    <3>1. a + Len(d) - (a + 1) + 1 = Len(d) /\ \A i \in 1..Len(d) : a + 1 + i - 1 = a + i
      BY <2>1
    <3>2. Len(s) = Len(d)
      BY <2>1, <2>4, <3>1
    <3>3. QED
      BY <2>4, <3>1, <3>2
  <2>6. s = d
    BY <2>1, <2>2, <2>4, <2>5, SeqEqual
  <2>7. QED
    BY <2>6 DEF s, a, d
<1>4. QED
  BY <1>1, <1>2, <1>3 DEF SpoolHolds, SpoolIs

LEMMA CalmStart ==
  ASSUME Init
  PROVE  EffectInv /\ CalmInv
<1>1. EffectInv
  BY DEF Init, EffectInv, Walking, Projected
<1>2. Tallies
  BY DEF Init, Tallies
<1>3. \A l \in Layer : transcript[l].done = <<>> /\ transcript[l].open = None /\ sealed[l] = None
  BY DEF Init
<1>4. CalmSeals
  <2>1. CalmCalls
    <3>1. 1 \in 1..(Len(BlobOrder) + 1) /\ \A i \in Layer : ~(i < 1)
      BY LayerNumbers DEF Layer
    <3>2. \A i \in Layer : transcript[BlobOrder[i]].done = <<>>
      BY <1>3, BlobsApart
    <3>3. QED
      BY <3>1, <3>2 DEF Init, CalmCalls
  <2>2. QED
    BY <1>3, <2>1 DEF Init, CalmSeals, Walking, Projected
<1>5. CalmEnvelope
  <2>1. openInert = (sinkState = "inert")
    BY DEF Init
  <2>2. QED
    BY <1>3, <2>1 DEF Init, CalmEnvelope
<1>6. CalmReferences /\ CalmSpool
  BY DEF Init, CalmReferences, CalmSpool
<1>7. Undisturbed
  BY <1>4, <1>5, <1>6 DEF Init, Undisturbed
<1>8. QED
  BY <1>1, <1>2, <1>7 DEF CalmInv

LEMMA CalmBegun ==
  ASSUME Undisturbed, Begin
  PROVE  Undisturbed'
<1>1. /\ phase = "begin" /\ phase' = "replay"
      /\ UNCHANGED <<image, blob, next, sink, sinkState, poisoned, journalVars, custody>>
  BY DEF Begin, Undisturbed, Outward, callVars, envVars
<1>2. CalmCalls /\ CalmEnvelope /\ CalmReferences /\ CalmSpool /\ DOMAIN sealed = Layer
      /\ \A l \in Layer : sealed[l] = None
  BY <1>1 DEF Undisturbed, CalmSeals
<1>3. CalmCalls'
  BY <1>1, <1>2 DEF CalmCalls, Taken, journalVars
<1>4. CalmSeals'
  BY <1>1, <1>2, <1>3 DEF CalmSeals, journalVars, Walking, Projected
<1>5. CalmEnvelope'
  BY <1>1, <1>2 DEF CalmEnvelope, journalVars
<1>6. CalmReferences' /\ CalmSpool'
  BY <1>1, <1>2 DEF CalmReferences, CalmSpool, Placed, PlacedIn, journalVars
<1>7. QED
  BY <1>1, <1>4, <1>5, <1>6 DEF Undisturbed

\* While nothing goes wrong, a call succeeds.
LEMMA CalmCall ==
  ASSUME JournalInv, LimitInv, Undisturbed, WellFormed(image), Calls, UNCHANGED deviations, deviations = 0
  PROVE  Undisturbed'
<1>1. CASE OpenSink
  BY <1>1, CalmOpens
<1>2. CASE \E e \in Offered : BeginRegular(e) \/ StageInert(e)
  BY <1>2, CalmStarts, CalmStages
<1>3. CASE \E b \in Byte : WriteChunk(b)
  BY <1>3, CalmWrites
<1>4. CASE FinishRegular \/ FinishInert \/ DropSink
  BY <1>4, CalmFinishes, CalmInertEnds, CalmDrops
<1>5. CASE StartSealing
  BY <1>5, CalmSealing
<1>6. CASE GiveUp
  <2>1. phase = "replay" /\ (poisoned \/ (sink = None /\ (open # None \/ openInert)))
    BY <1>6 DEF GiveUp
  <2>2. CalmCalls /\ CalmEnvelope /\ ~poisoned
    BY <2>1 DEF Undisturbed, CalmSeals
  <2>3. sinkState = "none"
    BY <2>1, <2>2 DEF CalmCalls
  <2>4. open = None /\ ~openInert
    BY <2>2, <2>3 DEF CalmEnvelope
  <2>5. QED
    BY <2>1, <2>2, <2>4
<1>7. QED
  BY <1>1, <1>2, <1>3, <1>4, <1>5, <1>6 DEF Calls

\* While nothing goes wrong, no validation refuses.
LEMMA CalmCheck ==
  ASSUME JournalInv, LimitInv, SealInv, TreeInv, CountInv, MirrorInv, EffectInv, Undisturbed,
         WellFormed(image), Checks
  PROVE  Undisturbed'
<1> USE DEF Walking, Projected
<1>1. CASE Begin
  BY <1>1, CalmBegun
<1>2. CASE Seal
  BY <1>2, CalmSealed
<1>3. CASE /\ phase \in {"journal"} \cup Walking \cup Projected
           /\ phase' \in Walking \cup Projected
           /\ UNCHANGED <<image, sink, sinkState, poisoned, custody, journalVars, expected>>
  BY <1>3, CalmFrame
<1>4. CASE ValidateJournal
  <2>1. phase = "journal"
    BY <1>4 DEF ValidateJournal
  <2>2. ~poisoned /\ open = None /\ ~openInert /\ EnvelopeHolds /\ ReferencesHold /\ SealsHold
    BY <2>1, CalmJournal
  <2>3. QED
    BY <1>3, <1>4, <2>1, <2>2 DEF ValidateJournal, Outward, callVars, envVars, projectionVars
<1>5. CASE CheckWhiteouts
  <2>1. phase = "check"
    BY <1>5 DEF CheckWhiteouts
  <2>2. WhiteoutsHold(layer)
    BY <2>1, CalmWhiteouts
  <2>3. QED
    BY <1>3, <1>5, <2>1, <2>2 DEF CheckWhiteouts, Outward, callVars, envVars
<1>6. CASE ApplyWhiteout \/ EndWhiteouts
  BY <1>3, <1>6 DEF ApplyWhiteout, EndWhiteouts, Outward, callVars, envVars
<1>7. CASE ApplyEntry
  <2>1. phase = "entry" /\ Within
    BY <1>7 DEF ApplyEntry
  <2>2. Current.kind \notin Whiteouts => EntryFits
    BY <2>1, CalmFits
  <2>3. QED
    BY <1>3, <1>7, <2>1, <2>2 DEF ApplyEntry, Outward, callVars, envVars
<1>8. CASE EndLayer
  <2>1. phase = "entry" /\ ~Within
    BY <1>8 DEF EndLayer
  <2>2. CountersHold
    BY <2>1, CalmCounts
  <2>3. phase' \in {"check", "effects"}
    BY <1>8, <2>2 DEF EndLayer
  <2>4. QED
    BY <1>3, <1>8, <2>1, <2>2, <2>3 DEF EndLayer, Outward, callVars, envVars
<1>9. CASE CheckEffects
  <2>1. phase = "effects"
    BY <1>9 DEF CheckEffects
  <2>2. LiveEffectsHold /\ EffectsAreLatest /\ counters = expected
    BY <2>1, CalmEffects
  <2>3. QED
    BY <1>3, <1>9, <2>1, <2>2 DEF CheckEffects, Outward, callVars, envVars, projectionVars
<1>10. CASE ValidateSpool("spool", "retained") \/ ValidateSpool("retained", "revalidated")
  <2>1. phase \in {"spool", "retained"}
    BY <1>10 DEF ValidateSpool
  <2>2. SpoolHolds
    BY <2>1, CalmSpoolHolds
  <2>3. QED
    BY <1>3, <1>10, <2>1, <2>2 DEF ValidateSpool, callVars, projectionVars
<1>11. QED
  BY <1>1, <1>2, <1>4, <1>5, <1>6, <1>7, <1>8, <1>9, <1>10 DEF Checks

LEMMA CalmStep ==
  ASSUME JournalInv, LimitInv, SealInv, TreeInv, CountInv, MirrorInv, EffectInv, CalmInv, [Next]_vars
  PROVE  CalmInv'
<1>1. Tallies' /\ (Calm' => /\ Calm /\ UNCHANGED <<image, deviations, meddles, faults>>
                            /\ deviations = 0 /\ meddles = 0 /\ faults = 0)
  BY CalmBefore DEF CalmInv
<1> SUFFICES ASSUME Calm' PROVE Undisturbed'
  BY <1>1 DEF CalmInv
<1>2. /\ Undisturbed /\ WellFormed(image)
      /\ UNCHANGED <<image, deviations, meddles, faults>>
      /\ deviations = 0 /\ meddles = 0 /\ faults = 0
  BY <1>1 DEF CalmInv, Calm
<1>3. CASE Calls
  BY <1>2, <1>3, CalmCall
<1>4. CASE Checks
  BY <1>2, <1>4, CalmCheck
<1>5. CASE FailCall \/ FailCheck
  BY <1>2, <1>5 DEF FailCall, FailCheck
<1>6. CASE AlterSpool \/ MoveCustody
  BY <1>2, <1>6 DEF AlterSpool, MoveCustody, Meddle
<1>7. CASE Done \/ UNCHANGED vars
  <2>1. UNCHANGED vars
    BY <1>7 DEF Done
  <2>2. CalmSeals'
    <3>1. CalmCalls => CalmCalls'
      BY <2>1 DEF CalmCalls, Taken, vars
    <3>2. QED
      BY <1>2, <2>1, <3>1 DEF Undisturbed, CalmSeals, vars
  <2>3. CalmEnvelope'
    BY <1>2, <2>1 DEF Undisturbed, CalmEnvelope, vars
  <2>4. CalmReferences' /\ CalmSpool'
    BY <1>2, <2>1 DEF Undisturbed, CalmReferences, CalmSpool, Placed, PlacedIn, vars
  <2>5. QED
    BY <1>2, <2>1, <2>2, <2>3, <2>4 DEF Undisturbed, vars
<1>8. QED
  BY <1>3, <1>4, <1>5, <1>6, <1>7 DEF Next

\* An image whose layers mean a tree within the limits is never turned away as
\* long as the caller delivers it, no call fails and nothing is disturbed: no
\* check of the sink, of the seals, of the journal, of the whiteouts, entries,
\* counters and effects of the projection, or of the spool contradicts what the
\* replay itself has produced, in whatever order the blobs come.
THEOREM RefusedForACause == Spec => []RefusalHasACause
<1> DEFINE Inv == /\ JournalInv /\ LimitInv /\ SealInv /\ TreeInv /\ CountInv /\ MirrorInv
                  /\ EffectInv /\ CalmInv
<1>1. Init => Inv
  <2> SUFFICES ASSUME Init PROVE Inv
    OBVIOUS
  <2>1. live = <<>> /\ counters = Zero /\ phase = "begin"
    BY DEF Init
  <2>2. JournalInv /\ LimitInv /\ SealInv /\ TreeInv /\ CountInv
    BY <2>1, JournalStart, LimitStart, SealStart, TreeEmpty
  <2>3. MirrorInv
    BY <2>1 DEF MirrorInv, Walking, Projected
  <2>4. QED
    BY <2>2, <2>3, CalmStart
<1>2. Inv /\ [Next]_vars => Inv'
  BY JournalStep, LimitStep, SealStep, TreeStep, MirrorStep, EffectStep, CalmStep
<1>3. Inv => RefusalHasACause
  BY DEF CalmInv, Calm, Undisturbed, RefusalHasACause
<1>4. QED
  BY <1>1, <1>2, <1>3, PTL DEF Spec
=============================================================================
