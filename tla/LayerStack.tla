----------------------------- MODULE LayerStack -----------------------------
(***************************************************************************)
(* What a stack of OCI layers means, said without applying it: the         *)
(* reference against which the replay of RootfsReplay is checked.          *)
(*                                                                         *)
(* A path is the sequence of its components, the root the empty one.  A    *)
(* layer is a sequence of entries in archive order; an entry defines its   *)
(* path as a regular file with a payload, a directory or a symbolic link,  *)
(* or it is a whiteout: "remove" hides its path with all below it,         *)
(* "opaque" hides what is below its path, in the layers underneath.        *)
(***************************************************************************)
EXTENDS Naturals, Sequences, FiniteSets

CONSTANTS
  MaxName,       \* a component is one of 1..MaxName
  MaxTarEntries, \* limit: operations of all layers together
  MaxTarBytes,   \* limit: payload of all layers together
  MaxFileBytes,  \* limit: payload of one file
  MaxMetadata,   \* limit: what the operations of all layers reserve
  MaxLiveEntries, MaxLiveBytes \* limits: entries and bytes of the resulting tree

ASSUME LimitAssumption ==
  /\ MaxName \in Nat \ {0}
  /\ MaxTarEntries \in Nat /\ MaxTarBytes \in Nat /\ MaxFileBytes \in Nat
  /\ MaxMetadata \in Nat /\ MaxLiveEntries \in Nat /\ MaxLiveBytes \in Nat

Whiteouts == {"remove", "opaque"}
Kind == {"regular", "directory", "symlink"} \cup Whiteouts

Below(p, q) == Len(p) > Len(q) /\ SubSeq(p, 1, Len(q)) = q
Parent(p) == SubSeq(p, 1, Len(p) - 1)

\* The name an entry has in the archive.  Whiteouts hide behind marker names
\* (.wh.x and .wh..wh..opq) that sort before the ordinary ones.
ArchivePath(e) ==
  CASE e.kind = "remove" -> [i \in 1..Len(e.path) |->
                               IF i = Len(e.path) THEN e.path[i] ELSE MaxName + e.path[i]]
    [] e.kind = "opaque" -> [i \in 1..Len(e.path) |-> MaxName + e.path[i]] \o <<0>>
    [] OTHER -> [i \in 1..Len(e.path) |-> MaxName + e.path[i]]

\* What an entry reserves for the records kept of it: a constant for each, the
\* length of its name, and more for the extent of a file, the target of a link
\* and the subject of a whiteout.
Charge(e) ==
  1 + Len(ArchivePath(e)) + (IF e.kind = "directory" THEN 0 ELSE 1)
                          + (IF e.kind \in Whiteouts THEN Len(e.path) ELSE 0)

\* The order of names, component by component.  It is the order of the byte
\* strings when no component is a proper prefix of another one; like that
\* order, it puts a directory before what is below it.
Precedes(p, q) ==
  \E i \in 1..Len(q) :
    /\ \A j \in 1..(i - 1) : j <= Len(p) /\ p[j] = q[j]
    /\ i = Len(p) + 1 \/ (i <= Len(p) /\ p[i] < q[i])

StrictlyOrdered(layer) ==
  \A i \in 1..(Len(layer) - 1) : Precedes(ArchivePath(layer[i]), ArchivePath(layer[i + 1]))

-----------------------------------------------------------------------------
\* The tree of the first n layers of an image

Defines(e, p) == e.kind \notin Whiteouts /\ e.path = p

Hides(e, p) ==
  \/ e.kind = "remove" /\ (p = e.path \/ Below(p, e.path))
  \/ e.kind = "opaque" /\ Below(p, e.path)
  \/ e.kind \in {"regular", "symlink"} /\ Below(p, e.path)

InLayer(image, l) == {image[l][i] : i \in 1..Len(image[l])}

\* The layers among the first n that define p with nothing above hiding it.
Holders(image, n, p) ==
  {l \in 1..n : /\ \E e \in InLayer(image, l) : Defines(e, p)
                /\ \A m \in (l + 1)..n : \A e \in InLayer(image, m) : ~Hides(e, p)}

PathsOf(image) == UNION {{e.path : e \in InLayer(image, l)} : l \in DOMAIN image}

LivePaths(image, n) == {p \in PathsOf(image) : Holders(image, n, p) # {}}

\* The topmost of them is the one that counts.
Definition(image, n, p) ==
  LET top == CHOOSE l \in Holders(image, n, p) : \A m \in Holders(image, n, p) : m <= l
  IN CHOOSE e \in InLayer(image, top) : Defines(e, p)

Stack(image, n) == [p \in LivePaths(image, n) |-> Definition(image, n, p)]

IsDirectory(stack, p) == p = <<>> \/ (p \in DOMAIN stack /\ stack[p].kind = "directory")

OfKind(stack, k) == {p \in DOMAIN stack : stack[p].kind = k}

BytesOf(stack) ==
  Cardinality({e \in (DOMAIN stack) \X (1..MaxTarBytes) : e[2] <= Len(stack[e[1]].payload)})

Census(stack) ==
  [entries |-> Cardinality(DOMAIN stack),
   regular |-> Cardinality(OfKind(stack, "regular")),
   directory |-> Cardinality(OfKind(stack, "directory")),
   symlink |-> Cardinality(OfKind(stack, "symlink")),
   bytes |-> BytesOf(stack)]

-----------------------------------------------------------------------------
\* Which layers a stack admits on top of the first l - 1

WhiteoutsAgree(layer, lower) ==
  LET marks == {i \in 1..Len(layer) : layer[i].kind \in Whiteouts}
  IN /\ \A i, j \in marks : i # j =>
          /\ layer[i].path # layer[j].path
          /\ ~Below(layer[i].path, layer[j].path)
     /\ \A i \in marks :
          IF layer[i].kind = "remove" THEN layer[i].path \in DOMAIN lower
                                      ELSE IsDirectory(lower, layer[i].path)

Admissible(image, l) ==
  LET lower == Stack(image, l - 1)
      upper == Stack(image, l)
      layer == image[l]
      swept(p) == \E e \in InLayer(image, l) : e.kind \in Whiteouts /\ Hides(e, p)
  IN /\ StrictlyOrdered(layer)
     /\ WhiteoutsAgree(layer, lower)
     /\ \A e \in InLayer(image, l) : e.kind \notin Whiteouts =>
          /\ IsDirectory(upper, Parent(e.path))
          /\ e.kind = "directory" /\ e.path \in DOMAIN lower /\ ~swept(e.path)
               => lower[e.path].kind = "directory"
     /\ Cardinality(DOMAIN upper) <= MaxLiveEntries /\ BytesOf(upper) <= MaxLiveBytes

Volume(image) ==
  {e \in (DOMAIN image) \X (1..(MaxTarEntries + 1)) \X (1..(MaxTarBytes + 1)) :
     e[2] <= Len(image[e[1]]) /\ e[3] <= Len(image[e[1]][e[2]].payload)}

Positions(image) ==
  {e \in (DOMAIN image) \X (1..(MaxTarEntries + 1)) : e[2] <= Len(image[e[1]])}

Reservation(image) ==
  {c \in Positions(image) \X (1..(MaxMetadata + 1)) :
     c[2] <= Charge(image[c[1][1]][c[1][2]])}

\* An image that means a tree and keeps within every limit.
WellFormed(image) ==
  /\ \A l \in DOMAIN image : /\ Admissible(image, l)
                              /\ \A e \in InLayer(image, l) : Len(e.payload) <= MaxFileBytes
  /\ Cardinality(Positions(image)) <= MaxTarEntries
  /\ Cardinality(Volume(image)) <= MaxTarBytes
  /\ Cardinality(Reservation(image)) <= MaxMetadata
=============================================================================
