--------------------------- MODULE GroupTree_proofs ---------------------------
(***************************************************************************)
(* Theorems about GroupTree for any number of groups, projects and slugs   *)
(* and any MaxDepth: while one request is handled at a time, paths and     *)
(* depths agree with the parents, nothing is too deep, orphaned or named   *)
(* like its neighbour, there is no cycle, and the handlers, which decide   *)
(* from paths, implement a forest.  Two requests at a time break this (see *)
(* MC_GroupTree_concurrent.cfg), so that OneAtATime is a hypothesis of     *)
(* these theorems.  What overlapping requests cannot break are the types   *)
(* (TypeCorrect, which has no hypothesis).                                 *)
(*                                                                         *)
(* The argument is about one state: what a request is going to save, put   *)
(* into the rows there are, is again a tree whose paths agree.  For        *)
(* RewritePathsAsync this rests on two lemmas about paths: a group whose   *)
(* path begins with that of g has a parent whose path does, or which is g  *)
(* (PathUp), and the other way round (PathDown).                           *)
(***************************************************************************)
EXTENDS GroupTree, SequenceTheorems, NaturalsInduction, WellFoundedInduction, TLAPS

-----------------------------------------------------------------------------------
(* Prefixes *)

(* FullPath.StartsWith(path + "/"), place by place. *)
LEMMA PrefixPointwise ==
    ASSUME NEW s \in Seq(Slug), NEW t \in Seq(Slug)
    PROVE  IsStrictPrefix(s, t) <=> /\ Len(s) < Len(t)
                                    /\ \A i \in 1 .. Len(s) : s[i] = t[i]
<1>1. Len(s) \in Nat /\ Len(t) \in Nat
  BY LenProperties
<1>2. SubSeq(s, 1, Len(s)) = s
  BY SubSeqFull
<1>3. CASE Len(s) <= Len(t)
  <2> DEFINE u == SubSeq(t, 1, Len(s))
  <2>1. \A i \in 1 .. Len(s) : t[i] \in Slug
    BY <1>1, <1>3, LenProperties
  <2>2. u \in Seq(Slug) /\ Len(u) = Len(s) /\ \A i \in 1 .. Len(s) : u[i] = t[i]
    <3>1. /\ u \in Seq(Slug) /\ Len(u) = IF 1 <= Len(s) THEN Len(s) - 1 + 1 ELSE 0
          /\ \A i \in 1 .. Len(s) - 1 + 1 : u[i] = t[1 + i - 1]
      BY <1>1, <2>1, SubSeqProperties
    <3> QED
      BY <1>1, <3>1
  <2>3. s = u <=> \A i \in 1 .. Len(s) : s[i] = t[i]
    <3> HIDE DEF u
    <3>1. (\A i \in 1 .. Len(s) : s[i] = u[i]) => s = u
      BY <2>2, SeqEqual
    <3> QED
      BY <2>2, <3>1
  <2>4. s # t /\ s = u => Len(s) < Len(t)
    <3>1. Len(s) = Len(t) => u = t
      BY SubSeqFull
    <3> QED
      BY <1>1, <1>3, <3>1
  <2> QED
    BY <1>1, <1>2, <1>3, <2>3, <2>4 DEF IsStrictPrefix, IsPrefix
<1> QED
  BY <1>1, <1>3 DEF IsStrictPrefix, IsPrefix

(* What begins a path, with a segment to spare, is or begins the path above. *)
LEMMA PrefixOfAppend ==
    ASSUME NEW s \in Seq(Slug), NEW u \in Seq(Slug), NEW x \in Slug
    PROVE  IsStrictPrefix(s, Append(u, x)) <=> s = u \/ IsStrictPrefix(s, u)
<1> DEFINE t == Append(u, x)
<1>1. /\ t \in Seq(Slug) /\ Len(t) = Len(u) + 1
      /\ \A i \in 1 .. Len(u) : t[i] = u[i]
  BY AppendProperties
<1>2. Len(s) \in Nat /\ Len(u) \in Nat
  BY LenProperties
<1> HIDE DEF t
<1>3. IsStrictPrefix(s, t) <=> Len(s) < Len(t) /\ \A i \in 1 .. Len(s) : s[i] = t[i]
  BY <1>1, PrefixPointwise
<1>4. IsStrictPrefix(s, u) <=> Len(s) < Len(u) /\ \A i \in 1 .. Len(s) : s[i] = u[i]
  BY PrefixPointwise
<1>5. IsStrictPrefix(s, t) <=> Len(s) <= Len(u) /\ \A i \in 1 .. Len(s) : s[i] = u[i]
  BY <1>1, <1>2, <1>3
<1>6. s = u <=> Len(s) = Len(u) /\ \A i \in 1 .. Len(s) : s[i] = u[i]
  BY SeqEqual
<1> QED
  BY <1>2, <1>4, <1>5, <1>6 DEF t

(* What is left of a path below the path s. *)
Rest(s, t) == SubSeq(t, Len(s) + 1, Len(t))

(* The rest has the length that the path has more. *)
LEMMA RestProperties ==
    ASSUME NEW s \in Seq(Slug), NEW u \in Seq(Slug), s = u \/ IsStrictPrefix(s, u)
    PROVE  Rest(s, u) \in Seq(Slug) /\ Len(Rest(s, u)) = Len(u) - Len(s)
<1>1. Len(s) \in Nat /\ Len(u) \in Nat /\ Len(s) <= Len(u)
  BY LenProperties, PrefixPointwise
<1>2. \A i \in Len(s) + 1 .. Len(u) : u[i] \in Slug
  BY <1>1, LenProperties
<1>3. /\ Rest(s, u) \in Seq(Slug)
      /\ Len(Rest(s, u)) = IF Len(s) + 1 <= Len(u) THEN Len(u) - (Len(s) + 1) + 1 ELSE 0
  BY <1>1, <1>2, SubSeqProperties DEF Rest
<1> QED
  BY <1>1, <1>3

(* A new beginning for a path and for the path above it agree. *)
LEMMA RestOfAppend ==
    ASSUME NEW s \in Seq(Slug), NEW u \in Seq(Slug), NEW x \in Slug, NEW p \in Seq(Slug),
           s = u \/ IsStrictPrefix(s, u)
    PROVE  p \o Rest(s, Append(u, x)) = Append(p \o Rest(s, u), x)
<1> DEFINE t == Append(u, x)
           r == Rest(s, u)
<1>1. /\ t \in Seq(Slug) /\ Len(t) = Len(u) + 1 /\ t[Len(u) + 1] = x
      /\ \A i \in 1 .. Len(u) : t[i] = u[i]
  BY AppendProperties
<1>2. Len(s) \in Nat /\ Len(u) \in Nat /\ Len(s) <= Len(u)
  BY LenProperties, PrefixPointwise
<1>3. r \in Seq(Slug) /\ <<x>> \in Seq(Slug)
  BY RestProperties
<1> HIDE DEF t
<1>4. Rest(s, t) = r \o <<x>>
  <2>1. Rest(s, t) = SubSeq(t, Len(s) + 1, Len(u)) \o <<t[Len(u) + 1]>>
    <3>1. Len(s) + 1 \in 1 .. Len(t) /\ Len(t) \in Len(s) + 1 .. Len(t) /\ Len(t) - 1 = Len(u)
      BY <1>1, <1>2
    <3>2. SubSeq(t, Len(s) + 1, Len(t))
            = SubSeq(t, Len(s) + 1, Len(t) - 1) \o <<t[Len(t)]>>
      BY <1>1, <3>1, SubSeqRecursiveSecond
    <3> QED
      BY <1>1, <3>1, <3>2 DEF Rest
  <2>2. SubSeq(t, Len(s) + 1, Len(u)) = r
    <3> DEFINE v == SubSeq(t, Len(s) + 1, Len(u))
    <3>1. \A i \in Len(s) + 1 .. Len(u) : t[i] \in Slug /\ u[i] \in Slug
      BY <1>1, <1>2, LenProperties
    <3>2. /\ v \in Seq(Slug)
          /\ Len(v) = IF Len(s) + 1 <= Len(u) THEN Len(u) - (Len(s) + 1) + 1 ELSE 0
          /\ \A i \in 1 .. Len(u) - (Len(s) + 1) + 1 : v[i] = t[Len(s) + 1 + i - 1]
      BY <1>2, <3>1, SubSeqProperties
    <3>3. /\ r \in Seq(Slug)
          /\ Len(r) = IF Len(s) + 1 <= Len(u) THEN Len(u) - (Len(s) + 1) + 1 ELSE 0
          /\ \A i \in 1 .. Len(u) - (Len(s) + 1) + 1 : r[i] = u[Len(s) + 1 + i - 1]
      BY <1>2, <3>1, SubSeqProperties DEF Rest
    <3> HIDE DEF v, r
    <3>4. Len(v) = Len(r)
      BY <3>2, <3>3
    <3>a. ASSUME NEW i \in 1 .. Len(v) PROVE v[i] = r[i]
      <4>1. i \in 1 .. Len(u) - (Len(s) + 1) + 1 /\ Len(s) + 1 + i - 1 \in 1 .. Len(u)
        BY <1>2, <3>2
      <4>2. v[i] = t[Len(s) + 1 + i - 1] /\ r[i] = u[Len(s) + 1 + i - 1]
        BY <3>2, <3>3, <4>1
      <4> QED
        BY <1>1, <4>1, <4>2
    <3>5. v = r
      BY <3>2, <3>3, <3>4, <3>a, SeqEqual
    <3> QED
      BY <3>5 DEF v
  <2> QED
    BY <1>1, <2>1, <2>2
<1> HIDE DEF r
<1>5. p \o (r \o <<x>>) = (p \o r) \o <<x>>
  BY <1>3, ConcatAssociative
<1>6. p \o r \in Seq(Slug)
  BY <1>3, ConcatProperties
<1>7. Append(p \o r, x) = (p \o r) \o <<x>>
  BY <1>6, AppendIsConcat
<1> QED
  BY <1>4, <1>5, <1>7 DEF t, r

(* An UPDATE of a row that is still what was read makes it what was meant. *)
LEMMA RecordMerge ==
    ASSUME NEW r \in GroupRow, NEW n \in GroupRow
    PROVE  Merged(r, r, n) = n
BY DEF Merged, GroupRow
(* The same of a project. *)
LEMMA ProjectMerge ==
    ASSUME NEW r \in ProjectRow, NEW n \in ProjectRow
    PROVE  Merged(r, r, n) = n
BY DEF Merged, ProjectRow

--------------------------------------------------------------------------------
PathIn(R, parent, slug) ==
    IF parent = Root THEN <<slug>> ELSE Append(R[parent].path, slug)

DepthIn(R, parent) == IF parent = Root THEN 0 ELSE R[parent].depth + 1

GroupsIn(R) == DOMAIN R \cap Group

(* The rows R are a tree of groups whose paths and depths agree with the
   parents, and no two projects in one place have the same slug. *)
TreeOK(R) ==
    /\ RowsOK(R)
    /\ \A k \in DOMAIN R : R[k].parent \in GroupsIn(R) \cup {Root}
    /\ \A g \in GroupsIn(R) :
          /\ R[g].path = PathIn(R, R[g].parent, R[g].slug)
          /\ R[g].depth = DepthIn(R, R[g].parent)
          /\ R[g].depth = Len(R[g].path) - 1
          /\ R[g].depth \in 0 .. MaxDepth
    /\ \A g, h \in GroupsIn(R) : R[g].path = R[h].path => g = h
    /\ \A p, r \in DOMAIN R \cap Project :
          p # r => R[p].parent # R[r].parent \/ R[p].slug # R[r].slug

(* The columns of a group. *)
LEMMA GroupRows ==
    ASSUME NEW R, RowsOK(R), NEW g \in GroupsIn(R)
    PROVE  /\ R[g] \in GroupRow /\ R[g].parent \in Group \cup {Root}
           /\ R[g].slug \in Slug /\ R[g].path \in Seq(Slug) /\ R[g].depth \in Int
           /\ Len(R[g].path) \in Nat
<1>1. R[g] \in GroupRow
  BY DEF RowsOK, GroupsIn
<1> QED
  BY <1>1, LenProperties DEF GroupRow

(* What a path says of its parent's. *)
LEMMA PathUp ==
    ASSUME TreeOK(db), NEW g \in Groups, NEW d \in Below(g)
    PROVE  /\ d \in Groups /\ d # g
           /\ db[d].parent \in Groups
           /\ db[d].path = Append(db[db[d].parent].path, db[d].slug)
           /\ db[d].parent \in {g} \cup Below(g)
<1>1. d \in Groups /\ IsStrictPrefix(db[g].path, db[d].path)
  BY DEF Below
<1>2. /\ db[g].path \in Seq(Slug) /\ db[d].path \in Seq(Slug) /\ db[d].slug \in Slug
      /\ Len(db[g].path) \in Nat /\ db[g].depth = Len(db[g].path) - 1 /\ db[g].depth >= 0
  BY <1>1, GroupRows DEF TreeOK, Groups, GroupsIn
<1>3. Len(db[g].path) < Len(db[d].path) /\ Len(db[g].path) >= 1
  BY <1>1, <1>2, PrefixPointwise
<1>4. db[d].parent # Root
  <2>1. db[d].path = PathIn(db, db[d].parent, db[d].slug)
    BY <1>1 DEF TreeOK, Groups, GroupsIn
  <2>2. Len(<<db[d].slug>>) = 1
    OBVIOUS
  <2> QED
    BY <1>2, <1>3, <2>1, <2>2 DEF PathIn
<1>5. db[d].parent \in Groups /\ db[d].path = Append(db[db[d].parent].path, db[d].slug)
  BY <1>1, <1>4 DEF TreeOK, Groups, GroupsIn, PathIn
<1>6. db[db[d].parent].path \in Seq(Slug)
  BY <1>5, GroupRows DEF TreeOK, Groups, GroupsIn
<1>7. \/ db[g].path = db[db[d].parent].path
      \/ IsStrictPrefix(db[g].path, db[db[d].parent].path)
  BY <1>1, <1>2, <1>5, <1>6, PrefixOfAppend
<1>8. db[g].path = db[db[d].parent].path => g = db[d].parent
  BY <1>5 DEF TreeOK, Groups, GroupsIn
<1>9. db[d].parent \in {g} \cup Below(g)
  BY <1>5, <1>7, <1>8 DEF Below
<1>10. d # g
  BY <1>3
<1> QED
  BY <1>1, <1>5, <1>9, <1>10

(* A group under one that is rewritten is rewritten, too. *)
LEMMA PathDown ==
    ASSUME TreeOK(db), NEW g \in Groups, NEW d \in Groups, db[d].parent \in {g} \cup Below(g)
    PROVE  d \in Below(g)
<1> DEFINE p == db[d].parent
<1>1. p \in Groups /\ p # Root
  BY NamespaceAssumption DEF Below, Groups, Key
<1>2. /\ db[g].path \in Seq(Slug) /\ db[p].path \in Seq(Slug) /\ db[d].slug \in Slug
  BY <1>1, GroupRows DEF TreeOK, Groups, GroupsIn
<1>3. db[d].path = Append(db[p].path, db[d].slug)
  BY <1>1 DEF TreeOK, Groups, GroupsIn, PathIn
<1>4. db[g].path = db[p].path \/ IsStrictPrefix(db[g].path, db[p].path)
  BY DEF Below
<1> QED
  BY <1>2, <1>3, <1>4, PrefixOfAppend DEF Below

--------------------------------------------------------------------------------
(* Rows in which g has moved to parent under the name slug, with all below it. *)
MovedRows(R, g, parent, slug) ==
    /\ DOMAIN R = DOMAIN db /\ RowsOK(R)
    /\ R[g].parent = parent /\ R[g].slug = slug
    /\ R[g].path = PathIn(db, parent, slug) /\ R[g].depth = DepthIn(db, parent)
    /\ \A d \in Below(g) :
          /\ R[d].parent = db[d].parent /\ R[d].slug = db[d].slug
          /\ R[d].path = R[g].path \o Rest(db[g].path, db[d].path)
          /\ R[d].depth = db[d].depth + (DepthIn(db, parent) - db[g].depth)
    /\ \A k \in DOMAIN db \ ({g} \cup Below(g)) : R[k] = db[k]

(* What is moved stays within the limit. *)
Fits(g, parent) ==
    \A d \in {g} \cup Below(g) :
        db[d].depth + DepthIn(db, parent) - db[g].depth <= MaxDepth

(* A tree in which a subtree has moved, to a place outside of it, is a tree. *)
LEMMA MovedTree ==
    ASSUME TreeOK(db), NEW g \in Groups, NEW parent \in Groups \cup {Root}, NEW slug \in Slug,
           parent \notin {g} \cup Below(g),
           Fits(g, parent),
           NEW R, MovedRows(R, g, parent, slug), Unique(R)
    PROVE  TreeOK(R)
<1> USE NamespaceAssumption
<1>1. GroupsIn(R) = Groups /\ GroupsIn(db) = Groups /\ RowsOK(R) /\ RowsOK(db)
  BY DEF MovedRows, GroupsIn, Groups, TreeOK
<1>2. \A d \in Below(g) : d \in Groups /\ d # g
  BY PathUp
<1>3. ASSUME NEW k \in DOMAIN R
      PROVE  R[k].parent \in GroupsIn(R) \cup {Root}
  <2>1. k \in DOMAIN db /\ db[k].parent \in Groups \cup {Root}
    BY <1>1 DEF MovedRows, TreeOK
  <2> QED
    BY <1>1, <2>1 DEF MovedRows
<1>4. /\ db[g].path \in Seq(Slug) /\ Len(db[g].path) \in Nat /\ db[g].depth \in Int
      /\ db[g].depth = Len(db[g].path) - 1
  BY <1>1, GroupRows DEF TreeOK
<1>5. /\ R[g].path \in Seq(Slug) /\ Len(R[g].path) \in Nat /\ R[g].depth \in 0 .. MaxDepth
      /\ R[g].depth = Len(R[g].path) - 1 /\ R[g].depth = DepthIn(db, parent)
      /\ R[g].path = PathIn(R, parent, slug) /\ DepthIn(db, parent) = DepthIn(R, parent)
  <2>1. R[g].path \in Seq(Slug) /\ Len(R[g].path) \in Nat
    BY <1>1, GroupRows
  <2>2. parent # Root => R[parent] = db[parent]
    BY DEF MovedRows, Groups
  <2>3. R[g].path = PathIn(db, parent, slug) /\ R[g].depth = DepthIn(db, parent)
    BY DEF MovedRows
  <2>4. R[g].path = PathIn(R, parent, slug) /\ DepthIn(db, parent) = DepthIn(R, parent)
    BY <2>2, <2>3 DEF PathIn, DepthIn
  <2>5. CASE parent = Root
    <3>1. R[g].path = <<slug>> /\ R[g].depth = 0
      BY <2>3, <2>5 DEF PathIn, DepthIn
    <3>2. Len(<<slug>>) = 1
      OBVIOUS
    <3> QED
      BY <2>1, <2>3, <2>4, <3>1, <3>2
  <2>6. CASE parent # Root
    <3>1. /\ db[parent].path \in Seq(Slug) /\ Len(db[parent].path) \in Nat
          /\ db[parent].depth = Len(db[parent].path) - 1 /\ db[parent].depth \in 0 .. MaxDepth
      BY <1>1, <2>6, GroupRows DEF TreeOK
    <3>2. R[g].path = Append(db[parent].path, slug) /\ R[g].depth = db[parent].depth + 1
      BY <2>3, <2>6 DEF PathIn, DepthIn
    <3>3. Len(R[g].path) = Len(db[parent].path) + 1
      BY <3>1, <3>2, AppendProperties
    <3>4. db[g].depth + DepthIn(db, parent) - db[g].depth <= MaxDepth
      BY DEF Fits
    <3>5. R[g].depth \in 0 .. MaxDepth
      <4>1. DepthIn(db, parent) \in Int /\ DepthIn(db, parent) >= 0
        BY <2>3, <3>1, <3>2
      <4>2. DepthIn(db, parent) <= MaxDepth
        BY <1>4, <3>4, <4>1
      <4> QED
        BY <2>3, <4>1, <4>2
    <3> QED
      BY <2>1, <2>3, <2>4, <3>1, <3>2, <3>3, <3>5
  <2> QED
    BY <2>5, <2>6
<1>d. DepthIn(db, parent) - db[g].depth \in Int
  <2>1. DepthIn(db, parent) \in Int
    BY <1>5
  <2> QED
    BY <1>4, <2>1
<1>6. ASSUME NEW d \in Below(g), NEW p, p = db[d].parent
      PROVE  /\ R[d].path = PathIn(R, R[d].parent, R[d].slug)
             /\ R[d].depth = DepthIn(R, R[d].parent)
             /\ R[d].depth = Len(R[d].path) - 1
             /\ R[d].depth \in 0 .. MaxDepth
  <2>1. /\ d \in Groups /\ p \in Groups /\ p # Root /\ p \in {g} \cup Below(g)
        /\ db[d].path = Append(db[p].path, db[d].slug)
    BY <1>6, PathUp DEF Groups, Key
  <2>2. /\ db[p].path \in Seq(Slug) /\ db[d].path \in Seq(Slug) /\ db[d].slug \in Slug
        /\ Len(db[p].path) \in Nat /\ db[p].depth \in Int /\ Len(db[d].path) \in Nat
        /\ db[d].depth \in Int
    BY <1>1, <2>1, GroupRows
  <2>3. db[g].path = db[p].path \/ IsStrictPrefix(db[g].path, db[p].path)
    BY <2>1 DEF Below
  <2>4. /\ db[d].depth = db[p].depth + 1 /\ db[d].depth = Len(db[d].path) - 1
    BY <1>1, <1>6, <2>1 DEF TreeOK, DepthIn
  <2>5. /\ R[d].parent = p /\ R[d].slug = db[d].slug
        /\ R[d].path = R[g].path \o Rest(db[g].path, db[d].path)
        /\ R[d].depth = db[d].depth + (DepthIn(db, parent) - db[g].depth)
    BY <1>6 DEF MovedRows
  <2>6. R[p].path = R[g].path \o Rest(db[g].path, db[p].path)
    <3>1. CASE p = g
      <4>1. Rest(db[g].path, db[g].path) = <<>>
        BY <1>4, SubSeqEmpty DEF Rest
      <4> QED
        BY <1>5, <3>1, <4>1, ConcatEmptySeq
    <3>2. CASE p # g
      BY <2>1, <3>2 DEF MovedRows
    <3> QED
      BY <3>1, <3>2
  <2>7. R[d].path = Append(R[p].path, R[d].slug)
    <3>1. R[g].path \o Rest(db[g].path, Append(db[p].path, db[d].slug))
            = Append(R[g].path \o Rest(db[g].path, db[p].path), db[d].slug)
      <4>1. R[g].path \in Seq(Slug) /\ db[g].path \in Seq(Slug)
        BY <1>4, <1>5
      <4>2. \A s, u \in Seq(Slug) : \A x \in Slug, q \in Seq(Slug) :
               (s = u \/ IsStrictPrefix(s, u)) =>
                   q \o Rest(s, Append(u, x)) = Append(q \o Rest(s, u), x)
        BY RestOfAppend, Zenon
      <4> DEFINE s == db[g].path
                 u == db[p].path
                 x == db[d].slug
                 q == R[g].path
      <4>3. /\ s \in Seq(Slug) /\ u \in Seq(Slug) /\ x \in Slug /\ q \in Seq(Slug)
            /\ s = u \/ IsStrictPrefix(s, u)
        BY <2>2, <2>3, <4>1
      <4> HIDE DEF s, u, x, q
      <4>4. q \o Rest(s, Append(u, x)) = Append(q \o Rest(s, u), x)
        BY <4>2, <4>3
      <4> QED
        BY <4>4 DEF s, u, x, q
    <3> QED
      BY <2>1, <2>5, <2>6, <3>1
  <2>8. R[p].depth = db[p].depth + (DepthIn(db, parent) - db[g].depth)
    <3>1. CASE p = g
      BY <1>4, <1>5, <3>1
    <3>2. CASE p # g
      BY <2>1, <3>2 DEF MovedRows
    <3> QED
      BY <3>1, <3>2
  <2>9. R[d].path = PathIn(R, R[d].parent, R[d].slug)
    BY <2>1, <2>5, <2>7 DEF PathIn
  <2>10. R[d].depth = R[p].depth + 1
    <3> DEFINE delta == DepthIn(db, parent) - db[g].depth
    <3>1. delta \in Int /\ R[d].depth = db[d].depth + delta /\ R[p].depth = db[p].depth + delta
      BY <1>d, <2>5, <2>8
    <3> DEFINE x == db[p].depth
    <3>2. x \in Int /\ db[d].depth = x + 1
      BY <2>2, <2>4
    <3> HIDE DEF delta, x
    <3>3. (x + 1) + delta = (x + delta) + 1
      BY <3>1, <3>2
    <3>4. R[d].depth = (x + 1) + delta
      BY <3>1, <3>2
    <3>5. R[p].depth = x + delta
      BY <3>1 DEF x
    <3> QED
      BY <3>3, <3>4, <3>5
  <2>11. R[d].depth = DepthIn(R, R[d].parent)
    BY <2>1, <2>5, <2>10 DEF DepthIn
  <2>12. R[d].depth = Len(R[d].path) - 1
    <3>1. IsStrictPrefix(db[g].path, db[d].path)
      BY DEF Below
    <3>2. /\ Rest(db[g].path, db[d].path) \in Seq(Slug)
          /\ Len(Rest(db[g].path, db[d].path)) = Len(db[d].path) - Len(db[g].path)
      BY <1>4, <2>2, <3>1, RestProperties
    <3>3. Len(R[d].path) = Len(R[g].path) + (Len(db[d].path) - Len(db[g].path))
      <4> DEFINE rest == Rest(db[g].path, db[d].path)
      <4>1. rest \in Seq(Slug) /\ Len(rest) = Len(db[d].path) - Len(db[g].path)
        BY <3>2
      <4> HIDE DEF rest
      <4>2. Len(R[g].path \o rest) = Len(R[g].path) + Len(rest)
        <5> DEFINE s == R[g].path
        <5>1. s \in Seq(Slug)
          BY <1>5
        <5> HIDE DEF s
        <5>2. Len(s \o rest) = Len(s) + Len(rest)
          BY <4>1, <5>1, ConcatProperties
        <5> QED
          BY <5>2 DEF s
      <4> QED
        BY <2>5, <4>1, <4>2 DEF rest
    <3>4. R[d].depth = db[d].depth + (R[g].depth - db[g].depth)
      BY <1>5, <2>5
    <3> DEFINE a == Len(R[g].path)
               b == Len(db[g].path)
               c == Len(db[d].path)
    <3>5. a \in Int /\ b \in Int /\ c \in Int
      BY <1>4, <1>5, <2>2
    <3>6. R[g].depth = a - 1 /\ db[g].depth = b - 1 /\ db[d].depth = c - 1
      BY <1>4, <1>5, <2>4
    <3>7. Len(R[d].path) = a + (c - b)
      BY <3>3
    <3> HIDE DEF a, b, c
    <3>8. (c - 1) + ((a - 1) - (b - 1)) = a + (c - b) - 1
      BY <3>5
    <3> QED
      BY <3>4, <3>5, <3>6, <3>7, <3>8
  <2>13. R[d].depth <= MaxDepth
    <3>1. db[d].depth + DepthIn(db, parent) - db[g].depth <= MaxDepth
      BY DEF Fits
    <3>2. db[d].depth + DepthIn(db, parent) - db[g].depth
            = db[d].depth + (DepthIn(db, parent) - db[g].depth)
      BY <1>4, <1>5, <2>2
    <3> QED
      BY <2>5, <3>1, <3>2
  <2>14. R[d].depth >= 0
    <3>1. R[d].path \in Seq(Slug) /\ R[p].path \in Seq(Slug) /\ Len(R[p].path) \in Nat
      BY <1>1, <2>1, GroupRows
    <3>2. Len(R[d].path) = Len(R[p].path) + 1
      BY <2>2, <2>5, <2>7, <3>1, AppendProperties
    <3> QED
      BY <2>12, <3>1, <3>2
  <2>15. R[d].depth \in Int
    BY <1>d, <2>2, <2>5
  <2> QED
    BY <2>9, <2>11, <2>12, <2>13, <2>14, <2>15
<1>7. ASSUME NEW d \in Groups \ ({g} \cup Below(g))
      PROVE  /\ R[d].path = PathIn(R, R[d].parent, R[d].slug)
             /\ R[d].depth = DepthIn(R, R[d].parent)
             /\ R[d].depth = Len(R[d].path) - 1
             /\ R[d].depth \in 0 .. MaxDepth
  <2>1. R[d] = db[d]
    BY DEF MovedRows, Groups
  <2>2. db[d].parent \notin {g} \cup Below(g)
    BY PathDown
  <2>3. db[d].parent # Root => R[db[d].parent] = db[db[d].parent]
    BY <1>1, <2>2 DEF MovedRows, TreeOK, Groups
  <2>4. /\ db[d].path = PathIn(db, db[d].parent, db[d].slug)
        /\ db[d].depth = DepthIn(db, db[d].parent)
        /\ db[d].depth = Len(db[d].path) - 1
        /\ db[d].depth \in 0 .. MaxDepth
    BY <1>1 DEF TreeOK
  <2>5. /\ PathIn(R, db[d].parent, db[d].slug) = PathIn(db, db[d].parent, db[d].slug)
        /\ DepthIn(R, db[d].parent) = DepthIn(db, db[d].parent)
    BY <2>3 DEF PathIn, DepthIn
  <2> QED
    BY <2>1, <2>4, <2>5
<1>8. R[g].parent = parent /\ R[g].slug = slug
  BY DEF MovedRows
<1>9. ASSUME NEW d \in GroupsIn(R)
      PROVE  /\ R[d].path = PathIn(R, R[d].parent, R[d].slug)
             /\ R[d].depth = DepthIn(R, R[d].parent)
             /\ R[d].depth = Len(R[d].path) - 1
             /\ R[d].depth \in 0 .. MaxDepth
  <2>1. CASE d = g
    BY <1>5, <1>8, <2>1
  <2>2. CASE d # g
    BY <1>1, <1>6, <1>7, <2>2
  <2> QED
    BY <2>1, <2>2
<1>10. \A d, e \in GroupsIn(R) : R[d].path = R[e].path => d = e
  BY DEF Unique, GroupsIn
<1>11. \A p, r \in DOMAIN R \cap Project :
          p # r => R[p].parent # R[r].parent \/ R[p].slug # R[r].slug
  <2>1. \A p \in DOMAIN R \cap Project : p \in DOMAIN db \cap Project /\ R[p] = db[p]
    BY <1>2 DEF MovedRows, Groups
  <2> QED
    BY <2>1 DEF TreeOK
<1> QED
  BY <1>1, <1>3, <1>9, <1>10, <1>11 DEF TreeOK

--------------------------------------------------------------------------------
(* The rows there will be when the rows at K are replaced by the rows new. *)
After(K, new) ==
    [k \in (DOMAIN db \ K) \cup DOMAIN new |-> IF k \in DOMAIN new THEN new[k] ELSE db[k]]

Parents(R) == [g \in GroupsIn(R) |-> R[g].parent]

(* The parents after a group is added, removed, moved. *)
WithGroup(n, p)  == [m \in Groups \cup {n} |-> IF m = n THEN p ELSE db[m].parent]
WithoutGroup(n)  == [m \in Groups \ {n} |-> db[m].parent]
WithParent(n, p) == [m \in Groups |-> IF m = n THEN p ELSE db[m].parent]

(* From db to R the groups change as the nodes of a forest may. *)
ForestStep(R) ==
    \/ Parents(R) = Parents(db)
    \/ \E n \in Group \ Groups, p \in Groups \cup {Root} :
          Parents(R) = WithGroup(n, p)
    \/ \E n \in Groups :
          /\ \A m \in Groups : db[m].parent # n
          /\ Parents(R) = WithoutGroup(n)
    \/ \E n \in Groups : \E p \in (Groups \ ({n} \cup Below(n))) \cup {Root} :
          Parents(R) = WithParent(n, p)

Good(R) == ForestStep(R) /\ (Unique(R) => TreeOK(R))

TreeInv ==
    /\ TreeOK(db)
    /\ DOMAIN was = Request /\ DOMAIN now = Request
    /\ \A q \in Request : RowsOK(was[q]) /\ RowsOK(now[q])
    /\ busy \subseteq Request
    /\ \A q \in Request \ busy : was[q] = NoRows /\ now[q] = NoRows
    /\ \A q \in busy : Good(Saved(q))

(* One request is handled at a time. *)
OneAtATime == \A p, q \in Request : p = q

(* Rows stay rows. *)
LEMMA AfterRows ==
    ASSUME RowsOK(db), NEW K, NEW new, RowsOK(new)
    PROVE  RowsOK(After(K, new))
BY DEF RowsOK, After

(* What a request that has just made its queries will save. *)
LEMMA SavedIsAfter ==
    ASSUME RowsOK(db), NEW K \in SUBSET DOMAIN db, NEW new, RowsOK(new), NEW q,
           db' = db, was'[q] = Tracked(K), now'[q] = new
    PROVE  Saved(q)' = After(K, new)
<1>1. DOMAIN was'[q] = K /\ \A k \in K : was'[q][k] = db[k]
  BY DEF Tracked
<1>2. /\ Added(q)' = DOMAIN new \ K /\ Deleted(q)' = K \ DOMAIN new
      /\ Changed(q)' = {k \in K \cap DOMAIN new : db[k] # new[k]}
  BY <1>1 DEF Added, Deleted, Changed
<1>3. (DOMAIN db \cup Added(q)') \ Deleted(q)' = (DOMAIN db \ K) \cup DOMAIN new
  BY <1>2
<1>4. ASSUME NEW k \in (DOMAIN db \ K) \cup DOMAIN new
      PROVE  (IF k \in Added(q)' THEN now'[q][k]
              ELSE IF k \in Changed(q)' THEN Merged(db[k], was'[q][k], now'[q][k])
              ELSE db[k])
             = IF k \in DOMAIN new THEN new[k] ELSE db[k]
  <2>1. CASE k \in Changed(q)'
    <3>1. k \in K /\ k \in DOMAIN new /\ k \in DOMAIN db /\ k \notin Added(q)'
          /\ was'[q][k] = db[k]
      BY <1>1, <1>2, <2>1
    <3>2. Merged(db[k], db[k], new[k]) = new[k]
      <4>1. CASE k \in Group
        <5>1. db[k] \in GroupRow /\ new[k] \in GroupRow
          BY <3>1, <4>1 DEF RowsOK
        <5> QED
          BY <5>1, RecordMerge
      <4>2. CASE k \notin Group
        <5>1. db[k] \in ProjectRow /\ new[k] \in ProjectRow
          BY <3>1, <4>2 DEF RowsOK
        <5> QED
          BY <5>1, ProjectMerge
      <4> QED
        BY <4>1, <4>2
    <3> QED
      BY <2>1, <3>1, <3>2
  <2>2. CASE k \notin Changed(q)'
    BY <1>2, <2>2
  <2> QED
    BY <2>1, <2>2
<1> QED
  BY <1>3, <1>4 DEF Saved, After

(* A request that is planned on good grounds keeps the invariant. *)
LEMMA PlanInv ==
    ASSUME TreeInv, OneAtATime, NEW q \in Request, NEW K \in SUBSET DOMAIN db,
           NEW new, RowsOK(new), Good(After(K, new)), Plan(q, Tracked(K), new)
    PROVE  TreeInv'
<1>1. RowsOK(db) /\ TreeOK(db)
  BY DEF TreeInv, TreeOK
<1>2. /\ busy' = {q} /\ db' = db /\ was' = [was EXCEPT ![q] = Tracked(K)]
      /\ now' = [now EXCEPT ![q] = new]
  BY DEF TreeInv, Plan, OneAtATime
<1>3. /\ DOMAIN was' = Request /\ DOMAIN now' = Request
      /\ was'[q] = Tracked(K) /\ now'[q] = new
      /\ \A r \in Request : r = q
  BY <1>2 DEF TreeInv, OneAtATime
<1>4. RowsOK(Tracked(K))
  BY <1>1 DEF Tracked, RowsOK
<1>5. Saved(q)' = After(K, new)
  BY <1>1, <1>2, <1>3, SavedIsAfter
<1>6. Good(Saved(q))'
  <2>1. Groups' = Groups /\ \A n : Below(n)' = Below(n)
    BY <1>2 DEF Groups, Below
  <2>2. ForestStep(Saved(q))' <=> ForestStep(After(K, new))
    <3>1. /\ Parents(Saved(q))' = Parents(After(K, new)) /\ Parents(db)' = Parents(db)
      BY <1>2, <1>5 DEF Parents, GroupsIn
    <3>2. \A n : /\ WithoutGroup(n)' = WithoutGroup(n)
                 /\ \A p : /\ WithGroup(n, p)' = WithGroup(n, p)
                           /\ WithParent(n, p)' = WithParent(n, p)
      BY <1>2, <2>1 DEF WithGroup, WithoutGroup, WithParent
    <3> QED
      BY <1>2, <2>1, <3>1, <3>2 DEF ForestStep
  <2>3. Unique(Saved(q))' <=> Unique(After(K, new))
    BY <1>5
  <2>4. TreeOK(Saved(q))' <=> TreeOK(After(K, new))
    BY <1>5
  <2> QED
    BY <2>2, <2>3, <2>4 DEF Good
<1>7. TreeOK(db)'
  BY <1>1, <1>2
<1>8. \A r \in Request : RowsOK(was[r])' /\ RowsOK(now[r])'
  BY <1>3, <1>4
<1> QED
  BY <1>2, <1>3, <1>6, <1>7, <1>8 DEF TreeInv

(* So does a request that ends. *)
LEMMA DoneInv ==
    ASSUME TreeInv, OneAtATime, NEW q \in Request, q \in busy, Done(q), TreeOK(db')
    PROVE  TreeInv'
<1>1. /\ busy' = {} /\ was' = [was EXCEPT ![q] = NoRows] /\ now' = [now EXCEPT ![q] = NoRows]
  BY DEF TreeInv, Done, OneAtATime
<1>2. RowsOK(NoRows)
  BY DEF RowsOK, NoRows
<1>3. /\ DOMAIN was' = Request /\ DOMAIN now' = Request
      /\ \A r \in Request : was'[r] = NoRows /\ now'[r] = NoRows
  BY <1>1 DEF TreeInv, OneAtATime
<1>4. TreeOK(db)'
  OBVIOUS
<1> QED
  BY <1>1, <1>2, <1>3, <1>4 DEF TreeInv

--------------------------------------------------------------------------------
(* What each request is going to save *)

(* A group is added under one that exists. *)
LEMMA CreateGroupGood ==
    ASSUME TreeOK(db), NEW g \in Group, g \notin DOMAIN db,
           NEW parent \in Groups \cup {Root}, NEW slug \in Slug,
           DepthIn(db, parent) <= MaxDepth,
           NEW row, row = [parent |-> parent, slug |-> slug,
                           path |-> PathIn(db, parent, slug), depth |-> DepthIn(db, parent)],
           NEW new, new = [k \in {g} |-> row]
    PROVE  RowsOK(new) /\ Good(After({}, new))
<1> USE NamespaceAssumption
<1>1. RowsOK(db)
  BY DEF TreeOK
<1>2. /\ row.parent = parent /\ row.slug = slug /\ row.path = PathIn(db, parent, slug)
      /\ row.depth = DepthIn(db, parent)
  OBVIOUS
<1>3. /\ row.path \in Seq(Slug) /\ row.depth \in 0 .. MaxDepth
      /\ row.depth = Len(row.path) - 1
  <2>1. CASE parent = Root
    <3>1. row.path = <<slug>> /\ row.depth = 0
      BY <1>2, <2>1 DEF PathIn, DepthIn
    <3>2. <<slug>> \in Seq(Slug) /\ Len(<<slug>>) = 1
      OBVIOUS
    <3>3. 0 \in 0 .. MaxDepth /\ 0 = 1 - 1
      OBVIOUS
    <3> QED
      BY <3>1, <3>2, <3>3
  <2>2. CASE parent # Root
    <3>1. parent \in GroupsIn(db)
      BY <2>2 DEF GroupsIn, Groups
    <3>2. /\ db[parent].path \in Seq(Slug) /\ Len(db[parent].path) \in Nat
          /\ db[parent].depth = Len(db[parent].path) - 1 /\ db[parent].depth \in 0 .. MaxDepth
      BY <1>1, <3>1, GroupRows DEF TreeOK
    <3>3. /\ row.path = Append(db[parent].path, slug) /\ row.depth = db[parent].depth + 1
      BY <1>2, <2>2 DEF PathIn, DepthIn
    <3>4. /\ row.path \in Seq(Slug) /\ Len(row.path) = Len(db[parent].path) + 1
      <4> DEFINE u == db[parent].path
      <4>1. u \in Seq(Slug)
        BY <3>2
      <4> HIDE DEF u
      <4>2. Append(u, slug) \in Seq(Slug) /\ Len(Append(u, slug)) = Len(u) + 1
        BY <4>1, AppendProperties
      <4> QED
        BY <3>3, <4>2 DEF u
    <3>5. row.depth <= MaxDepth
      BY <1>2
    <3> QED
      BY <3>2, <3>3, <3>4, <3>5
  <2> QED
    BY <2>1, <2>2
<1>4. row \in GroupRow
  BY <1>3 DEF GroupRow, Groups
<1>5. RowsOK(new)
  BY <1>4 DEF RowsOK, Key
<1> DEFINE R == After({}, new)
<1>6. /\ DOMAIN R = DOMAIN db \cup {g} /\ R[g] = row
      /\ \A k \in DOMAIN db : R[k] = db[k]
  BY DEF After
<1>7. RowsOK(R)
  BY <1>1, <1>5, AfterRows
<1> HIDE DEF R
<1>8. GroupsIn(R) = Groups \cup {g} /\ GroupsIn(db) = Groups
  BY <1>6 DEF GroupsIn, Groups
<1>9. ForestStep(R)
  <2>1. Parents(R) = WithGroup(g, parent)
    BY <1>2, <1>6, <1>8 DEF Parents, Groups, WithGroup
  <2>2. g \in Group \ Groups
    BY DEF Groups
  <2> QED
    BY <2>1, <2>2 DEF ForestStep
<1>10. ASSUME Unique(R) PROVE TreeOK(R)
  <2>1. \A p \in Groups \cup {Root} : \A s : PathIn(R, p, s) = PathIn(db, p, s)
    BY <1>6 DEF PathIn, Groups
  <2>2. \A p \in Groups \cup {Root} : DepthIn(R, p) = DepthIn(db, p)
    BY <1>6 DEF DepthIn, Groups
  <2>3. \A k \in DOMAIN R : R[k].parent \in Groups \cup {Root}
    BY <1>2, <1>6, <1>8 DEF TreeOK
  <2>4. ASSUME NEW d \in GroupsIn(R)
        PROVE  /\ R[d].path = PathIn(R, R[d].parent, R[d].slug)
               /\ R[d].depth = DepthIn(R, R[d].parent)
               /\ R[d].depth = Len(R[d].path) - 1
               /\ R[d].depth \in 0 .. MaxDepth
    <3>1. CASE d = g
      BY <1>2, <1>3, <1>6, <2>1, <2>2, <3>1
    <3>2. CASE d # g
      <4>1. d \in Groups /\ R[d] = db[d]
        BY <1>6, <1>8, <3>2 DEF Groups
      <4>2. /\ db[d].path = PathIn(db, db[d].parent, db[d].slug)
            /\ db[d].depth = DepthIn(db, db[d].parent)
            /\ db[d].depth = Len(db[d].path) - 1
            /\ db[d].depth \in 0 .. MaxDepth
            /\ db[d].parent \in Groups \cup {Root}
        BY <1>8, <4>1 DEF TreeOK, GroupsIn
      <4>3. /\ PathIn(R, db[d].parent, db[d].slug) = PathIn(db, db[d].parent, db[d].slug)
            /\ DepthIn(R, db[d].parent) = DepthIn(db, db[d].parent)
        BY <2>1, <2>2, <4>2
      <4> QED
        BY <4>1, <4>2, <4>3
    <3> QED
      BY <3>1, <3>2
  <2>5. \A d, e \in GroupsIn(R) : R[d].path = R[e].path => d = e
    BY <1>10 DEF Unique, GroupsIn
  <2>6. \A p, r \in DOMAIN R \cap Project :
          p # r => R[p].parent # R[r].parent \/ R[p].slug # R[r].slug
    <3>1. \A p \in DOMAIN R \cap Project : p \in DOMAIN db \cap Project /\ R[p] = db[p]
      BY <1>6
    <3> QED
      BY <3>1 DEF TreeOK
  <2> QED
    BY <1>7, <1>8, <2>3, <2>4, <2>5, <2>6 DEF TreeOK
<1> QED
  BY <1>5, <1>9, <1>10 DEF Good, R

(* Only a row without anything under it goes. *)
LEMMA DeleteGroupGood ==
    ASSUME TreeOK(db), NEW g \in Groups, \A k \in Groups \cup Projects : db[k].parent # g
    PROVE  RowsOK(NoRows) /\ Good(After({g}, NoRows))
<1> USE NamespaceAssumption
<1> DEFINE R == After({g}, NoRows)
<1>1. DOMAIN NoRows = {} /\ RowsOK(NoRows) /\ RowsOK(db)
  BY DEF NoRows, RowsOK, TreeOK
<1>2. DOMAIN R = DOMAIN db \ {g} /\ \A k \in DOMAIN R : R[k] = db[k]
  BY <1>1 DEF After
<1>3. RowsOK(R)
  BY <1>1, AfterRows
<1> HIDE DEF R
<1>4. GroupsIn(R) = Groups \ {g} /\ GroupsIn(db) = Groups
  BY <1>2 DEF GroupsIn, Groups
<1>5. \A k \in DOMAIN db : db[k].parent # g /\ db[k].parent \in Groups \cup {Root}
  BY <1>1, <1>4 DEF TreeOK, RowsOK, Key, Groups, Projects
<1>6. ForestStep(R)
  <2>1. Parents(R) = WithoutGroup(g)
    BY <1>2, <1>4 DEF Parents, Groups, WithoutGroup
  <2>2. \A m \in Groups : db[m].parent # g
    OBVIOUS
  <2> QED
    BY <2>1, <2>2 DEF ForestStep
<1>7. TreeOK(R)
  <2>1. \A k \in DOMAIN R : R[k].parent \in GroupsIn(R) \cup {Root}
    BY <1>2, <1>4, <1>5
  <2>2. ASSUME NEW d \in GroupsIn(R)
        PROVE  /\ R[d].path = PathIn(R, R[d].parent, R[d].slug)
               /\ R[d].depth = DepthIn(R, R[d].parent)
               /\ R[d].depth = Len(R[d].path) - 1
               /\ R[d].depth \in 0 .. MaxDepth
    <3>1. d \in Groups /\ d \in DOMAIN R /\ R[d] = db[d]
      BY <1>2, <1>4 DEF GroupsIn
    <3>2. /\ db[d].path = PathIn(db, db[d].parent, db[d].slug)
          /\ db[d].depth = DepthIn(db, db[d].parent)
          /\ db[d].depth = Len(db[d].path) - 1
          /\ db[d].depth \in 0 .. MaxDepth
      BY <1>4, <3>1 DEF TreeOK
    <3>3. db[d].parent # Root => R[db[d].parent] = db[db[d].parent]
      BY <1>2, <1>4, <2>1, <3>1 DEF GroupsIn
    <3>4. /\ PathIn(R, db[d].parent, db[d].slug) = PathIn(db, db[d].parent, db[d].slug)
          /\ DepthIn(R, db[d].parent) = DepthIn(db, db[d].parent)
      BY <3>3 DEF PathIn, DepthIn
    <3> QED
      BY <3>1, <3>2, <3>4
  <2>3. \A d, e \in GroupsIn(R) : R[d].path = R[e].path => d = e
    BY <1>2, <1>4 DEF TreeOK, GroupsIn
  <2>4. \A p, r \in DOMAIN R \cap Project :
          p # r => R[p].parent # R[r].parent \/ R[p].slug # R[r].slug
    BY <1>2 DEF TreeOK
  <2> QED
    BY <1>3, <2>1, <2>2, <2>3, <2>4 DEF TreeOK
<1> QED
  BY <1>1, <1>6, <1>7 DEF Good, R

(* A project that is added or changed, at a place where it finds its name
   unused. *)
LEMMA ProjectGood ==
    ASSUME TreeOK(db), NEW p \in Project, NEW K \in SUBSET {p},
           NEW parent \in Groups \cup {Root}, NEW slug \in Slug,
           ~Sibling(Projects, parent, slug, p),
           NEW row, row = [parent |-> parent, slug |-> slug],
           NEW new, new = [k \in {p} |-> row]
    PROVE  RowsOK(new) /\ Good(After(K, new))
<1> USE NamespaceAssumption
<1> DEFINE R == After(K, new)
<1>1. row \in ProjectRow /\ row.parent = parent /\ row.slug = slug
  BY DEF ProjectRow, Groups
<1>2. RowsOK(new) /\ RowsOK(db)
  BY <1>1 DEF RowsOK, Key, TreeOK
<1>3. /\ DOMAIN R = DOMAIN db \cup {p} /\ R[p] = row
      /\ \A k \in DOMAIN db \ {p} : R[k] = db[k]
  BY DEF After
<1>4. RowsOK(R)
  BY <1>2, AfterRows
<1> HIDE DEF R
<1>5. /\ GroupsIn(R) = Groups /\ GroupsIn(db) = Groups
      /\ \A g \in Groups : g \in DOMAIN db /\ g # p /\ R[g] = db[g]
  BY <1>3 DEF GroupsIn, Groups
<1>6. ForestStep(R)
  <2>1. Parents(R) = Parents(db)
    BY <1>5 DEF Parents
  <2> QED
    BY <2>1 DEF ForestStep
<1>7. TreeOK(R)
  <2>1. \A k \in DOMAIN R : R[k].parent \in GroupsIn(R) \cup {Root}
    BY <1>1, <1>3, <1>5 DEF TreeOK
  <2>2. ASSUME NEW d \in GroupsIn(R)
        PROVE  /\ R[d].path = PathIn(R, R[d].parent, R[d].slug)
               /\ R[d].depth = DepthIn(R, R[d].parent)
               /\ R[d].depth = Len(R[d].path) - 1
               /\ R[d].depth \in 0 .. MaxDepth
    <3>1. d \in Groups /\ d \in DOMAIN R /\ R[d] = db[d]
      BY <1>3, <1>5
    <3>2. /\ db[d].path = PathIn(db, db[d].parent, db[d].slug)
          /\ db[d].depth = DepthIn(db, db[d].parent)
          /\ db[d].depth = Len(db[d].path) - 1
          /\ db[d].depth \in 0 .. MaxDepth
      BY <1>5, <3>1 DEF TreeOK
    <3>3. db[d].parent # Root => R[db[d].parent] = db[db[d].parent]
      BY <1>5, <2>1, <3>1
    <3>4. /\ PathIn(R, db[d].parent, db[d].slug) = PathIn(db, db[d].parent, db[d].slug)
          /\ DepthIn(R, db[d].parent) = DepthIn(db, db[d].parent)
      BY <3>3 DEF PathIn, DepthIn
    <3> QED
      BY <3>1, <3>2, <3>4
  <2>3. \A d, e \in GroupsIn(R) : R[d].path = R[e].path => d = e
    BY <1>5 DEF TreeOK
  <2>4. \A s, r \in DOMAIN R \cap Project :
          s # r => R[s].parent # R[r].parent \/ R[s].slug # R[r].slug
    <3>1. \A s \in (DOMAIN R \cap Project) \ {p} : s \in Projects \ {p} /\ R[s] = db[s]
      BY <1>3 DEF Projects
    <3>2. \A s \in Projects \ {p} : db[s].parent # parent \/ db[s].slug # slug
      BY DEF Sibling
    <3>3. \A s, r \in Projects : s # r => db[s].parent # db[r].parent \/ db[s].slug # db[r].slug
      BY DEF TreeOK, Projects
    <3> QED
      BY <1>1, <1>3, <3>1, <3>2, <3>3
  <2> QED
    BY <1>4, <2>1, <2>2, <2>3, <2>4 DEF TreeOK
<1> QED
  BY <1>2, <1>6, <1>7 DEF Good, R

(* new is what RewritePathsAsync makes of the group and of those below its path:
   the group has its new place, and the others go with it. *)
Rewritten(new, g, parent, slug) ==
    /\ DOMAIN new = {g} \cup Below(g)
    /\ new[g].parent = parent /\ new[g].slug = slug
    /\ new[g].path = PathUnder(parent, slug) /\ new[g].depth = DepthUnder(parent)
    /\ \A d \in Below(g) :
          /\ d # g /\ d \in Groups
          /\ new[d].parent = db[d].parent /\ new[d].slug = db[d].slug
          /\ new[d].path = PathUnder(parent, slug) \o Rest(db[g].path, db[d].path)
          /\ new[d].depth = db[d].depth + (DepthUnder(parent) - db[g].depth)

(* It saves rows, whatever the rows are that it finds. *)
LEMMA RewriteRows ==
    ASSUME RowsOK(db), NEW g \in Groups, NEW parent \in Groups \cup {Root}, NEW slug \in Slug,
           NEW q, RewritePaths(q, g, parent, slug)
    PROVE  \E new : /\ RowsOK(new) /\ Rewritten(new, g, parent, slug)
                    /\ Plan(q, Tracked({g} \cup Below(g)), new)
<1> USE NamespaceAssumption
<1> DEFINE K       == {g} \cup Below(g)
           path    == PathUnder(parent, slug)
           delta   == DepthUnder(parent) - db[g].depth
           row     == [parent |-> parent, slug |-> slug, path |-> path,
                       depth |-> DepthUnder(parent)]
           moved(d) == [db[d] EXCEPT !.path = path \o Rest(db[g].path, db[d].path),
                                     !.depth = @ + delta]
           new     == [d \in K |-> IF d = g THEN row ELSE moved(d)]
<1>1. Plan(q, Tracked(K), new)
  BY DEF RewritePaths, Rest
<1>3. /\ GroupsIn(db) = Groups
      /\ \A d \in K : d \in Groups /\ db[d] \in GroupRow
      /\ \A d \in Below(g) : d # g
  BY GroupRows DEF GroupsIn, Groups, Below, IsStrictPrefix
<1>4. /\ path \in Seq(Slug) /\ DepthUnder(parent) \in Int /\ delta \in Int
      /\ \A d \in K : Len(db[d].path) \in Nat /\ db[d].path \in Seq(Slug)
  <2>1. \A d \in Groups : db[d].path \in Seq(Slug) /\ db[d].depth \in Int /\ Len(db[d].path) \in Nat
    BY <1>3, GroupRows
  <2>2. path \in Seq(Slug)
    <3>1. CASE parent = Root
      BY <3>1 DEF PathUnder
    <3>2. CASE parent # Root
      <4> DEFINE u == db[parent].path
      <4>1. u \in Seq(Slug)
        BY <2>1, <3>2
      <4> HIDE DEF u
      <4>2. Append(u, slug) \in Seq(Slug)
        BY <4>1, AppendProperties
      <4> QED
        BY <3>2, <4>2 DEF PathUnder, u
    <3> QED
      BY <3>1, <3>2
  <2>3. DepthUnder(parent) \in Int
    BY <2>1 DEF DepthUnder
  <2> QED
    BY <1>3, <2>1, <2>2, <2>3
<1>5. row \in GroupRow /\ row.parent = parent /\ row.slug = slug /\ row.path = path
      /\ row.depth = DepthUnder(parent)
  BY <1>4 DEF GroupRow, Groups
<1>6. ASSUME NEW d \in Below(g)
      PROVE  /\ moved(d) \in GroupRow /\ moved(d).parent = db[d].parent
             /\ moved(d).slug = db[d].slug
             /\ moved(d).path = path \o Rest(db[g].path, db[d].path)
             /\ moved(d).depth = db[d].depth + delta
  <2> DEFINE x == path \o Rest(db[g].path, db[d].path)
  <2>1. Rest(db[g].path, db[d].path) \in Seq(Slug)
    <3>1. IsStrictPrefix(db[g].path, db[d].path)
      BY DEF Below
    <3> QED
      BY <1>4, <3>1, RestProperties
  <2>2. x \in Seq(Slug)
    <3> HIDE DEF path
    <3> QED
      BY <1>4, <2>1, ConcatProperties
  <2>3. db[d] \in GroupRow /\ delta \in Int
    BY <1>3, <1>4
  <2> DEFINE z  == db[d].depth + delta
             n1 == [db[d] EXCEPT !.path = x]
             n2 == [n1 EXCEPT !.depth = z]
  <2>4. z \in Int
    <3> HIDE DEF delta
    <3> QED
      BY <2>3 DEF GroupRow
  <2>5. /\ n1 \in GroupRow /\ n1.parent = db[d].parent /\ n1.slug = db[d].slug
        /\ n1.path = x /\ n1.depth = db[d].depth
    <3> HIDE DEF x
    <3> QED
      BY <2>2, <2>3 DEF GroupRow
  <2>6. moved(d) = [n1 EXCEPT !.depth = n1.depth + delta]
    BY Zenon
  <2> HIDE DEF n1, z, moved, delta
  <2>7. n2 = moved(d)
    BY <2>5, <2>6, Zenon DEF z
  <2>8. /\ n2 \in GroupRow /\ n2.parent = db[d].parent /\ n2.slug = db[d].slug
        /\ n2.path = x /\ n2.depth = z
    <3> HIDE DEF x
    <3> QED
      BY <2>4, <2>5 DEF GroupRow
  <2> HIDE DEF n2, x
  <2> QED
    BY <2>7, <2>8 DEF z, x
<1>7. /\ DOMAIN new = K /\ new[g] = row
      /\ \A d \in Below(g) : new[d] = moved(d)
  BY <1>3
<1> HIDE DEF new, row, moved
<1>8. RowsOK(new)
  <2>1. K \subseteq Group
    BY <1>3 DEF Groups
  <2>2. \A d \in K : new[d] \in GroupRow
    BY <1>5, <1>6, <1>7
  <2> QED
    BY <1>7, <2>1, <2>2 DEF RowsOK, Key
<1> HIDE DEF path, delta
<1>9. Rewritten(new, g, parent, slug)
  BY <1>3, <1>5, <1>6, <1>7 DEF Rewritten, path, delta
<1> QED
  BY <1>1, <1>8, <1>9

(* RewritePathsAsync moves the tree below g to where g goes, with every path
   and depth as it has to be there. *)
LEMMA RewriteGood ==
    ASSUME TreeOK(db), NEW g \in Groups, NEW parent \in Groups \cup {Root}, NEW slug \in Slug,
           parent \notin {g} \cup Below(g), Fits(g, parent),
           NEW q, RewritePaths(q, g, parent, slug)
    PROVE  \E new : /\ RowsOK(new) /\ Good(After({g} \cup Below(g), new))
                    /\ Plan(q, Tracked({g} \cup Below(g)), new)
<1> DEFINE K == {g} \cup Below(g)
<1>1. RowsOK(db)
  BY DEF TreeOK
<1>2. PICK new : /\ RowsOK(new) /\ Rewritten(new, g, parent, slug)
                 /\ Plan(q, Tracked(K), new)
  BY <1>1, RewriteRows
<1> DEFINE R == After(K, new)
<1>3. PathUnder(parent, slug) = PathIn(db, parent, slug) /\ DepthUnder(parent) = DepthIn(db, parent)
  BY DEF PathUnder, PathIn, DepthUnder, DepthIn
<1>4. /\ DOMAIN R = DOMAIN db /\ RowsOK(R)
      /\ \A d \in K : R[d] = new[d]
      /\ \A k \in DOMAIN db \ K : R[k] = db[k]
  <2>1. K \subseteq DOMAIN db
    BY <1>2 DEF Groups, Rewritten
  <2>2. RowsOK(R)
    BY <1>1, <1>2, AfterRows
  <2> QED
    BY <1>2, <2>1, <2>2 DEF After, Rewritten
<1> HIDE DEF R
<1>5. MovedRows(R, g, parent, slug)
  <2>1. /\ R[g].parent = parent /\ R[g].slug = slug
        /\ R[g].path = PathIn(db, parent, slug) /\ R[g].depth = DepthIn(db, parent)
    BY <1>2, <1>3, <1>4 DEF Rewritten
  <2>2. ASSUME NEW d \in Below(g)
        PROVE  /\ R[d].parent = db[d].parent /\ R[d].slug = db[d].slug
               /\ R[d].path = PathIn(db, parent, slug) \o Rest(db[g].path, db[d].path)
               /\ R[d].depth = db[d].depth + (DepthIn(db, parent) - db[g].depth)
    <3>1. /\ new[d].parent = db[d].parent /\ new[d].slug = db[d].slug
          /\ new[d].path = PathUnder(parent, slug) \o Rest(db[g].path, db[d].path)
          /\ new[d].depth = db[d].depth + (DepthUnder(parent) - db[g].depth)
      BY <1>2 DEF Rewritten
    <3>2. R[d] = new[d]
      BY <1>4
    <3> QED
      BY <1>3, <3>1, <3>2
  <2> QED
    BY <1>4, <2>1, <2>2 DEF MovedRows
<1>6. Unique(R) => TreeOK(R)
  BY <1>5, MovedTree
<1>7. ForestStep(R)
  <2>1. GroupsIn(R) = Groups
    BY <1>4 DEF GroupsIn, Groups
  <2>2. \A m \in Groups : R[m].parent = IF m = g THEN parent ELSE db[m].parent
    BY <1>2, <1>4 DEF Groups, Rewritten
  <2>3. Parents(R) = WithParent(g, parent)
    BY <2>1, <2>2 DEF Parents, WithParent
  <2>4. parent \in (Groups \ ({g} \cup Below(g))) \cup {Root}
    OBVIOUS
  <2> QED
    BY <2>3, <2>4 DEF ForestStep
<1> QED
  BY <1>2, <1>6, <1>7 DEF Good, R

--------------------------------------------------------------------------------
(* Types, however many requests overlap *)

(* An UPDATE of some columns of a group makes a group of it, whatever the row has
   become since it was read. *)
LEMMA MergedGroup ==
    ASSUME NEW r \in GroupRow, NEW o \in GroupRow, NEW n \in GroupRow
    PROVE  Merged(r, o, n) \in GroupRow
BY DEF Merged, GroupRow

(* The same of a project. *)
LEMMA MergedProject ==
    ASSUME NEW r \in ProjectRow, NEW o \in ProjectRow, NEW n \in ProjectRow
    PROVE  Merged(r, o, n) \in ProjectRow
BY DEF Merged, ProjectRow

(* What SaveChangesAsync writes over rows that another request may have changed
   in the meantime are rows. *)
LEMMA SavedRows ==
    ASSUME NEW q, RowsOK(db), RowsOK(was[q]), RowsOK(now[q]),
           Changed(q) \subseteq DOMAIN db
    PROVE  RowsOK(Saved(q))
<1>1. DOMAIN Saved(q) = (DOMAIN db \cup Added(q)) \ Deleted(q)
  BY DEF Saved
<1>2. DOMAIN Saved(q) \subseteq Key
  BY <1>1 DEF RowsOK, Added
<1>3. ASSUME NEW k \in DOMAIN Saved(q)
      PROVE  Saved(q)[k] \in IF k \in Group THEN GroupRow ELSE ProjectRow
  <2>1. CASE k \in Added(q)
    <3>1. Saved(q)[k] = now[q][k] /\ k \in DOMAIN now[q]
      BY <1>1, <2>1 DEF Saved, Added
    <3> QED
      BY <3>1 DEF RowsOK
  <2>2. CASE k \notin Added(q) /\ k \in Changed(q)
    <3>1. Saved(q)[k] = Merged(db[k], was[q][k], now[q][k])
      BY <1>1, <2>2 DEF Saved
    <3>2. k \in DOMAIN db /\ k \in DOMAIN was[q] /\ k \in DOMAIN now[q]
      BY <2>2 DEF Changed
    <3>3. CASE k \in Group
      <4>1. db[k] \in GroupRow /\ was[q][k] \in GroupRow /\ now[q][k] \in GroupRow
        BY <3>2, <3>3 DEF RowsOK
      <4> QED
        BY <3>1, <3>3, <4>1, MergedGroup
    <3>4. CASE k \notin Group
      <4>1. db[k] \in ProjectRow /\ was[q][k] \in ProjectRow /\ now[q][k] \in ProjectRow
        BY <3>2, <3>4 DEF RowsOK
      <4> QED
        BY <3>1, <3>4, <4>1, MergedProject
    <3> QED
      BY <3>3, <3>4
  <2>3. CASE k \notin Added(q) /\ k \notin Changed(q)
    <3>1. Saved(q)[k] = db[k] /\ k \in DOMAIN db
      BY <1>1, <2>3 DEF Saved
    <3> QED
      BY <3>1 DEF RowsOK
  <2> QED
    BY <2>1, <2>2, <2>3
<1> QED
  BY <1>2, <1>3 DEF RowsOK

TypeInv == TypeOK /\ DOMAIN was = Request /\ DOMAIN now = Request

(* A request that tracks rows and is going to save rows. *)
LEMMA PlanRows ==
    ASSUME TypeInv, NEW q \in Request, NEW K \in SUBSET DOMAIN db, NEW new, RowsOK(new),
           Plan(q, Tracked(K), new)
    PROVE  TypeInv'
<1>1. /\ db' = db /\ busy' = busy \cup {q}
      /\ was' = [was EXCEPT ![q] = Tracked(K)] /\ now' = [now EXCEPT ![q] = new]
  BY DEF Plan
<1>2. RowsOK(Tracked(K))
  BY DEF TypeInv, TypeOK, Tracked, RowsOK
<1>3. /\ DOMAIN was' = Request /\ DOMAIN now' = Request
      /\ was'[q] = Tracked(K) /\ now'[q] = new
      /\ \A r \in Request \ {q} : was'[r] = was[r] /\ now'[r] = now[r]
  BY <1>1 DEF TypeInv
<1>4. \A r \in Request : RowsOK(was[r]') /\ RowsOK(now[r]')
  <2> TAKE r \in Request
  <2>1. CASE r = q
    BY <1>2, <1>3, <2>1
  <2>2. CASE r # q
    BY <1>3, <2>2 DEF TypeInv, TypeOK
  <2> QED
    BY <2>1, <2>2
<1>5. RowsOK(db')
  BY <1>1 DEF TypeInv, TypeOK
<1>6. \A r \in Request : RowsOK(was[r])' /\ RowsOK(now[r])'
  BY <1>4
<1>7. RowsOK(db)'
  BY <1>5
<1> QED
  BY <1>1, <1>3, <1>6, <1>7 DEF TypeInv, TypeOK

(* A request ends, and leaves rows. *)
LEMMA DoneRows ==
    ASSUME TypeInv, NEW q \in Request, Done(q), RowsOK(db')
    PROVE  TypeInv'
<1>1. /\ busy' = busy \ {q}
      /\ was' = [was EXCEPT ![q] = NoRows] /\ now' = [now EXCEPT ![q] = NoRows]
  BY DEF Done
<1>2. RowsOK(NoRows)
  BY DEF RowsOK, NoRows
<1>3. /\ DOMAIN was' = Request /\ DOMAIN now' = Request
      /\ was'[q] = NoRows /\ now'[q] = NoRows
      /\ \A r \in Request \ {q} : was'[r] = was[r] /\ now'[r] = now[r]
  BY <1>1 DEF TypeInv
<1>4. \A r \in Request : RowsOK(was[r])' /\ RowsOK(now[r])'
  <2> TAKE r \in Request
  <2>1. CASE r = q
    BY <1>2, <1>3, <2>1
  <2>2. CASE r # q
    BY <1>3, <2>2 DEF TypeInv, TypeOK
  <2> QED
    BY <2>1, <2>2
<1>5. RowsOK(db)'
  OBVIOUS
<1> QED
  BY <1>1, <1>3, <1>4, <1>5 DEF TypeInv, TypeOK

(* Every handler plans rows from rows. *)
LEMMA RequestRows ==
    ASSUME TypeInv, NEW q \in Request, GroupRequest(q) \/ ProjectRequest(q)
    PROVE  TypeInv'
<1> USE NamespaceAssumption
<1>0. RowsOK(db) /\ GroupsIn(db) = Groups
  BY DEF TypeInv, TypeOK, GroupsIn, Groups
<1>1. \A g \in Groups : /\ g \in DOMAIN db /\ db[g].parent \in Group \cup {Root}
                        /\ db[g].slug \in Slug /\ db[g].path \in Seq(Slug)
                        /\ db[g].depth \in Int
  BY <1>0, GroupRows DEF Groups
<1>2. \A p \in Projects : p \in DOMAIN db /\ p \notin Group /\ p \in Key /\ db[p] \in ProjectRow
  BY <1>0 DEF Projects, RowsOK
<1>3. NoRows = Tracked({}) /\ RowsOK(NoRows)
  BY DEF NoRows, Tracked, RowsOK
<1>4. ASSUME NEW g \in Groups, NEW parent \in Groups \cup {Root}, NEW slug \in Slug,
             RewritePaths(q, g, parent, slug)
      PROVE  TypeInv'
  <2>1. PICK new : Plan(q, Tracked({g} \cup Below(g)), new) /\ RowsOK(new)
    BY <1>0, <1>4, RewriteRows
  <2>2. {g} \cup Below(g) \subseteq DOMAIN db
    BY <1>1 DEF Below
  <2> QED
    BY <2>1, <2>2, PlanRows
<1>5. ASSUME NEW g \in Group, NEW parent \in Group \cup {Root}, NEW slug \in Slug,
             CreateGroup(q, g, parent, slug)
      PROVE  TypeInv'
  <2> DEFINE row == [parent |-> parent, slug |-> slug, path |-> PathUnder(parent, slug),
                     depth |-> DepthUnder(parent)]
             new == [k \in {g} |-> row]
  <2>1. Plan(q, Tracked({}), new) /\ parent \in Groups \cup {Root}
    BY <1>3, <1>5 DEF CreateGroup, Exists
  <2>2. PathUnder(parent, slug) \in Seq(Slug) /\ DepthUnder(parent) \in Int
    <3>1. CASE parent = Root
      BY <3>1 DEF PathUnder, DepthUnder
    <3>2. CASE parent # Root
      <4> DEFINE u == db[parent].path
      <4>1. u \in Seq(Slug) /\ db[parent].depth \in Int
        BY <1>1, <2>1, <3>2
      <4> HIDE DEF u
      <4>2. Append(u, slug) \in Seq(Slug)
        BY <4>1, AppendProperties
      <4> QED
        BY <3>2, <4>1, <4>2 DEF PathUnder, DepthUnder, u
    <3> QED
      BY <3>1, <3>2
  <2>3. row \in GroupRow
    BY <2>2 DEF GroupRow
  <2> HIDE DEF row
  <2>4. RowsOK(new)
    BY <2>3 DEF RowsOK, Key
  <2> QED
    BY <2>1, <2>4, PlanRows
<1>6. ASSUME NEW g \in Group, NEW slug \in Slug, RenameGroup(q, g, slug)
      PROVE  TypeInv'
  <2>1. g \in Groups /\ db[g].parent \in Groups \cup {Root} /\ RewritePaths(q, g, db[g].parent, slug)
    BY <1>6 DEF RenameGroup, Exists
  <2> QED
    BY <2>1, <1>4
<1>7. ASSUME NEW g \in Group, NEW parent \in Group \cup {Root}, MoveGroup(q, g, parent)
      PROVE  TypeInv'
  <2>1. g \in Groups /\ parent \in Groups \cup {Root} /\ RewritePaths(q, g, parent, db[g].slug)
    BY <1>7 DEF MoveGroup, Exists
  <2> QED
    BY <1>1, <2>1, <1>4
<1>8. ASSUME NEW g \in Group, DeleteGroup(q, g) PROVE TypeInv'
  <2>1. {g} \subseteq DOMAIN db /\ Plan(q, Tracked({g}), NoRows)
    BY <1>1, <1>8 DEF DeleteGroup
  <2> QED
    BY <1>3, <2>1, PlanRows
<1>9. ASSUME NEW p \in Project, NEW group \in Group \cup {Root}, NEW slug \in Slug,
             CreateProject(q, p, group, slug)
      PROVE  TypeInv'
  <2> DEFINE new == [k \in {p} |-> [parent |-> group, slug |-> slug]]
  <2>1. Plan(q, Tracked({}), new)
    BY <1>3, <1>9 DEF CreateProject
  <2>2. RowsOK(new)
    BY DEF RowsOK, Key, ProjectRow
  <2> QED
    BY <2>1, <2>2, PlanRows
<1>10. ASSUME NEW p \in Project, NEW slug \in Slug, RenameProject(q, p, slug)
       PROVE  TypeInv'
  <2> DEFINE row == [db[p] EXCEPT !.slug = slug]
             new == [k \in {p} |-> row]
  <2>1. p \in Projects /\ Plan(q, Tracked({p}), new)
    BY <1>10 DEF RenameProject
  <2>2. row \in ProjectRow
    BY <1>2, <2>1 DEF ProjectRow
  <2> HIDE DEF row
  <2>3. RowsOK(new) /\ {p} \subseteq DOMAIN db
    BY <1>2, <2>1, <2>2 DEF RowsOK
  <2> QED
    BY <2>1, <2>3, PlanRows
<1>11. ASSUME NEW p \in Project, NEW group \in Group \cup {Root}, MoveProject(q, p, group)
       PROVE  TypeInv'
  <2> DEFINE row == [db[p] EXCEPT !.parent = group]
             new == [k \in {p} |-> row]
  <2>1. p \in Projects /\ Plan(q, Tracked({p}), new)
    BY <1>11 DEF MoveProject
  <2>2. row \in ProjectRow
    BY <1>2, <2>1 DEF ProjectRow
  <2> HIDE DEF row
  <2>3. RowsOK(new) /\ {p} \subseteq DOMAIN db
    BY <1>2, <2>1, <2>2 DEF RowsOK
  <2> QED
    BY <2>1, <2>3, PlanRows
<1> QED
  BY <1>5, <1>6, <1>7, <1>8, <1>9, <1>10, <1>11 DEF GroupRequest, ProjectRequest

(* Rows keep the types of their columns when requests overlap and each saves
   only the columns it has changed, over rows that it did not read; those of a
   request under way are rows too, and a request that has ended holds none
   (SaveChangesAsync of the dashboard's context). *)
THEOREM TypeCorrect == Spec => []TypeOK
<1>1. Init => TypeInv
  <2>1. RowsOK(NoRows)
    BY DEF RowsOK, NoRows
  <2>2. Init => \A q \in Request : was[q] = NoRows /\ now[q] = NoRows
    BY DEF Init
  <2> QED
    BY <2>1, <2>2 DEF Init, TypeInv, TypeOK
<1>2. TypeInv /\ [Next]_vars => TypeInv'
  <2> SUFFICES ASSUME TypeInv, [Next]_vars PROVE TypeInv'
    OBVIOUS
  <2>1. ASSUME NEW q \in Request, GroupRequest(q) \/ ProjectRequest(q) PROVE TypeInv'
    BY <2>1, RequestRows
  <2>2. ASSUME NEW q \in Request, SaveChanges(q) PROVE TypeInv'
    <3>1. db' = Saved(q) /\ Done(q) /\ Changed(q) \subseteq DOMAIN db
      BY <2>2 DEF SaveChanges
    <3>2. RowsOK(Saved(q))
      BY <3>1, SavedRows DEF TypeInv, TypeOK
    <3> QED
      BY <3>1, <3>2, DoneRows
  <2>3. ASSUME NEW q \in Request, SaveThrows(q) PROVE TypeInv'
    <3>1. Done(q) /\ db' = db /\ RowsOK(db)
      BY <2>3 DEF SaveThrows, TypeInv, TypeOK
    <3> QED
      BY <3>1, DoneRows
  <2>4. CASE UNCHANGED vars
    BY <2>4 DEF vars, TypeInv, TypeOK
  <2> QED
    BY <2>1, <2>2, <2>3, <2>4 DEF Next
<1>3. TypeInv => TypeOK
  BY DEF TypeInv
<1> QED
  BY <1>1, <1>2, <1>3, PTL DEF Spec

--------------------------------------------------------------------------------
(* The invariant *)

(* No rows are a tree. *)
LEMMA NoRowsTree == TreeOK(NoRows) /\ NoRows = Tracked({})
<1>1. DOMAIN NoRows = {}
  BY DEF NoRows
<1>2. TreeOK(NoRows)
  BY <1>1 DEF TreeOK, RowsOK, GroupsIn
<1>3. NoRows = Tracked({})
  BY DEF NoRows, Tracked
<1> QED
  BY <1>2, <1>3

(* It holds at first. *)
LEMMA TreeInvInit == Init => TreeInv
<1> SUFFICES ASSUME Init PROVE TreeInv
  OBVIOUS
<1>1. RowsOK(NoRows)
  BY NoRowsTree DEF TreeOK
<1>2. \A q \in Request : was[q] = NoRows /\ now[q] = NoRows
  BY DEF Init
<1> QED
  BY <1>1, <1>2, NoRowsTree DEF Init, TreeInv

(* Every handler, with what it has checked, plans on good grounds. *)
LEMMA RequestInv ==
    ASSUME TreeInv, OneAtATime, NEW q \in Request, GroupRequest(q) \/ ProjectRequest(q)
    PROVE  TreeInv'
<1> USE NamespaceAssumption
<1>1. TreeOK(db) /\ RowsOK(db) /\ GroupsIn(db) = Groups
  BY DEF TreeInv, TreeOK, GroupsIn, Groups
<1>2. /\ \A p \in Groups \cup {Root} : \A s : PathUnder(p, s) = PathIn(db, p, s)
      /\ \A p \in Groups \cup {Root} : DepthUnder(p) = DepthIn(db, p)
  BY DEF PathUnder, PathIn, DepthUnder, DepthIn
<1>3. ASSUME NEW g \in Groups, NEW parent \in Groups \cup {Root}, NEW slug \in Slug,
             parent \notin {g} \cup Below(g), Fits(g, parent), RewritePaths(q, g, parent, slug)
      PROVE  TreeInv'
  <2>1. PICK new : /\ RowsOK(new) /\ Good(After({g} \cup Below(g), new))
                   /\ Plan(q, Tracked({g} \cup Below(g)), new)
    BY <1>1, <1>3, RewriteGood
  <2>2. {g} \cup Below(g) \in SUBSET DOMAIN db
    BY DEF Below, Groups
  <2> QED
    BY <2>1, <2>2, PlanInv
<1>4. ASSUME NEW g \in Group, DeleteGroup(q, g)
      PROVE  TreeInv'
  <2>1. g \in Groups /\ \A k \in Groups \cup Projects : db[k].parent # g
    BY <1>4 DEF DeleteGroup
  <2>2. RowsOK(NoRows) /\ Good(After({g}, NoRows))
    BY <1>1, <2>1, DeleteGroupGood
  <2>3. {g} \in SUBSET DOMAIN db /\ Plan(q, Tracked({g}), NoRows)
    BY <1>4, <2>1 DEF DeleteGroup, Groups
  <2> QED
    BY <2>2, <2>3, PlanInv
<1>5. ASSUME NEW g \in Group, NEW slug \in Slug, RenameGroup(q, g, slug)
      PROVE  TreeInv'
  <2> DEFINE parent == db[g].parent
  <2>1. g \in Groups /\ RewritePaths(q, g, parent, slug) /\ parent \in Groups \cup {Root}
    BY <1>5 DEF RenameGroup, Exists
  <2>2. /\ db[g].path \in Seq(Slug) /\ Len(db[g].path) \in Nat /\ db[g].slug \in Slug
        /\ db[g].path = PathIn(db, parent, db[g].slug) /\ db[g].depth = DepthIn(db, parent)
        /\ db[g].depth \in Int
    BY <1>1, <2>1, GroupRows DEF TreeOK
  <2>3. parent \notin {g} \cup Below(g)
    <3>1. CASE parent = Root
      BY <2>1, <3>1 DEF Below, Groups, Key
    <3>2. CASE parent # Root
      <4>1. parent \in Groups /\ db[parent].path \in Seq(Slug) /\ Len(db[parent].path) \in Nat
            /\ db[g].path = Append(db[parent].path, db[g].slug)
        BY <1>1, <2>1, <2>2, <3>2, GroupRows DEF PathIn
      <4>2. Len(db[g].path) = Len(db[parent].path) + 1
        <5> DEFINE u == db[parent].path
                   x == db[g].slug
        <5>1. u \in Seq(Slug) /\ x \in Slug
          BY <2>2, <4>1
        <5> HIDE DEF u, x
        <5>2. Len(Append(u, x)) = Len(u) + 1
          BY <5>1, AppendProperties
        <5> QED
          BY <4>1, <5>2 DEF u, x
      <4>3. parent # g
        BY <4>1, <4>2
      <4>4. ~IsStrictPrefix(db[g].path, db[parent].path)
        <5>1. IsStrictPrefix(db[g].path, db[parent].path)
                  => Len(db[g].path) < Len(db[parent].path)
          BY <2>2, <4>1, PrefixPointwise
        <5> DEFINE i == Len(db[g].path)
                   j == Len(db[parent].path)
        <5>2. i \in Nat /\ j \in Nat /\ i = j + 1
          BY <2>2, <4>1, <4>2
        <5> HIDE DEF i, j
        <5>3. ~(i < j)
          BY <5>2
        <5> QED
          BY <5>1, <5>3 DEF i, j
      <4> QED
        BY <4>3, <4>4 DEF Below
    <3> QED
      BY <3>1, <3>2
  <2>4. Fits(g, parent)
    <3>1. ASSUME NEW d \in {g} \cup Below(g)
          PROVE  db[d].depth + DepthIn(db, parent) - db[g].depth <= MaxDepth
      <4>1. d \in Groups
        BY <2>1 DEF Below
      <4>2. db[d].depth \in 0 .. MaxDepth
        BY <1>1, <4>1 DEF TreeOK
      <4>3. db[d].depth + db[g].depth - db[g].depth = db[d].depth
        BY <2>2, <4>2
      <4> QED
        BY <2>2, <4>2, <4>3
    <3> QED
      BY <3>1 DEF Fits
  <2> QED
    BY <1>3, <2>1, <2>3, <2>4
<1>6. ASSUME NEW g \in Group, NEW parent \in Group \cup {Root}, MoveGroup(q, g, parent)
      PROVE  TreeInv'
  <2>1. /\ g \in Groups /\ parent \in Groups \cup {Root} /\ parent # g
        /\ RewritePaths(q, g, parent, db[g].slug)
    BY <1>6 DEF MoveGroup, Exists
  <2>2. db[g].slug \in Slug
    BY <1>1, <2>1, GroupRows
  <2>3. parent \notin {g} \cup Below(g)
    <3>1. Root \notin Below(g)
      BY DEF Below, Groups, Key
    <3> QED
      BY <1>6, <2>1, <3>1 DEF MoveGroup, IsDescendant
  <2>4. Fits(g, parent)
    BY <1>2, <1>6, <2>1 DEF MoveGroup, Fits
  <2> QED
    BY <1>3, <2>1, <2>2, <2>3, <2>4
<1>7. ASSUME NEW g \in Group, NEW parent \in Group \cup {Root}, NEW slug \in Slug,
             CreateGroup(q, g, parent, slug)
      PROVE  TreeInv'
  <2> DEFINE row == [parent |-> parent, slug |-> slug,
                     path |-> PathIn(db, parent, slug), depth |-> DepthIn(db, parent)]
             new == [k \in {g} |-> row]
  <2>1. g \notin DOMAIN db /\ parent \in Groups \cup {Root}
    BY <1>7 DEF CreateGroup, Unused, Exists
  <2>2. DepthIn(db, parent) <= MaxDepth
    <3>1. 0 <= MaxDepth
      OBVIOUS
    <3> QED
      BY <1>7, <3>1 DEF CreateGroup, DepthIn
  <2>3. Plan(q, Tracked({}), new)
    BY <1>2, <1>7, <2>1, NoRowsTree DEF CreateGroup
  <2>4. RowsOK(new) /\ Good(After({}, new))
    BY <1>1, <2>1, <2>2, CreateGroupGood
  <2> HIDE DEF new
  <2> QED
    BY <2>3, <2>4, PlanInv
<1>8. ASSUME NEW p \in Project, NEW K \in SUBSET {p}, K \subseteq DOMAIN db,
             NEW parent \in Groups \cup {Root}, NEW slug \in Slug,
             ~Sibling(Projects, parent, slug, p),
             NEW new, new = [k \in {p} |-> [parent |-> parent, slug |-> slug]],
             Plan(q, Tracked(K), new)
      PROVE  TreeInv'
  <2>1. RowsOK(new) /\ Good(After(K, new))
    BY <1>1, <1>8, ProjectGood
  <2> QED
    BY <1>8, <2>1, PlanInv
<1>9. ASSUME NEW p \in Projects
      PROVE  /\ db[p] \in ProjectRow /\ db[p].parent \in Groups \cup {Root}
             /\ db[p].slug \in Slug /\ {p} \subseteq DOMAIN db /\ p \in Project
  BY <1>1 DEF TreeOK, RowsOK, Projects, ProjectRow
<1>10. ASSUME NEW p \in Project, NEW slug \in Slug, RenameProject(q, p, slug)
       PROVE  TreeInv'
  <2>1. p \in Projects /\ ~Sibling(Projects, db[p].parent, slug, p)
        /\ Plan(q, Tracked({p}), [k \in {p} |-> [db[p] EXCEPT !.slug = slug]])
    BY <1>10 DEF RenameProject
  <2>2. [db[p] EXCEPT !.slug = slug] = [parent |-> db[p].parent, slug |-> slug]
    BY <1>9, <2>1 DEF ProjectRow
  <2>3. {p} \in SUBSET {p}
    OBVIOUS
  <2> QED
    BY <1>8, <1>9, <2>1, <2>2, <2>3
<1>11. ASSUME NEW p \in Project, NEW group \in Group \cup {Root}, MoveProject(q, p, group)
       PROVE  TreeInv'
  <2>1. p \in Projects /\ ~Sibling(Projects, group, db[p].slug, p) /\ group \in Groups \cup {Root}
        /\ Plan(q, Tracked({p}), [k \in {p} |-> [db[p] EXCEPT !.parent = group]])
    BY <1>11 DEF MoveProject, Exists
  <2>2. [db[p] EXCEPT !.parent = group] = [parent |-> group, slug |-> db[p].slug]
    BY <1>9, <2>1 DEF ProjectRow
  <2>3. /\ {p} \in SUBSET {p} /\ {p} \subseteq DOMAIN db /\ db[p].slug \in Slug
        /\ Plan(q, Tracked({p}), [k \in {p} |-> [parent |-> group, slug |-> db[p].slug]])
    BY <1>9, <2>1, <2>2
  <2> QED
    BY <1>8, <2>1, <2>3
<1>12. ASSUME NEW p \in Project, NEW group \in Group \cup {Root}, NEW slug \in Slug,
              CreateProject(q, p, group, slug)
       PROVE  TreeInv'
  <2>1. ~Sibling(Projects, group, slug, p) /\ group \in Groups \cup {Root}
        /\ Plan(q, Tracked({}), [k \in {p} |-> [parent |-> group, slug |-> slug]])
    BY <1>12, NoRowsTree DEF CreateProject, Exists
  <2>2. {} \in SUBSET {p} /\ {} \subseteq DOMAIN db
    OBVIOUS
  <2> QED
    BY <1>8, <2>1, <2>2
<1> QED
  BY <1>4, <1>5, <1>6, <1>7, <1>10, <1>11, <1>12 DEF GroupRequest, ProjectRequest

(* Every step keeps it. *)
LEMMA TreeInvNext ==
    ASSUME OneAtATime
    PROVE  TreeInv /\ [Next]_vars => TreeInv'
<1> SUFFICES ASSUME TreeInv, [Next]_vars PROVE TreeInv'
  OBVIOUS
<1>1. ASSUME NEW q \in Request, GroupRequest(q) \/ ProjectRequest(q) PROVE TreeInv'
  BY <1>1, RequestInv
<1>2. ASSUME NEW q \in Request, SaveChanges(q) PROVE TreeInv'
  <2>1. q \in busy /\ Done(q) /\ db' = Saved(q) /\ Unique(Saved(q))
    BY <1>2 DEF SaveChanges
  <2>2. TreeOK(Saved(q))
    BY <2>1 DEF TreeInv, Good
  <2>3. TreeOK(db')
    BY <2>1, <2>2
  <2> QED
    BY <2>1, <2>3, DoneInv
<1>3. ASSUME NEW q \in Request, SaveThrows(q) PROVE TreeInv'
  <2>1. q \in busy /\ Done(q) /\ db' = db
    BY <1>3 DEF SaveThrows
  <2>2. TreeOK(db')
    BY <2>1 DEF TreeInv
  <2> QED
    BY <2>1, <2>2, DoneInv
<1>4. CASE UNCHANGED vars
  <2>1. db' = db /\ was' = was /\ now' = now /\ busy' = busy
    BY <1>4 DEF vars
  <2>2. \A q : Saved(q)' = Saved(q)
    BY <2>1 DEF Saved, Added, Deleted, Changed
  <2>3. Groups' = Groups /\ \A n : Below(n)' = Below(n)
    BY <2>1 DEF Groups, Below
  <2>6. \A n : /\ WithoutGroup(n)' = WithoutGroup(n)
               /\ \A p : /\ WithGroup(n, p)' = WithGroup(n, p)
                         /\ WithParent(n, p)' = WithParent(n, p)
    BY <2>1, <2>3 DEF WithGroup, WithoutGroup, WithParent
  <2>4. ASSUME NEW q \in busy PROVE Good(Saved(q))'
    <3>1. Good(Saved(q))
      BY DEF TreeInv
    <3>2. ForestStep(Saved(q))' <=> ForestStep(Saved(q))
      <4>1. /\ Parents(Saved(q))' = Parents(Saved(q)) /\ Parents(db)' = Parents(db)
        BY <2>1, <2>2 DEF Parents, GroupsIn
      <4> QED
        BY <2>1, <2>3, <2>6, <4>1 DEF ForestStep
    <3> QED
      BY <2>2, <3>1, <3>2 DEF Good
  <2>5. TreeOK(db)'
    BY <2>1 DEF TreeInv
  <2> QED
    BY <2>1, <2>4, <2>5 DEF TreeInv
<1> QED
  BY <1>1, <1>2, <1>3, <1>4 DEF Next

--------------------------------------------------------------------------------
(* What the invariant says *)

(* It implies the properties that the runs check. *)
LEMMA WhatTreesAre ==
    TreeInv => PathsMatch /\ DepthBounded /\ NoOrphans /\ SiblingsDiffer
<1> SUFFICES ASSUME TreeInv PROVE PathsMatch /\ DepthBounded /\ NoOrphans /\ SiblingsDiffer
  OBVIOUS
<1>1. TreeOK(db) /\ GroupsIn(db) = Groups
  BY DEF TreeInv, GroupsIn, Groups
<1>2. PathsMatch
  BY <1>1 DEF TreeOK, PathsMatch, PathUnder, PathIn, Groups
<1>3. DepthBounded
  BY <1>1 DEF TreeOK, DepthBounded
<1>4. NoOrphans
  BY <1>1 DEF TreeOK, NoOrphans, Exists
<1>5. SiblingsDiffer
  <2>1. \A g, h \in Groups : db[g].parent = db[h].parent /\ db[g].slug = db[h].slug => g = h
    <3>1. \A g \in Groups : db[g].path = PathIn(db, db[g].parent, db[g].slug)
      BY <1>1 DEF TreeOK
    <3>2. \A g, h \in Groups : db[g].path = db[h].path => g = h
      BY <1>1 DEF TreeOK
    <3> QED
      BY <3>1, <3>2
  <2>2. \A p, r \in Projects : p # r => db[p].parent # db[r].parent \/ db[p].slug # db[r].slug
    BY <1>1 DEF TreeOK, Projects
  <2> QED
    BY <2>1, <2>2 DEF SiblingsDiffer, Sibling
<1> QED
  BY <1>2, <1>3, <1>4, <1>5

(* The rows are a tree whose paths agree with it, and what a request is going
   to save is one, or is refused by an index (GroupEndpoints, ProjectEndpoints,
   and the unique indexes of the dashboard's context). *)
THEOREM TreeInvariant ==
    ASSUME OneAtATime
    PROVE  Spec => []TreeInv
BY TreeInvInit, TreeInvNext, PTL DEF Spec

(* Every group has the path of its parent and its own slug, at any depth below a
   group that is renamed or moved (RewritePathsAsync). *)
THEOREM PathsAgree ==
    ASSUME OneAtATime
    PROVE  Spec => []PathsMatch
BY TreeInvariant, WhatTreesAre, PTL

(* No group is nested deeper than MaxDepth, whichever group above it has moved
   (GroupEndpoints.CreateAsync and MoveAsync). *)
THEOREM NeverTooDeep ==
    ASSUME OneAtATime
    PROVE  Spec => []DepthBounded
BY TreeInvariant, WhatTreesAre, PTL

(* Groups and projects are in groups that exist (GroupEndpoints.DeleteAsync). *)
THEOREM NothingIsOrphaned ==
    ASSUME OneAtATime
    PROVE  Spec => []NoOrphans
BY TreeInvariant, WhatTreesAre, PTL

(* Siblings have different slugs, at the top as well: for groups because their
   paths differ, for projects because the handlers look (ProjectEndpoints). *)
THEOREM NamesDiffer ==
    ASSUME OneAtATime
    PROVE  Spec => []SiblingsDiffer
BY TreeInvariant, WhatTreesAre, PTL

--------------------------------------------------------------------------------
(* The forest *)

(* What is below a group by the parents is below it by its path. *)
LEMMA SubtreeByPath ==
    ASSUME TreeInv, NEW n \in Groups
    PROVE  F!Subtree(n) \subseteq {n} \cup Below(n)
<1> DEFINE S == {n} \cup Below(n)
<1>1. TreeOK(db) /\ S \in SUBSET Groups /\ F!Nodes = Groups
  BY DEF TreeInv, Below, F!Nodes
<1>2. \A d \in Groups : db[d].parent \in S => d \in S
  BY <1>1, PathDown
<1>3. F!Closed(S)
  BY <1>1, <1>2 DEF F!Closed
<1> HIDE DEF S
<1>4. n \in S
  BY DEF S
<1> QED
  BY <1>1, <1>3, <1>4 DEF F!Subtree, S

(* Every step is one of the forest, or none. *)
LEMMA ForestNext ==
    ASSUME TreeInv, [Next]_vars
    PROVE  [F!Next]_([g \in Groups |-> db[g].parent])
<1> DEFINE parent == [g \in Groups |-> db[g].parent]
<1>1. Parents(db) = parent
  BY DEF Parents, GroupsIn, Groups
<1>2. ASSUME db' = db PROVE UNCHANGED parent
  BY <1>2 DEF Groups
<1>3. ASSUME NEW q \in Request, SaveChanges(q) PROVE [F!Next]_parent
  <2>1. ForestStep(db') /\ parent' = Parents(db')
    BY <1>3 DEF SaveChanges, TreeInv, Good, Parents, GroupsIn, Groups
  <2>2. CASE Parents(db') = Parents(db)
    BY <1>1, <2>1, <2>2
  <2>3. ASSUME NEW n \in Group \ Groups, NEW p \in Groups \cup {Root},
               Parents(db') = WithGroup(n, p)
        PROVE  [F!Next]_parent
    <3>1. F!Add(n, p)
      BY <2>1, <2>3 DEF F!Add, F!Nodes, WithGroup
    <3> QED
      BY <3>1 DEF F!Next, Groups
  <2>4. ASSUME NEW n \in Groups, \A m \in Groups : db[m].parent # n,
               Parents(db') = WithoutGroup(n)
        PROVE  [F!Next]_parent
    <3>1. F!Remove(n)
      BY <2>1, <2>4 DEF F!Remove, F!Nodes, WithoutGroup
    <3> QED
      BY <3>1 DEF F!Next, Groups
  <2>5. ASSUME NEW n \in Groups, NEW p \in (Groups \ ({n} \cup Below(n))) \cup {Root},
               Parents(db') = WithParent(n, p)
        PROVE  [F!Next]_parent
    <3>1. F!Move(n, p)
      BY <2>1, <2>5, SubtreeByPath DEF F!Move, F!Nodes, WithParent
    <3> QED
      BY <3>1 DEF F!Next, Groups
  <2> QED
    BY <2>1, <2>2, <2>3, <2>4, <2>5 DEF ForestStep
<1>4. CASE UNCHANGED vars
  BY <1>2, <1>4 DEF vars
<1>5. ASSUME NEW q \in Request, GroupRequest(q) \/ ProjectRequest(q) \/ SaveThrows(q)
      PROVE  db' = db
  <2>0. \A old, new : Plan(q, old, new) => db' = db
    BY DEF Plan
  <2>1. CASE GroupRequest(q)
    <3>1. ASSUME NEW g \in Group, DeleteGroup(q, g) PROVE db' = db
      BY <2>0, <3>1 DEF DeleteGroup
    <3>2. ASSUME NEW g, NEW p, NEW slug, RewritePaths(q, g, p, slug) PROVE db' = db
      BY <2>0, <3>2 DEF RewritePaths
    <3>3. ASSUME NEW g \in Group, NEW slug \in Slug, RenameGroup(q, g, slug) PROVE db' = db
      BY <3>2, <3>3 DEF RenameGroup
    <3>4. ASSUME NEW g \in Group, NEW p, MoveGroup(q, g, p) PROVE db' = db
      BY <3>2, <3>4 DEF MoveGroup
    <3>5. ASSUME NEW g \in Group, NEW p, NEW slug, CreateGroup(q, g, p, slug)
          PROVE  db' = db
      BY <2>0, <3>5 DEF CreateGroup
    <3> QED
      BY <2>1, <3>1, <3>3, <3>4, <3>5 DEF GroupRequest
  <2>2. CASE ProjectRequest(q)
    BY <2>2 DEF ProjectRequest, RenameProject, MoveProject, CreateProject, Plan
  <2>3. CASE SaveThrows(q)
    BY <2>3 DEF SaveThrows
  <2> QED
    BY <1>5, <2>1, <2>2, <2>3
<1> QED
  BY <1>2, <1>3, <1>4, <1>5 DEF Next

(* The handlers decide from paths what is a descendant, and act on a forest in
   which subtrees move whole and only leaves go (MoveAsync, DeleteAsync). *)
THEOREM GroupsAreAForest ==
    ASSUME OneAtATime
    PROVE  Spec => ImplementsForest
<1>1. Init => F!Init
  BY DEF Init, F!Init, Groups, NoRows
<1>2. TreeInv /\ [Next]_vars => [F!Next]_([g \in Groups |-> db[g].parent])
  BY ForestNext
<1> QED
  BY <1>1, <1>2, TreeInvariant, PTL DEF Spec, ImplementsForest, F!Spec

(* Of a set of groups, one is not below any other in depth. *)
LEMMA Highest ==
    ASSUME NEW S, S # {}, NEW height, \A g \in S : height[g] \in Nat
    PROVE  \E g \in S : \A h \in S : ~(height[h] < height[g])
<1> DEFINE T == {height[g] : g \in S}
           R == OpToRel(<, Nat)
<1>1. T \subseteq Nat /\ T # {}
  OBVIOUS
<1>2. IsWellFoundedOn(R, Nat)
  BY NatLessThanWellFounded
<1>3. \A i, j \in Nat : <<i, j>> \in R <=> i < j
  BY DEF OpToRel
<1> HIDE DEF T, R
<1>4. PICK i \in T : \A j \in T : ~(<<j, i>> \in R)
  BY <1>1, <1>2, WFMin
<1> QED
  BY <1>1, <1>3, <1>4 DEF T

(* The way up from every group ends: no group is under one of its descendants
   (IsDescendant in GroupEndpoints.MoveAsync). *)
THEOREM NoCycles ==
    ASSUME OneAtATime
    PROVE  Spec => []Acyclic
<1>1. TreeInv => Acyclic
  <2> SUFFICES ASSUME TreeInv, NEW S \in SUBSET Groups, S # {}
               PROVE  \E g \in S : db[g].parent \notin S
    BY DEF Acyclic
  <2>1. /\ TreeOK(db) /\ GroupsIn(db) = Groups
        /\ \A g \in Groups : db[g].depth \in Nat
    BY NamespaceAssumption DEF TreeInv, TreeOK, GroupsIn, Groups
  <2> DEFINE height == [g \in S |-> db[g].depth]
  <2>2. PICK g \in S : \A h \in S : ~(height[h] < height[g])
    <3>1. \A g \in S : height[g] \in Nat
      BY <2>1
    <3> HIDE DEF height
    <3> QED
      BY <3>1, Highest
  <2>3. CASE db[g].parent = Root
    BY <2>3, NamespaceAssumption DEF Groups, Key
  <2>4. CASE db[g].parent # Root
    <3>1. db[g].depth = db[db[g].parent].depth + 1 /\ db[g].parent \in Groups
      <4>1. g \in GroupsIn(db) /\ g \in DOMAIN db
        BY <2>1, <2>2 DEF Groups
      <4>2. db[g].parent \in Groups \cup {Root} /\ db[g].depth = DepthIn(db, db[g].parent)
        BY <2>1, <4>1 DEF TreeOK
      <4> QED
        BY <2>4, <4>2 DEF DepthIn
    <3>2. db[db[g].parent].depth < db[g].depth
      BY <2>1, <3>1
    <3> QED
      BY <2>2, <3>2
  <2> QED
    BY <2>3, <2>4
<1> QED
  BY <1>1, TreeInvariant, PTL
==============================================================================
