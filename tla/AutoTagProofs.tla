--------------------------- MODULE AutoTagProofs ---------------------------
(***************************************************************************)
(* Proofs about AutoTag and the comparison of ImageTag, for any versions.  *)
(***************************************************************************)
EXTENDS AutoTag, WellFoundedInduction, TLAPS

-----------------------------------------------------------------------------
(* Versions. *)

(* A set of naturals that is not empty has a least one, the one LeastIn    *)
(* gives.                                                                  *)
LEMMA LeastIs ==
  ASSUME NEW T, T \subseteq Nat, T # {}
  PROVE  LeastIn(T) \in T /\ \A j \in T : LeastIn(T) <= j
<1>1. PICK n \in T : \A m \in T : ~ (<<m, n>> \in OpToRel(<, Nat))
  BY WFMin, NatLessThanWellFounded, Zenon
<1>2. \A m \in T : ~(m < n)
  BY <1>1, Zenon DEF OpToRel
<1>3. n \in Nat /\ \A m \in T : m \in Nat
  BY <1>1
<1>4. \A m \in T : n <= m
  BY <1>2, <1>3
<1> QED
  BY <1>1, <1>4, Zenon DEF LeastIn

(* What a version consists of. *)
LEMMA VersionIs ==
  ASSUME NEW v \in Version
  PROVE  /\ \A i \in 1 .. 3 : v.core[i] \in Nat
         /\ v.core \in [1 .. 3 -> Nat]
         /\ v.pre \in Seq(Identifier)
         /\ Len(v.pre) \in Nat
         /\ \A i \in 1 .. Len(v.pre) : v.pre[i] \in Identifier
         /\ v = [core |-> v.core, pre |-> v.pre]
         /\ Final(v) <=> Len(v.pre) = 0
<1>1. v \in [core : [1 .. 3 -> Nat], pre : Seq(Identifier)]
  BY VersionAssumption
<1> QED
  BY <1>1 DEF Final

(* The pairs of a key. *)
LEMMA KeyIs ==
  ASSUME NEW v \in Version
  PROVE  /\ DOMAIN Key(v) = 1 .. Len(v.pre) + 4 /\ 1 .. 3 \subseteq DOMAIN Key(v)
         /\ \A i \in 1 .. 3 : Key(v)[i] = <<0, v.core[i]>>
         /\ \A i \in 1 .. Len(v.pre) : Key(v)[i + 3] = Rank(v.pre[i])
         /\ Key(v)[Len(v.pre) + 4] = <<IF Final(v) THEN 2 ELSE -1, 0>>
<1>1. Len(v.pre) \in Nat
  BY VersionIs
<1> QED
  BY <1>1 DEF Key

(* The places of a key are numbers from one on. *)
LEMMA KeyPlaces ==
  ASSUME NEW v \in Version, NEW i \in DOMAIN Key(v)
  PROVE  i \in Nat /\ i >= 1 /\ 1 .. i \subseteq DOMAIN Key(v)
<1>1. DOMAIN Key(v) = 1 .. Len(v.pre) + 4
  BY KeyIs
<1>2. Len(v.pre) \in Nat
  BY VersionIs
<1> QED
  BY <1>1, <1>2

(* Every pair of a key is one of integers. *)
LEMMA KeyType ==
  ASSUME NEW v \in Version, NEW i \in DOMAIN Key(v)
  PROVE  Key(v)[i][1] \in Int /\ Key(v)[i][2] \in Int
<1>1. i \in 1 .. 3 \/ i - 3 \in 1 .. Len(v.pre) \/ i = Len(v.pre) + 4
  BY KeyIs, VersionIs
<1>2. CASE i \in 1 .. 3
  BY <1>2, KeyIs, VersionIs
<1>3. CASE i - 3 \in 1 .. Len(v.pre)
  <2>1. Key(v)[i] = Rank(v.pre[i - 3]) /\ v.pre[i - 3] \in Identifier
    BY <1>3, KeyIs, VersionIs
  <2> QED
    BY <2>1 DEF Rank, Identifier
<1>4. CASE i = Len(v.pre) + 4
  BY <1>4, KeyIs
<1> QED
  BY <1>1, <1>2, <1>3, <1>4

(* The identifiers follow the core. *)
LEMMA IdentifierAt ==
  ASSUME NEW v \in Version, NEW i \in 1 .. Len(v.pre)
  PROVE  /\ v.pre[i] \in Identifier
         /\ i + 3 \in DOMAIN Key(v)
         /\ Key(v)[i + 3] = Rank(v.pre[i])
<1>1. Len(v.pre) \in Nat /\ v.pre[i] \in Identifier
  BY VersionIs
<1>2. i + 3 \in 1 .. Len(v.pre) + 4
  BY <1>1
<1> QED
  BY <1>1, <1>2, KeyIs

(* compareIdentifier is the order of ranks. *)
LEMMA RanksCompare ==
  ASSUME NEW x \in Identifier, NEW y \in Identifier, x # y
  PROVE  /\ compareIdentifier(x, y) \in Int
         /\ \/ compareIdentifier(x, y) < 0 /\ Below(Rank(x), Rank(y))
            \/ compareIdentifier(x, y) > 0 /\ Below(Rank(y), Rank(x))
BY DEF Identifier, compareIdentifier, Rank, Below

(* The first pair in which two versions differ, and what compareSemver     *)
(* makes of it.                                                            *)
DecidedAt(a, b, i) ==
  /\ i \in DOMAIN Key(a) \cap DOMAIN Key(b)
  /\ \A j \in 1 .. i - 1 : Key(a)[j] = Key(b)[j]
  /\ \/ compareSemver(a, b) < 0 /\ Below(Key(a)[i], Key(b)[i])
     \/ compareSemver(a, b) > 0 /\ Below(Key(b)[i], Key(a)[i])

(* Versions with different cores are told apart there. *)
LEMMA CoreDecides ==
  ASSUME NEW a \in Version, NEW b \in Version, a.core # b.core
  PROVE  compareSemver(a, b) \in Int /\ \E i \in Nat : DecidedAt(a, b, i)
<1> DEFINE differ == {i \in 1 .. 3 : a.core[i] # b.core[i]}
           i == LeastIn(differ)
<1>1. differ # {}
  BY VersionIs
<1>2. i \in differ /\ \A j \in differ : i <= j
  BY <1>1, LeastIs
<1>3. compareSemver(a, b) = a.core[i] - b.core[i]
  BY <1>1 DEF compareSemver
<1> HIDE DEF i
<1>4. \A j \in 1 .. i - 1 : j \in 1 .. 3 /\ a.core[j] = b.core[j]
  BY <1>2
<1>5. /\ a.core[i] \in Nat /\ b.core[i] \in Nat /\ a.core[i] # b.core[i]
      /\ i \in 1 .. 3
  BY <1>2, VersionIs
<1>6. Key(a)[i] = <<0, a.core[i]>> /\ Key(b)[i] = <<0, b.core[i]>>
  BY <1>5, KeyIs
<1>7. i \in DOMAIN Key(a) \cap DOMAIN Key(b)
  BY <1>5, KeyIs
<1>8. \A j \in 1 .. i - 1 : Key(a)[j] = Key(b)[j]
  BY <1>4, KeyIs
<1> QED
  BY <1>3, <1>5, <1>6, <1>7, <1>8 DEF DecidedAt, Below

(* Versions of one core agree in its three pairs. *)
LEMMA SameCore ==
  ASSUME NEW a \in Version, NEW b \in Version, a.core = b.core
  PROVE  /\ \A j \in 1 .. 3 : Key(a)[j] = Key(b)[j]
         /\ a.pre # b.pre => compareSemver(a, b) =
              IF Final(a) THEN 1 ELSE IF Final(b) THEN -1
              ELSE comparePrerelease(a.pre, b.pre)
BY KeyIs DEF compareSemver

(* So do their keys as far as their prereleases do. *)
LEMMA SamePrefix ==
  ASSUME NEW a \in Version, NEW b \in Version, a.core = b.core,
         NEW m \in Nat, m <= Len(a.pre), m <= Len(b.pre),
         \A i \in 1 .. m : a.pre[i] = b.pre[i]
  PROVE  \A j \in 1 .. m + 3 : Key(a)[j] = Key(b)[j]
<1>1. Len(a.pre) \in Nat /\ Len(b.pre) \in Nat
  BY VersionIs
<1>2. ASSUME NEW i \in 1 .. m
      PROVE  Key(a)[i + 3] = Key(b)[i + 3]
  <2>1. i \in 1 .. Len(a.pre) /\ i \in 1 .. Len(b.pre)
    BY <1>1
  <2> QED
    BY <2>1, IdentifierAt
<1>3. ASSUME NEW j \in 1 .. m + 3
      PROVE  j \in 1 .. 3 \/ \E i \in 1 .. m : j = i + 3
  <2>1. CASE j > 3
    <3>1. j - 3 \in 1 .. m /\ j = (j - 3) + 3
      BY <2>1
    <3> QED
      BY <3>1
  <2> QED
    BY <2>1
<1> QED
  BY <1>2, <1>3, SameCore

(* A release of the core comes after all its prereleases. *)
LEMMA ReleaseDecides ==
  ASSUME NEW a \in Version, NEW b \in Version, a.core = b.core, a.pre # b.pre,
         Final(a) \/ Final(b)
  PROVE  compareSemver(a, b) \in Int /\ DecidedAt(a, b, 4)
<1>1. ASSUME NEW v \in Version, NEW w \in Version, Final(v), ~Final(w)
      PROVE  4 \in DOMAIN Key(v) \cap DOMAIN Key(w) /\ Below(Key(w)[4], Key(v)[4])
  <2>1. Len(v.pre) = 0 /\ Len(w.pre) \in Nat /\ Len(w.pre) > 0
    BY <1>1, VersionIs
  <2>2. Key(v)[4] = <<2, 0>>
    BY <1>1, <2>1, KeyIs
  <2>3. Key(w)[4] = Rank(w.pre[1])
    BY <2>1, KeyIs
  <2>4. 4 \in DOMAIN Key(v) \cap DOMAIN Key(w)
    BY <2>1, KeyIs
  <2> QED
    BY <2>2, <2>3, <2>4 DEF Below, Rank
<1>2. ~(Final(a) /\ Final(b))
  BY DEF Final
<1> QED
  BY <1>1, <1>2, SameCore DEF DecidedAt

(* Prereleases of one core are told apart by their first identifiers that  *)
(* differ, or where the shorter list ends.                                 *)
LEMMA PrereleaseDecides ==
  ASSUME NEW a \in Version, NEW b \in Version, a.core = b.core, a.pre # b.pre,
         ~Final(a), ~Final(b)
  PROVE  compareSemver(a, b) \in Int /\ \E i \in Nat : DecidedAt(a, b, i)
<1> DEFINE n == LeastIn({Len(a.pre), Len(b.pre)})
           differ == {i \in 1 .. n : a.pre[i] # b.pre[i]}
           k == LeastIn(differ)
<1>1. Len(a.pre) \in Nat /\ Len(b.pre) \in Nat
  BY VersionIs
<1>2. n \in {Len(a.pre), Len(b.pre)} /\ n <= Len(a.pre) /\ n <= Len(b.pre)
  <2>1. {Len(a.pre), Len(b.pre)} \subseteq Nat /\ {Len(a.pre), Len(b.pre)} # {}
    BY <1>1
  <2> QED
    BY <2>1, LeastIs
<1>3. compareSemver(a, b) = IF differ # {} THEN compareIdentifier(a.pre[k], b.pre[k])
                            ELSE Len(a.pre) - Len(b.pre)
  BY SameCore DEF comparePrerelease
<1> HIDE DEF n
<1>4. CASE differ # {}
  <2>1. k \in differ /\ \A j \in differ : k <= j
    <3>1. differ \subseteq Nat
      BY <1>1, <1>2
    <3> QED
      BY <1>4, <3>1, LeastIs
  <2>2. compareSemver(a, b) = compareIdentifier(a.pre[k], b.pre[k])
    BY <1>3, <1>4
  <2> HIDE DEF k
  <2>3. k \in 1 .. Len(a.pre) /\ k \in 1 .. Len(b.pre) /\ a.pre[k] # b.pre[k] /\ k \in Nat
    BY <1>1, <1>2, <2>1
  <2>4. /\ a.pre[k] \in Identifier /\ b.pre[k] \in Identifier
        /\ Key(a)[k + 3] = Rank(a.pre[k]) /\ Key(b)[k + 3] = Rank(b.pre[k])
        /\ k + 3 \in DOMAIN Key(a) \cap DOMAIN Key(b)
    BY <2>3, IdentifierAt
  <2>5. \A j \in 1 .. (k + 3) - 1 : Key(a)[j] = Key(b)[j]
    <3>1. k - 1 \in Nat /\ k - 1 <= Len(a.pre) /\ k - 1 <= Len(b.pre)
      BY <1>1, <2>3
    <3>2. \A i \in 1 .. k - 1 : a.pre[i] = b.pre[i]
      BY <1>1, <1>2, <2>1, <2>3
    <3>3. (k - 1) + 3 = (k + 3) - 1
      BY <2>3
    <3> QED
      BY <3>1, <3>2, <3>3, SamePrefix
  <2>6. /\ compareSemver(a, b) \in Int
        /\ \/ compareSemver(a, b) < 0 /\ Below(Key(a)[k + 3], Key(b)[k + 3])
           \/ compareSemver(a, b) > 0 /\ Below(Key(b)[k + 3], Key(a)[k + 3])
    BY <2>2, <2>3, <2>4, RanksCompare
  <2> QED
    BY <2>3, <2>4, <2>5, <2>6 DEF DecidedAt
<1>5. CASE differ = {}
  <2>1. \A i \in 1 .. n : a.pre[i] = b.pre[i]
    BY <1>5
  <2>2. Len(a.pre) # Len(b.pre)
    BY <1>1, <1>2, <2>1, VersionIs
  <2>3. n \in Nat /\ compareSemver(a, b) = Len(a.pre) - Len(b.pre)
    BY <1>1, <1>2, <1>3, <1>5
  <2> HIDE DEF differ, k
  <2>4. \A j \in 1 .. (n + 4) - 1 : Key(a)[j] = Key(b)[j]
    <3>1. (n + 4) - 1 = n + 3
      BY <2>3
    <3> QED
      BY <1>2, <2>1, <2>3, <3>1, SamePrefix
  <2>5. \A x, y \in Nat : /\ x - y \in Int
                          /\ x < y => x - y < 0
                          /\ y < x => x - y > 0
    OBVIOUS
  <2>6. ASSUME NEW v \in Version, NEW w \in Version, ~Final(v), n = Len(v.pre), n < Len(w.pre)
        PROVE  /\ n + 4 \in DOMAIN Key(v) \cap DOMAIN Key(w)
               /\ Below(Key(v)[n + 4], Key(w)[n + 4])
    <3>1. Key(v)[n + 4] = <<-1, 0>>
      BY <2>6, KeyIs
    <3>2. (n + 1) + 3 = n + 4
      BY <2>3
    <3>3. Key(w)[n + 4] = Rank(w.pre[n + 1]) /\ n + 4 \in DOMAIN Key(w)
      <4>1. n + 1 \in 1 .. Len(w.pre)
        BY <2>3, <2>6, VersionIs
      <4> QED
        BY <3>2, <4>1, IdentifierAt
    <3>4. n + 4 \in DOMAIN Key(v)
      BY <2>3, <2>6, KeyIs
    <3> QED
      BY <3>1, <3>3, <3>4 DEF Below, Rank
  <2>7. /\ compareSemver(a, b) \in Int
        /\ n + 4 \in DOMAIN Key(a) \cap DOMAIN Key(b)
        /\ \/ compareSemver(a, b) < 0 /\ Below(Key(a)[n + 4], Key(b)[n + 4])
           \/ compareSemver(a, b) > 0 /\ Below(Key(b)[n + 4], Key(a)[n + 4])
    <3>1. CASE n = Len(a.pre) /\ n < Len(b.pre)
      <4>1. /\ n + 4 \in DOMAIN Key(a) \cap DOMAIN Key(b)
            /\ Below(Key(a)[n + 4], Key(b)[n + 4])
        BY <2>6, <3>1
      <4>2. compareSemver(a, b) \in Int /\ compareSemver(a, b) < 0
        BY <1>1, <2>3, <2>5, <3>1, Zenon
      <4> QED
        BY <4>1, <4>2
    <3>2. CASE n = Len(b.pre) /\ n < Len(a.pre)
      <4>1. /\ n + 4 \in DOMAIN Key(b) \cap DOMAIN Key(a)
            /\ Below(Key(b)[n + 4], Key(a)[n + 4])
        BY <2>6, <3>2
      <4>2. compareSemver(a, b) \in Int /\ compareSemver(a, b) > 0
        BY <1>1, <2>3, <2>5, <3>2, Zenon
      <4> QED
        BY <4>1, <4>2
    <3> QED
      BY <1>1, <1>2, <2>2, <3>1, <3>2
  <2>8. n + 4 \in Nat
    BY <2>3
  <2> QED
    BY <2>4, <2>7, <2>8 DEF DecidedAt
<1> QED
  BY <1>4, <1>5

(* Two versions that are not the same differ somewhere, and the first      *)
(* place decides.                                                          *)
LEMMA Decided ==
  ASSUME NEW a \in Version, NEW b \in Version, a # b
  PROVE  compareSemver(a, b) \in Int /\ \E i \in Nat : DecidedAt(a, b, i)
<1>1. a.core # b.core \/ a.pre # b.pre
  BY VersionIs
<1> QED
  BY <1>1, CoreDecides, ReleaseDecides, PrereleaseDecides

(* compareSemver is the order of keys, and only a version itself is its    *)
(* equal.                                                                  *)
LEMMA SemverIs ==
  ASSUME NEW a \in Version, NEW b \in Version
  PROVE  /\ compareSemver(a, b) \in Int
         /\ compareSemver(a, b) < 0 <=> Before(Key(a), Key(b))
         /\ compareSemver(a, b) > 0 <=> Before(Key(b), Key(a))
         /\ compareSemver(a, b) = 0 <=> a = b
<1>1. CASE a = b
  <2>1. compareSemver(a, b) = 0
    BY <1>1 DEF compareSemver
  <2>2. ~Before(Key(a), Key(a))
    BY KeyType DEF Before, Below
  <2> QED
    BY <1>1, <2>1, <2>2
<1>2. CASE a # b
  <2>1. PICK i \in Nat : DecidedAt(a, b, i)
    BY <1>2, Decided
  <2>2. compareSemver(a, b) \in Int
    BY <1>2, Decided
  <2>3. i \in DOMAIN Key(a) /\ i \in DOMAIN Key(b) /\ \A j \in 1 .. i - 1 : Key(a)[j] = Key(b)[j]
    BY <2>1 DEF DecidedAt
  <2>4. ASSUME NEW v \in Version, NEW w \in Version, i \in DOMAIN Key(v), i \in DOMAIN Key(w),
               \A j \in 1 .. i - 1 : Key(v)[j] = Key(w)[j], Below(Key(v)[i], Key(w)[i])
        PROVE  Before(Key(v), Key(w)) /\ ~Before(Key(w), Key(v))
    <3>1. Before(Key(v), Key(w))
      BY <2>4 DEF Before
    <3>2. ASSUME NEW k \in DOMAIN Key(w) \cap DOMAIN Key(v), Below(Key(w)[k], Key(v)[k]),
                 \A j \in 1 .. k - 1 : Key(w)[j] = Key(v)[j]
          PROVE  FALSE
      <4>1. k \in Nat \ {0} /\ i \in Nat \ {0}
        BY <2>4, KeyPlaces
      <4>2. CASE k < i
        <5>1. Key(v)[k] = Key(w)[k]
          BY <2>4, <4>1, <4>2
        <5> QED
          BY <3>2, <5>1, KeyType DEF Below
      <4>3. CASE i < k
        <5>1. Key(v)[i] = Key(w)[i]
          BY <3>2, <4>1, <4>3
        <5> QED
          BY <2>4, <5>1, KeyType DEF Below
      <4>4. CASE i = k
        BY <2>4, <3>2, <4>4, KeyType DEF Below
      <4> QED
        BY <4>1, <4>2, <4>3, <4>4
    <3> QED
      BY <3>1, <3>2 DEF Before
  <2>5. CASE compareSemver(a, b) < 0 /\ Below(Key(a)[i], Key(b)[i])
    BY <1>2, <2>2, <2>3, <2>4, <2>5
  <2>6. CASE compareSemver(a, b) > 0 /\ Below(Key(b)[i], Key(a)[i])
    BY <1>2, <2>2, <2>3, <2>4, <2>6
  <2> QED
    BY <2>1, <2>5, <2>6 DEF DecidedAt
<1> QED
  BY <1>1, <1>2

(* The order of keys is transitive.                                        *)
LEMMA BeforeTransitive ==
  ASSUME NEW a \in Version, NEW b \in Version, NEW c \in Version,
         Before(Key(a), Key(b)), Before(Key(b), Key(c))
  PROVE  Before(Key(a), Key(c))
<1>1. PICK i \in DOMAIN Key(a) \cap DOMAIN Key(b) :
        Below(Key(a)[i], Key(b)[i]) /\ \A j \in 1 .. i - 1 : Key(a)[j] = Key(b)[j]
  BY DEF Before
<1>2. PICK k \in DOMAIN Key(b) \cap DOMAIN Key(c) :
        Below(Key(b)[k], Key(c)[k]) /\ \A j \in 1 .. k - 1 : Key(b)[j] = Key(c)[j]
  BY DEF Before
<1>3. i \in Nat \ {0} /\ k \in Nat \ {0}
  BY KeyPlaces
<1>4. ASSUME NEW v \in Version, NEW m \in DOMAIN Key(v), NEW j \in 1 .. m
      PROVE  j \in DOMAIN Key(v)
  BY <1>4, KeyPlaces
<1>5. CASE i <= k
  <2>1. i \in DOMAIN Key(a) \cap DOMAIN Key(c)
    BY <1>3, <1>4, <1>5
  <2>2. \A j \in 1 .. i - 1 : Key(a)[j] = Key(c)[j]
    BY <1>1, <1>2, <1>3, <1>5
  <2>3. Below(Key(a)[i], Key(c)[i])
    <3>1. CASE i = k
      BY <1>1, <1>2, <3>1, KeyType DEF Below
    <3>2. CASE i < k
      BY <1>1, <1>2, <1>3, <3>2
    <3> QED
      BY <1>3, <1>5, <3>1, <3>2
  <2> QED
    BY <2>1, <2>2, <2>3 DEF Before
<1>6. CASE k < i
  <2>1. k \in DOMAIN Key(a) \cap DOMAIN Key(c)
    BY <1>3, <1>4, <1>6
  <2>2. \A j \in 1 .. k - 1 : Key(a)[j] = Key(c)[j]
    BY <1>1, <1>2, <1>3, <1>6
  <2>3. Below(Key(a)[k], Key(c)[k])
    BY <1>1, <1>2, <1>3, <1>6
  <2> QED
    BY <2>1, <2>2, <2>3 DEF Before
<1> QED
  BY <1>3, <1>5, <1>6

(* What is not older than a version that is not older than a third is not  *)
(* older than the third.                                                   *)
LEMMA NotOlder ==
  ASSUME NEW a \in Version, NEW b \in Version, NEW c \in Version,
         compareSemver(a, b) >= 0, compareSemver(b, c) >= 0
  PROVE  compareSemver(a, c) >= 0
<1>1. CASE a = b \/ b = c
  BY <1>1
<1>2. CASE a # b /\ b # c
  <2>1. Before(Key(b), Key(a)) /\ Before(Key(c), Key(b))
    BY <1>2, SemverIs
  <2>2. compareSemver(a, c) > 0
    BY <2>1, BeforeTransitive, SemverIs
  <2> QED
    BY <2>2, SemverIs
<1> QED
  BY <1>1, <1>2

-----------------------------------------------------------------------------
(* The choices. *)

(* What a start chooses: a version, never older than the floor nor than    *)
(* what is saved, and what is saved while that is not older than the       *)
(* floor.                                                                  *)
LEMMA StartChooses ==
  ASSUME NEW kept \in Version \cup {None}, NEW least \in Version, NEW latest \in Released
  PROVE  LET tag == resolveAutoTag(kept, least, latest)
         IN /\ tag \in Version /\ compareSemver(tag, least) >= 0
            /\ kept # None => compareSemver(tag, kept) >= 0
            /\ kept # None /\ compareSemver(kept, least) >= 0 => tag = kept
<1> DEFINE tag == resolveAutoTag(kept, least, latest)
<1>1. tag \in Version /\ compareSemver(tag, least) >= 0
  <2>1. compareSemver(least, least) >= 0
    BY SemverIs
  <2> QED
    BY <2>1 DEF resolveAutoTag, isConcreteSemver
<1>2. ASSUME kept # None, compareSemver(kept, least) >= 0
      PROVE  tag = kept
  BY <1>2 DEF resolveAutoTag, isConcreteSemver
<1>3. ASSUME kept # None
      PROVE  compareSemver(tag, kept) >= 0
  <2>1. CASE compareSemver(kept, least) >= 0
    BY <1>2, <1>3, <2>1, SemverIs
  <2>2. CASE ~(compareSemver(kept, least) >= 0)
    <3>1. kept \in Version
      BY <1>3
    <3>2. compareSemver(least, kept) >= 0
      BY <2>2, <3>1, SemverIs
    <3> HIDE DEF tag
    <3> QED
      BY <1>1, <3>1, <3>2, NotOlder
  <2> QED
    BY <2>1, <2>2
<1> QED
  BY <1>1, <1>2, <1>3

(* What a check chooses: nothing, or a newer version of the same major.    *)
LEMMA CheckChooses ==
  ASSUME NEW current \in Version \cup {None}, NEW latest \in Released, NEW missed,
         pickServerUpdate(current, latest, missed) # None
  PROVE  LET tag == pickServerUpdate(current, latest, missed)
         IN /\ tag \in Version /\ current \in Version
            /\ compareSemver(tag, current) >= 0
            /\ majorOf(tag) = majorOf(current)
<1>1. /\ isConcreteSemver(latest) /\ isConcreteSemver(current)
      /\ compareSemver(latest, current) > 0 /\ majorOf(latest) = majorOf(current)
      /\ pickServerUpdate(current, latest, missed) = latest
  BY DEF pickServerUpdate
<1> QED
  BY <1>1, SemverIs DEF isConcreteSemver

-----------------------------------------------------------------------------
(* The types, and the server of a started plugin is not older than the     *)
(* floor: what a start that keeps the saved version relies on.             *)
RunsAtFloor == started => compareSemver(running, floor) >= 0

TagInv == TypeOK /\ RunsAtFloor

(* A start takes what it chose, which is not older than the floor.         *)
LEMMA BootStep ==
  ASSUME TagInv, Boot
  PROVE  /\ TagInv'
         /\ running # None /\ persisted = running
              => /\ compareSemver(running', running) >= 0
                 /\ started => running' = running
<1>1. PICK latest \in Released :
        LET tag == resolveAutoTag(persisted, floor, latest)
        IN /\ running' = tag /\ started' = TRUE /\ failed' = {}
           /\ persisted' \in {tag, persisted}
           /\ UNCHANGED floor
  BY DEF Boot
<1>2. /\ running' \in Version /\ compareSemver(running', floor) >= 0
      /\ persisted # None => compareSemver(running', persisted) >= 0
      /\ persisted # None /\ compareSemver(persisted, floor) >= 0 => running' = persisted
  BY <1>1, StartChooses DEF TagInv, TypeOK
<1>3. running' # None
  BY <1>2, TagAssumption
<1> QED
  BY <1>1, <1>2, <1>3 DEF TagInv, TypeOK, RunsAtFloor

(* A check takes a newer release of the major, or notes that it failed.    *)
LEMMA CheckStep ==
  ASSUME TagInv, Check
  PROVE  /\ TagInv'
         /\ compareSemver(running', running) >= 0
         /\ majorOf(running') = majorOf(running)
<1>1. PICK latest \in Released :
        LET tag == pickServerUpdate(running, latest, failed)
        IN /\ tag # None
           /\ \/ /\ running' = tag /\ persisted' \in {tag, persisted}
                 /\ UNCHANGED failed
              \/ failed' = failed \cup {tag} /\ UNCHANGED <<running, persisted>>
  BY DEF Check
<1> DEFINE tag == pickServerUpdate(running, latest, failed)
<1>2. /\ tag \in Version /\ running \in Version
      /\ compareSemver(tag, running) >= 0 /\ majorOf(tag) = majorOf(running)
  BY <1>1, CheckChooses DEF TagInv, TypeOK
<1>3. tag # None /\ running' \in {tag, running} /\ persisted' \in {tag, persisted}
  BY <1>1
<1>4. failed' \subseteq failed \cup {tag}
  BY <1>1
<1> HIDE DEF tag
<1>5. started /\ UNCHANGED <<floor, started>>
  BY DEF Check
<1>6. running' \in Version /\ compareSemver(running', running) >= 0
      /\ majorOf(running') = majorOf(running)
  BY <1>2, <1>3, SemverIs
<1>7. compareSemver(running', floor) >= 0
  BY <1>2, <1>5, <1>6, NotOlder DEF TagInv, TypeOK, RunsAtFloor
<1>8. running' # None
  BY <1>6, TagAssumption
<1> QED
  BY <1>2, <1>3, <1>4, <1>5, <1>6, <1>7, <1>8 DEF TagInv, TypeOK, RunsAtFloor

(* An upgrade moves the floor and leaves the server until the next start.  *)
LEMMA UpgradeStep ==
  ASSUME TagInv, Upgrade
  PROVE  TagInv' /\ ~started' /\ UNCHANGED running
BY DEF TagInv, TypeOK, RunsAtFloor, Upgrade

(* Every step keeps TagInv.                                                *)
LEMMA TagInvStep ==
  ASSUME TagInv, [Next]_vars
  PROVE  TagInv'
<1>1. CASE UNCHANGED vars
  BY <1>1 DEF vars, TagInv, TypeOK, RunsAtFloor
<1> QED
  BY <1>1, BootStep, CheckStep, UpgradeStep DEF Next

(* TagInv holds throughout.                                                *)
LEMMA TagInvHolds ==
  Spec => []TagInv
<1>1. Init => TagInv
  BY DEF Init, TagInv, TypeOK, RunsAtFloor
<1> QED
  BY <1>1, TagInvStep, PTL DEF Spec

(* The tag that "auto" stands for is a version or none, at every time.     *)
THEOREM TagTypeCorrect ==
  Spec => []TypeOK
BY TagInvHolds, PTL DEF TagInv

(* compareSemver agrees with the order of SemVer on all versions, whatever *)
(* their numbers and however long their prereleases: what the choice at a  *)
(* start and the one of a check rely on.                                   *)
THEOREM SemverIsOrdered ==
  Spec => []SemverOrder
<1>1. ASSUME TagInv
      PROVE  SemverOrder
  BY <1>1, SemverIs DEF TagInv, TypeOK, SemverOrder
<1> QED
  BY <1>1, TagInvHolds, PTL

(* A server whose version is saved moves up only, within its major unless  *)
(* the plugin is upgraded, and is never older than the floor of a started  *)
(* plugin: resolveAutoTag keeps what is saved and not below the floor, and *)
(* pickServerUpdate takes what is newer.                                   *)
THEOREM VersionsMoveUp ==
  Spec => VersionMovesUp
<1>1. ASSUME TagInv, [Next]_vars
      PROVE  [/\ started' => compareSemver(running', floor') >= 0
              /\ running # None /\ persisted = running
                   => /\ compareSemver(running', running) >= 0
                      /\ started => majorOf(running') = majorOf(running)]_vars
  <2>1. TagInv'
    BY <1>1, TagInvStep
  <2>2. started' => compareSemver(running', floor') >= 0
    BY <2>1 DEF TagInv, RunsAtFloor
  <2>3. ASSUME running # None, persisted = running, Next
        PROVE  /\ compareSemver(running', running) >= 0
               /\ started => majorOf(running') = majorOf(running)
    <3>1. CASE Boot
      BY <1>1, <2>3, <3>1, BootStep
    <3>2. CASE Check
      BY <1>1, <3>2, CheckStep
    <3>3. CASE Upgrade
      BY <1>1, <2>3, <3>3, UpgradeStep, SemverIs DEF TagInv, TypeOK
    <3> QED
      BY <2>3, <3>1, <3>2, <3>3 DEF Next
  <2> QED
    BY <1>1, <2>2, <2>3
<1> QED
  BY <1>1, TagInvHolds, PTL DEF Spec, VersionMovesUp
=============================================================================
