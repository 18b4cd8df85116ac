---------------------------- MODULE SdbfsLibProofs ----------------------------
(***************************************************************************)
(* Proofs about SdbfsLib, for every set of images, depth and use of the    *)
(* library: a scan returns what the image contains, in order; opening      *)
(* finds the first file asked for; and reads give the bytes of that file.  *)
(***************************************************************************)
EXTENDS SdbfsLib, SequenceTheorems, WellFoundedInduction, TLAPS

\* A set of numbers that is not empty has a least one.
LEMMA Least ==
  ASSUME NEW T, T \subseteq Nat, T # {}
  PROVE  \E x \in T : \A y \in T : x <= y
<1> DEFINE R == {p \in Nat \X Nat : p[1] < p[2]}
<1>1. IsWellFoundedOn(R, Nat)
  BY NatLessThanWellFounded, Zenon DEF OpToRel
<1> HIDE DEF R
<1>2. PICK x \in T : \A y \in T : <<y, x>> \notin R
  BY <1>1, WFMin
<1>3. ASSUME NEW y \in T PROVE x <= y
  <2>1. x \in Nat /\ y \in Nat
    OBVIOUS
  <2>2. y < x => <<y, x>> \in R
    BY <2>1 DEF R
  <2>3. ~(y < x)
    BY <2>2, <1>2
  <2> QED BY <2>1, <2>3
<1> QED BY <1>3

\* The listing of trees: the head of a part, what it leads down to, and what
\* comes next; rank says how much a part has below and after it.
Tree(f, D, some, head, leads, down, next) ==
  f = [d \in D |-> IF some[d]
                     THEN head[d] \o (IF leads[d] THEN f[down[d]] ELSE <<>>)
                            \o f[next[d]]
                     ELSE <<>>]

\* There is such a listing.
LEMMA TreeExists ==
  ASSUME NEW N \in Nat, NEW D, NEW rank \in [D -> 0..N],
         NEW some, NEW head, NEW leads, NEW down, NEW next,
         \A d \in D : some[d] =>
           /\ next[d] \in D /\ rank[next[d]] < rank[d]
           /\ leads[d] => down[d] \in D /\ rank[down[d]] < rank[d]
  PROVE  \E f : Tree(f, D, some, head, leads, down, next)
<1> DEFINE Body(f, d) == IF some[d]
                           THEN head[d] \o (IF leads[d] THEN f[down[d]] ELSE <<>>)
                                  \o f[next[d]]
                           ELSE <<>>
           Upto(f, k) == f = [d \in D |-> IF rank[d] + k <= N THEN Body(f, d)
                                         ELSE <<>>]
           K == {k \in Nat : \E f : Upto(f, k)}
<1>1. N + 1 \in K
  <2> DEFINE g == [d \in D |-> <<>>]
  <2>1. \A d \in D : ~(rank[d] + (N + 1) <= N)  OBVIOUS
  <2>2. Upto(g, N + 1)
    <3> HIDE DEF Body
    <3> QED  BY <2>1
  <2> HIDE DEF g, Upto
  <2> QED  BY <2>2
<1>2. ASSUME NEW k \in Nat, k + 1 \in K PROVE k \in K
  <2>1. PICK f : Upto(f, k + 1)  BY <1>2
  <2> DEFINE g == [d \in D |-> IF rank[d] + k <= N THEN Body(f, d) ELSE <<>>]
  <2>2. ASSUME NEW d \in D, rank[d] + (k + 1) <= N PROVE g[d] = f[d]
    <3>1. rank[d] + k <= N  BY <2>2
    <3>2. f[d] = Body(f, d)
      <4> HIDE DEF Body
      <4> QED  BY <2>1, <2>2
    <3> QED  BY <3>1, <3>2
  <2>3. ASSUME NEW d \in D, rank[d] + k <= N PROVE Body(g, d) = Body(f, d)
    <3> HIDE DEF g
    <3>1. CASE some[d]
      <4>1. next[d] \in D /\ rank[next[d]] + (k + 1) <= N
        BY <2>3, <3>1
      <4>2. leads[d] => down[d] \in D /\ rank[down[d]] + (k + 1) <= N
        BY <2>3, <3>1
      <4>3. g[next[d]] = f[next[d]]  BY <4>1, <2>2
      <4>4. leads[d] => g[down[d]] = f[down[d]]  BY <4>2, <2>2
      <4> QED  BY <4>3, <4>4
    <3> QED  BY <3>1
  <2>4. Upto(g, k)
    <3> HIDE DEF Body
    <3> QED  BY <2>3
  <2> HIDE DEF g, Upto
  <2> QED  BY <2>4
<1>3. PICK k \in K : \A m \in K : k <= m  BY <1>1, Least
<1>4. k = 0
  <2>1. k \in Nat  BY <1>3
  <2> HIDE DEF K
  <2>2. k # 0 => k - 1 \in Nat /\ (k - 1) + 1 = k  BY <2>1
  <2>3. k # 0 => k - 1 \in K  BY <2>2, <1>2, <1>3
  <2>4. k # 0 => ~(k <= k - 1)  BY <2>1
  <2> QED  BY <2>3, <2>4, <1>3
<1>5. PICK f : Upto(f, 0)  BY <1>3, <1>4
<1>6. \A d \in D : rank[d] + 0 <= N  OBVIOUS
<1>7. Tree(f, D, some, head, leads, down, next)
  BY <1>5, <1>6 DEF Tree
<1> QED  BY <1>7

\* It lists what its heads are made of.
LEMMA TreeType ==
  ASSUME NEW N \in Nat, NEW D, NEW rank \in [D -> 0..N],
         NEW some, NEW head, NEW leads, NEW down, NEW next, NEW T, NEW f,
         \A d \in D : some[d] =>
           /\ head[d] \in Seq(T)
           /\ next[d] \in D /\ rank[next[d]] < rank[d]
           /\ leads[d] => down[d] \in D /\ rank[down[d]] < rank[d],
         Tree(f, D, some, head, leads, down, next)
  PROVE  \A d \in D : f[d] \in Seq(T)
<1> DEFINE K == {rank[d] : d \in {e \in D : f[e] \notin Seq(T)}}
<1>1. K \subseteq Nat  OBVIOUS
<1> SUFFICES ASSUME K # {} PROVE FALSE  OBVIOUS
<1>2. PICK k \in K : \A m \in K : k <= m  BY <1>1, Least
<1>3. PICK d \in D : f[d] \notin Seq(T) /\ k = rank[d]  BY <1>2
<1>4. f[d] = IF some[d] THEN head[d] \o (IF leads[d] THEN f[down[d]] ELSE <<>>)
                               \o f[next[d]]
                        ELSE <<>>
  BY DEF Tree
<1>5. some[d]  BY <1>3, <1>4
<1>6. ASSUME NEW e \in D, rank[e] < rank[d] PROVE f[e] \in Seq(T)
  <2>1. f[e] \notin Seq(T) => rank[e] \in K  OBVIOUS
  <2>2. rank[e] \in 0..N /\ rank[d] \in 0..N  OBVIOUS
  <2> HIDE DEF K
  <2>3. ~(k <= rank[e])  BY <2>2, <1>3, <1>6
  <2> QED  BY <2>1, <2>3, <1>2
<1>7. f[next[d]] \in Seq(T)  BY <1>5, <1>6
<1>8. (IF leads[d] THEN f[down[d]] ELSE <<>>) \in Seq(T)  BY <1>5, <1>6
<1>9. head[d] \in Seq(T)  BY <1>5
<1> HIDE DEF K
<1>10. head[d] \o (IF leads[d] THEN f[down[d]] ELSE <<>>) \o f[next[d]] \in Seq(T)
  BY <1>7, <1>8, <1>9, ConcatProperties, Zenon
<1> QED  BY <1>3, <1>4, <1>5, <1>10

(***************************************************************************)
(* Images and their listings.                                              *)
(***************************************************************************)
\* What every record of an image has, the blank ones too.
LEMMA RecordFacts ==
  ASSUME NEW img \in Images, NEW a
  PROVE  LET r == At(img, a)
         IN /\ r.records \in 1..MaxRecords
            /\ r.first \in Nat /\ r.child \in Nat
            /\ r.last \in Int /\ r.last + 1 >= r.first
<1>1. CASE a \in DOMAIN img.rec  BY <1>1, ImageAssumption DEF At
<1>2. CASE a \notin DOMAIN img.rec
  BY <1>2, SdbfsLibAssumption DEF At, Blank
<1> QED  BY <1>1, <1>2

\* What a record leads to is a part, one level down.
LEMMA UnderIsPart ==
  ASSUME NEW img \in Images, NEW c \in Part, Leads(img, c)
  PROVE  Under(img, c) \in Part /\ Under(img, c)[1] = c[1] + 1
<1> DEFINE at == c[3] + At(img, c[2]).child
           base == c[3] + At(img, c[2]).first
<1>1. c[1] \in Levels /\ c[2] \in Nat /\ c[3] \in Nat  BY DEF Part
<1>2. at \in Nat /\ base \in Nat  BY <1>1, RecordFacts
<1>3. c[1] + 1 \in Levels
  BY <1>1, SdbfsLibAssumption DEF Levels, Leads
<1>4. At(img, at).records \in 0..MaxRecords
  BY RecordFacts, SdbfsLibAssumption
<1>5. Under(img, c) = <<c[1] + 1, at, base, At(img, at).records>>
  BY DEF Under
<1> HIDE DEF at, base
<1> QED  BY <1>2, <1>3, <1>4, <1>5 DEF Part

\* What a listing consists of.
Entries == Nat \X Nat

\* What a part is listed as: its first record, what that leads to, the rest.
LEMMA ListingUnfolds ==
  ASSUME NEW img \in Images, NEW c \in Part
  PROVE  /\ Listing(img)[c] \in Seq(Entries)
         /\ c[4] = 0 => Listing(img)[c] = <<>>
         /\ c[4] # 0 =>
              LET rest == <<c[1], c[2] + 1, c[3], c[4] - 1>>
              IN /\ rest \in Part
                 /\ Listing(img)[c] =
                      <<<<c[2], c[3] + At(img, c[2]).first>>>>
                        \o (IF Leads(img, c) THEN Listing(img)[Under(img, c)]
                            ELSE <<>>)
                        \o Listing(img)[rest]
<1> DEFINE M == MaxRecords + 1
           N == SDBFS_DEPTH * M + MaxRecords
           rank == [d \in Part |-> (SDBFS_DEPTH - d[1]) * M + d[4]]
           some == [d \in Part |-> d[4] # 0]
           head == [d \in Part |-> <<<<d[2], d[3] + At(img, d[2]).first>>>>]
           leads == [d \in Part |-> Leads(img, d)]
           down == [d \in Part |-> Under(img, d)]
           next == [d \in Part |-> <<d[1], d[2] + 1, d[3], d[4] - 1>>]
           f == Listing(img)
<1>1. M \in Nat /\ SDBFS_DEPTH \in Nat /\ MaxRecords \in Nat /\ MaxRecords < M
  BY SdbfsLibAssumption
<1>2. ASSUME NEW a \in 0..SDBFS_DEPTH
      PROVE  /\ a * M \in Nat /\ a * M <= SDBFS_DEPTH * M
             /\ a > 0 => (a - 1) * M + M = a * M
  <2> HIDE DEF M
  <2>1. a \in Nat /\ SDBFS_DEPTH - a \in Nat  BY <1>1
  <2>2. a * M \in Nat  BY <2>1, <1>1
  <2>3. (SDBFS_DEPTH - a) * M \in Nat  BY <2>1, <1>1
  <2>4. (SDBFS_DEPTH - a) * M = SDBFS_DEPTH * M - a * M  BY <2>1, <1>1
  <2>5. SDBFS_DEPTH * M \in Nat  BY <1>1
  <2>6. a * M <= SDBFS_DEPTH * M  BY <2>2, <2>3, <2>4, <2>5
  <2>7. a > 0 => (a - 1) * M + M = a * M  BY <2>1, <1>1
  <2> QED  BY <2>2, <2>6, <2>7
<1>3. ASSUME NEW d \in Part
      PROVE  /\ d[1] \in Nat /\ d[1] < SDBFS_DEPTH /\ d[2] \in Nat /\ d[3] \in Nat
             /\ d[4] \in 0..MaxRecords /\ SDBFS_DEPTH - d[1] \in 0..SDBFS_DEPTH
             /\ rank[d] = (SDBFS_DEPTH - d[1]) * M + d[4]
  BY <1>1 DEF Part, Levels
<1>4. N \in Nat /\ rank \in [Part -> 0..N]
  <2>1. SDBFS_DEPTH * M \in Nat  BY <1>1, <1>2
  <2>2. ASSUME NEW d \in Part PROVE rank[d] \in 0..N
    <3> DEFINE x == (SDBFS_DEPTH - d[1]) * M
               y == SDBFS_DEPTH * M
    <3>1. x \in Nat /\ x <= y /\ y \in Nat  BY <1>2, <1>3, <2>1
    <3>2. rank[d] = x + d[4] /\ N = y + MaxRecords  BY <1>3
    <3>3. d[4] \in 0..MaxRecords  BY <1>3
    <3> HIDE DEF x, y, rank, N
    <3> QED  BY <3>1, <3>2, <3>3, <1>1
  <2>3. N \in Nat
    <3> DEFINE y == SDBFS_DEPTH * M
    <3> HIDE DEF y
    <3>1. y + MaxRecords \in Nat  BY <2>1, <1>1 DEF y
    <3> QED  BY <3>1 DEF y
  <2>4. DOMAIN rank = Part /\ rank = [d \in Part |-> rank[d]]  OBVIOUS
  <2> HIDE DEF rank, N
  <2> QED  BY <2>2, <2>3, <2>4
<1>5. ASSUME NEW d \in Part, some[d]
      PROVE  /\ head[d] \in Seq(Entries)
             /\ next[d] \in Part /\ rank[next[d]] < rank[d]
             /\ leads[d] => down[d] \in Part /\ rank[down[d]] < rank[d]
  <2>1. d[4] # 0 /\ d[4] \in Nat /\ d[4] <= MaxRecords
    <3>1. d[4] # 0  BY <1>5
    <3>2. d[4] \in 0..MaxRecords  BY <1>3
    <3> QED  BY <3>1, <3>2, <1>1
  <2>2. head[d] \in Seq(Entries)
    <3>1. d[3] + At(img, d[2]).first \in Nat /\ d[2] \in Nat  BY <1>3, RecordFacts
    <3> QED  BY <3>1 DEF Entries
  <2>3. next[d] \in Part /\ next[d][1] = d[1] /\ next[d][4] = d[4] - 1
    <3>1. d[2] + 1 \in Nat /\ d[4] - 1 \in 0..MaxRecords /\ d[1] \in Levels
          /\ d[3] \in Nat
      BY <1>3, <2>1, <1>1 DEF Part
    <3>2. <<d[1], d[2] + 1, d[3], d[4] - 1>> \in Part  BY <3>1 DEF Part
    <3> QED  BY <3>2
  <2>4. rank[next[d]] < rank[d]
    <3> DEFINE x == (SDBFS_DEPTH - d[1]) * M
    <3>1. x \in Nat  BY <1>2, <1>3
    <3>2. rank[d] = x + d[4] /\ rank[next[d]] = x + (d[4] - 1)
      BY <1>3, <2>3
    <3> HIDE DEF x, rank
    <3> QED  BY <3>1, <3>2, <2>1
  <2>5. ASSUME leads[d] PROVE down[d] \in Part /\ rank[down[d]] < rank[d]
    <3>1. Leads(img, d) /\ down[d] = Under(img, d)  BY <2>5
    <3>2. down[d] \in Part /\ down[d][1] = d[1] + 1  BY <3>1, UnderIsPart
    <3> DEFINE a == SDBFS_DEPTH - d[1]
               x == a * M
               y == (a - 1) * M
    <3>3. a \in 0..SDBFS_DEPTH /\ a > 0 /\ SDBFS_DEPTH - (d[1] + 1) = a - 1
      BY <1>3, <1>1
    <3>4. rank[d] = x + d[4]  BY <1>3
    <3>5. rank[down[d]] = y + down[d][4] /\ down[d][4] \in 0..MaxRecords
      <4>1. /\ rank[down[d]] = (SDBFS_DEPTH - down[d][1]) * M + down[d][4]
            /\ down[d][4] \in 0..MaxRecords
        BY <3>2, <1>3
      <4> HIDE DEF rank, M, down, a
      <4> QED  BY <4>1, <3>2, <3>3
    <3>6. y + M = x /\ x \in Nat
      <4> HIDE DEF a, M
      <4> QED  BY <3>3, <1>2
    <3>7. y \in Int
      <4> HIDE DEF a
      <4>1. a - 1 \in Int  BY <3>3
      <4> QED  BY <4>1, <1>1
    <3> HIDE DEF a, x, y, rank, down, M
    <3>8. rank[down[d]] < rank[d]  BY <3>4, <3>5, <3>6, <3>7, <2>1, <1>1
    <3> QED  BY <3>2, <3>8
  <2> QED  BY <2>2, <2>3, <2>4, <2>5
<1>6. \A g : Tree(g, Part, some, head, leads, down, next) <=>
             g = [d \in Part |->
                   IF d[4] = 0 THEN <<>>
                   ELSE <<<<d[2], d[3] + At(img, d[2]).first>>>>
                          \o (IF Leads(img, d) THEN g[Under(img, d)] ELSE <<>>)
                          \o g[<<d[1], d[2] + 1, d[3], d[4] - 1>>]]
  <2> TAKE g
  <2>1. [d \in Part |->
           IF some[d] THEN head[d] \o (IF leads[d] THEN g[down[d]] ELSE <<>>)
                             \o g[next[d]]
                      ELSE <<>>]
        = [d \in Part |->
             IF d[4] = 0 THEN <<>>
             ELSE <<<<d[2], d[3] + At(img, d[2]).first>>>>
                    \o (IF Leads(img, d) THEN g[Under(img, d)] ELSE <<>>)
                    \o g[<<d[1], d[2] + 1, d[3], d[4] - 1>>]]
    OBVIOUS
  <2> HIDE DEF some, head, leads, down, next
  <2> QED  BY <2>1 DEF Tree
<1>7. f = CHOOSE g : g = [d \in Part |->
                   IF d[4] = 0 THEN <<>>
                   ELSE <<<<d[2], d[3] + At(img, d[2]).first>>>>
                          \o (IF Leads(img, d) THEN g[Under(img, d)] ELSE <<>>)
                          \o g[<<d[1], d[2] + 1, d[3], d[4] - 1>>]]
  BY DEF Listing
<1>8. /\ next[c] = <<c[1], c[2] + 1, c[3], c[4] - 1>>
      /\ some[c] <=> c[4] # 0
  OBVIOUS
<1> HIDE DEF N, rank, some, head, leads, down, next, f
<1>9. \E g : Tree(g, Part, some, head, leads, down, next)
  BY <1>4, <1>5, TreeExists
<1>10. f = [d \in Part |->
             IF d[4] = 0 THEN <<>>
             ELSE <<<<d[2], d[3] + At(img, d[2]).first>>>>
                    \o (IF Leads(img, d) THEN f[Under(img, d)] ELSE <<>>)
                    \o f[<<d[1], d[2] + 1, d[3], d[4] - 1>>]]
  BY <1>6, <1>7, <1>9
<1>11. \A d \in Part : f[d] \in Seq(Entries)
  <2>1. Tree(f, Part, some, head, leads, down, next)  BY <1>6, <1>10
  <2> QED  BY <2>1, <1>4, <1>5, TreeType
<1>12. c[4] # 0 => <<c[1], c[2] + 1, c[3], c[4] - 1>> \in Part
  BY <1>5, <1>8
<1> QED  BY <1>10, <1>11, <1>12 DEF f

(***************************************************************************)
(* The scan.                                                               *)
(***************************************************************************)
\* What a struct sdbfs holds.
FsType == [currentp : Nat \cup {NoAddr}, f_len : Int, f_offset : Nat,
           read_offset : Nat, base : [Levels -> Nat], this : [Levels -> Nat],
           nleft : [Levels -> 0..MaxRecords], depth : Levels]

\* The part of the directory of level d that is left, and the current record.
Left(f, d) == <<d, f.this[d], f.base[d], f.nleft[d]>>
Now(f) == <<f.depth, f.currentp, f.base[f.depth], 1>>

\* What comes, from each level, when the levels below it are done.
Stacked(f, rest) ==
  /\ rest \in [0..SDBFS_DEPTH -> Seq(Entries)] /\ rest[0] = <<>>
  /\ \A d \in 0..f.depth : rest[d + 1] = Listing(image)[Left(f, d)] \o rest[d]

\* What a scan returns that goes on from f: what is below the current record,
\* then what comes after it.
Below(f) == IF Leads(image, Now(f)) THEN Listing(image)[Under(image, Now(f))]
                                    ELSE <<>>
ToCome(f, rest) == Below(f) \o rest[f.depth + 1]

\* A record dev that the scan returns is the current one.
Returned(s) ==
  /\ s.fs \in FsType /\ s.dev \in Nat /\ s.fs.currentp = s.dev
  /\ s.fs.f_offset = s.fs.base[s.fs.depth] + At(image, s.dev).first

\* The scan s returns the first of all that is to come, or nothing comes.
Lists(s, all) ==
  \/ s.dev = NoAddr /\ s.fs \in FsType /\ all = <<>>
  \/ /\ Returned(s)
     /\ \E new : Stacked(s.fs, new) /\ all = <<Entry(s)>> \o ToCome(s.fs, new)

\* A concatenation, whose length does not matter.
Then(a, b) == a \o b

\* Three sequences can be grouped either way.
LEMMA ThenThen ==
  ASSUME NEW T, NEW a \in Seq(T), NEW b \in Seq(T), NEW c \in Seq(T)
  PROVE  /\ Then(a, b) \in Seq(T)
         /\ Then(Then(a, b), c) = Then(a, Then(b, c))
<1>1. a \o b \in Seq(T)  BY ConcatProperties
<1>2. (a \o b) \o c = a \o (b \o c)  BY ConcatAssociative
<1> QED  BY <1>1, <1>2 DEF Then

\* So can four.
LEMMA Grouped ==
  ASSUME NEW T, NEW a \in Seq(T), NEW b \in Seq(T), NEW c \in Seq(T),
         NEW r \in Seq(T)
  PROVE  Then(Then(Then(a, b), c), r) = Then(a, Then(b, Then(c, r)))
<1> DEFINE Q == Seq(T)
<1>1. \A x \in Q, y \in Q : Then(x, y) \in Q  BY ThenThen
<1>2. \A x \in Q, y \in Q, z \in Q : Then(Then(x, y), z) = Then(x, Then(y, z))
  BY ThenThen
<1>3. a \in Q /\ b \in Q /\ c \in Q /\ r \in Q  OBVIOUS
<1> HIDE DEF Q
<1>4. Then(a, b) \in Q /\ Then(c, r) \in Q  BY <1>1, <1>3
<1>5. Then(Then(Then(a, b), c), r) = Then(Then(a, b), Then(c, r))
  BY <1>2, <1>3, <1>4
<1>6. Then(Then(a, b), Then(c, r)) = Then(a, Then(b, Then(c, r)))
  BY <1>2, <1>3, <1>4
<1> QED  BY <1>5, <1>6

\* What is left of the directory of a level can be listed.
LEMMA LeftIsPart ==
  ASSUME NEW f \in FsType, NEW d \in Levels
  PROVE  Left(f, d) \in Part
BY DEF FsType, Left, Part

\* So can the current record.
LEMMA NowIsPart ==
  ASSUME NEW f \in FsType, f.currentp \in Nat
  PROVE  Now(f) \in Part
<1>1. 1 \in 0..MaxRecords  BY SdbfsLibAssumption
<1>2. f.depth \in Levels /\ f.base[f.depth] \in Nat  BY DEF FsType
<1> QED  BY <1>1, <1>2 DEF Now, Part

\* A set of levels that is not empty has a highest.
LEMMA Greatest ==
  ASSUME NEW n \in Nat, NEW T, T \subseteq 0..n, T # {}
  PROVE  \E x \in T : \A y \in T : y <= x
<1> DEFINE U == {n - x : x \in T}
<1>1. U \subseteq Nat /\ U # {}
  <2>1. \A x \in T : n - x \in Nat  OBVIOUS
  <2> QED  BY <2>1
<1>2. PICK u \in U : \A v \in U : u <= v  BY <1>1, Least
<1>3. PICK x \in T : u = n - x  BY <1>2
<1>4. ASSUME NEW y \in T PROVE y <= x
  <2>1. u <= n - y  BY <1>2
  <2> QED  BY <2>1, <1>3
<1> QED  BY <1>4

\* Levels with nothing left do not count.
LEMMA GoesUp ==
  ASSUME image \in Images, NEW f \in FsType, NEW rest, Stacked(f, rest),
         NEW d \in 0..f.depth + 1, \A x \in d..f.depth : f.nleft[x] = 0
  PROVE  rest[f.depth + 1] = rest[d]
<1> DEFINE T == {x \in 0..f.depth + 1 : x >= d /\ rest[x] = rest[f.depth + 1]}
<1>1. f.depth \in Nat /\ f.depth < SDBFS_DEPTH /\ SDBFS_DEPTH \in Nat
  BY SdbfsLibAssumption DEF FsType, Levels
<1>2. f.depth + 1 \in T  BY <1>1
<1>3. PICK x \in T : \A y \in T : x <= y
  <2>1. T \subseteq Nat /\ T # {}  BY <1>1, <1>2
  <2> QED  BY <2>1, Least
<1>4. SUFFICES ASSUME x > d PROVE FALSE  BY <1>1, <1>3
<1>5. x - 1 \in d..f.depth /\ x - 1 \in 0..f.depth /\ x - 1 \in Levels
      /\ x - 1 >= d /\ (x - 1) + 1 = x
  BY <1>1, <1>3, <1>4, SdbfsLibAssumption DEF Levels
<1>6. rest[x] = Listing(image)[Left(f, x - 1)] \o rest[x - 1]
  BY <1>5 DEF Stacked
<1>7. Listing(image)[Left(f, x - 1)] = <<>>
  <2>1. Left(f, x - 1)[4] = 0  BY <1>5 DEF Left
  <2> QED  BY <2>1, <1>5, LeftIsPart, ListingUnfolds
<1>8. rest[x - 1] \in Seq(Entries)
  BY <1>1, <1>5 DEF Stacked
<1>9. rest[x] = rest[x - 1]  BY <1>6, <1>7, <1>8
<1>10. x - 1 \in T  BY <1>3, <1>5, <1>9, <1>1
<1>11. ~(x <= x - 1)  BY <1>5
<1> QED  BY <1>10, <1>11, <1>3

\* The next record of the nearest level that has one left.
LEMMA EntryIsNext ==
  ASSUME image \in Images, NEW f \in FsType, NEW rest, Stacked(f, rest)
  PROVE  Lists(ReadEntry(f, f.depth), rest[f.depth + 1])
<1> DEFINE left == {e \in 0..f.depth : f.nleft[e] # 0}
           e    == CHOOSE x \in left : \A y \in left : y <= x
           g    == [f EXCEPT !.depth = e, !.currentp = f.this[e],
                             !.this[e] = @ + 1, !.nleft[e] = @ - 1]
           s    == ReadEntry(f, f.depth)
<1>1. f.depth \in Nat /\ f.depth < SDBFS_DEPTH /\ SDBFS_DEPTH \in Nat
  BY SdbfsLibAssumption DEF FsType, Levels
<1>2. CASE left = {}
  <2>1. s = [fs |-> [f EXCEPT !.depth = 0], dev |-> NoAddr]
    BY <1>2 DEF ReadEntry
  <2>2. s.fs \in FsType
    <3>1. 0 \in Levels  BY SdbfsLibAssumption DEF Levels
    <3>2. [f EXCEPT !.depth = 0] \in FsType  BY <3>1 DEF FsType
    <3> QED  BY <2>1, <3>2
  <2>3. \A x \in 0..f.depth : f.nleft[x] = 0  BY <1>2
  <2>4. rest[f.depth + 1] = rest[0]  BY <2>3, <1>1, GoesUp
  <2>5. s.dev = NoAddr  BY <2>1
  <2>6. rest[f.depth + 1] = <<>>  BY <2>4 DEF Stacked
  <2> HIDE DEF s
  <2> QED  BY <2>2, <2>5, <2>6 DEF s, Lists
<1>3. CASE left # {}
  <2>1. e \in left /\ \A y \in left : y <= e
    <3>1. \E x \in left : \A y \in left : y <= x  BY <1>1, <1>3, Greatest
    <3> QED  BY <3>1
  <2>2. s = [fs |-> Located(g), dev |-> f.this[e]]
    BY <1>3 DEF ReadEntry
  <2>3. /\ e \in 0..f.depth /\ e \in Levels
        /\ f.nleft[e] # 0 /\ f.nleft[e] \in 0..MaxRecords
        /\ e + 1 \in 0..f.depth + 1
    <3> HIDE DEF e
    <3>1. e \in 0..f.depth /\ f.nleft[e] # 0  BY <2>1
    <3>2. e \in Levels /\ e + 1 \in 0..f.depth + 1  BY <3>1, <1>1 DEF Levels
    <3>3. f.nleft[e] \in 0..MaxRecords  BY <3>2 DEF FsType
    <3> QED  BY <3>1, <3>2, <3>3
  <2>4. rest[f.depth + 1] = rest[e + 1]
    <3>1. ASSUME NEW x \in e + 1..f.depth PROVE f.nleft[x] = 0
      <4>1. x \in 0..f.depth /\ ~(x <= e)  BY <2>3, <1>1
      <4> QED  BY <4>1, <2>1
    <3> HIDE DEF e, left
    <3> QED  BY <3>1, <2>3, GoesUp
  <2> HIDE DEF e
  <2>5. /\ f.this \in [Levels -> Nat] /\ f.base \in [Levels -> Nat]
        /\ f.nleft \in [Levels -> 0..MaxRecords]
    BY DEF FsType
  <2>6. /\ g \in FsType /\ g.depth = e /\ g.currentp = f.this[e] /\ g.base = f.base
        /\ g.this = [f.this EXCEPT ![e] = @ + 1]
        /\ g.nleft = [f.nleft EXCEPT ![e] = @ - 1]
    <3>1. f.this[e] \in Nat /\ f.nleft[e] - 1 \in 0..MaxRecords
      BY <2>3, <2>5, SdbfsLibAssumption
    <3>2. [f.this EXCEPT ![e] = @ + 1] \in [Levels -> Nat]  BY <2>3, <2>5, <3>1
    <3>3. [f.nleft EXCEPT ![e] = @ - 1] \in [Levels -> 0..MaxRecords]
      BY <2>3, <2>5, <3>1
    <3> QED  BY <2>3, <3>1, <3>2, <3>3 DEF FsType
  <2> DEFINE first == At(image, f.this[e]).first
             off   == f.base[e] + first
             part  == <<e, f.this[e] + 1, f.base[e], f.nleft[e] - 1>>
  <2>7. off \in Nat /\ f.this[e] \in Nat
    BY <2>3, <2>5, RecordFacts
  <2>8. /\ s.fs = [g EXCEPT !.f_offset = off] /\ s.dev = f.this[e]
        /\ s.fs \in FsType /\ s.fs.f_offset = off /\ s.fs.depth = e
        /\ s.fs.currentp = f.this[e] /\ s.fs.base = f.base
        /\ s.fs.this = g.this /\ s.fs.nleft = g.nleft
    <3>1. Located(g) = [g EXCEPT !.f_offset = off]
      BY <2>6 DEF Located, Current
    <3> HIDE DEF g, off, s
    <3> QED  BY <3>1, <2>2, <2>6, <2>7 DEF FsType
  <2> HIDE DEF g, s
  <2>9. Returned(s)  BY <2>7, <2>8 DEF Returned
  <2>10. Left(f, e) \in Part /\ Left(f, e)[4] # 0
         /\ Left(f, e) = <<e, f.this[e], f.base[e], f.nleft[e]>>
    BY <2>3, LeftIsPart DEF Left
  <2>11. Left(s.fs, e) = part
    BY <2>3, <2>5, <2>6, <2>8 DEF Left
  <2>12. Leads(image, Now(s.fs)) = Leads(image, Left(f, e))
         /\ Under(image, Now(s.fs)) = Under(image, Left(f, e))
    BY <2>8 DEF Left, Now, Leads, Under
  <2>13. /\ part \in Part
         /\ Listing(image)[Left(f, e)]
              = <<<<f.this[e], off>>>> \o Below(s.fs) \o Listing(image)[part]
    <3> DEFINE c == Left(f, e)
    <3>1. /\ c[1] = e /\ c[2] = f.this[e] /\ c[3] = f.base[e] /\ c[4] = f.nleft[e]
      BY <2>10
    <3>2. part = <<c[1], c[2] + 1, c[3], c[4] - 1>>  BY <3>1
    <3>3. <<c[2], c[3] + At(image, c[2]).first>> = <<f.this[e], off>>  BY <3>1
    <3>4. Below(s.fs) = (IF Leads(image, c) THEN Listing(image)[Under(image, c)]
                         ELSE <<>>)
      BY <2>12 DEF Below
    <3> HIDE DEF part, c, off
    <3>5. /\ <<c[1], c[2] + 1, c[3], c[4] - 1>> \in Part
          /\ Listing(image)[c] =
               <<<<c[2], c[3] + At(image, c[2]).first>>>>
                 \o (IF Leads(image, c) THEN Listing(image)[Under(image, c)]
                     ELSE <<>>)
                 \o Listing(image)[<<c[1], c[2] + 1, c[3], c[4] - 1>>]
      <4>1. c \in Part /\ c[4] # 0  BY <2>10 DEF c
      <4> QED  BY <4>1, ListingUnfolds
    <3> QED  BY <3>2, <3>3, <3>4, <3>5, Zenon DEF c
  <2> DEFINE new == [rest EXCEPT ![e + 1] = Listing(image)[part] \o rest[e]]
  <2>14. /\ rest \in [0..SDBFS_DEPTH -> Seq(Entries)] /\ rest[0] = <<>>
         /\ e + 1 \in 0..SDBFS_DEPTH /\ e \in 0..SDBFS_DEPTH
         /\ Listing(image)[part] \in Seq(Entries) /\ rest[e] \in Seq(Entries)
         /\ rest[e + 1] = Listing(image)[Left(f, e)] \o rest[e]
    <3> HIDE DEF part
    <3>1. Listing(image)[part] \in Seq(Entries)  BY <2>13, ListingUnfolds
    <3>2. rest \in [0..SDBFS_DEPTH -> Seq(Entries)] /\ rest[0] = <<>>
          /\ rest[e + 1] = Listing(image)[Left(f, e)] \o rest[e]
      BY <2>3 DEF Stacked
    <3>3. e + 1 \in 0..SDBFS_DEPTH /\ e \in 0..SDBFS_DEPTH  BY <2>3, <1>1
    <3> QED  BY <3>1, <3>2, <3>3
  <2>15. Stacked(s.fs, new)
    <3>1. new \in [0..SDBFS_DEPTH -> Seq(Entries)] /\ new[0] = <<>>
      <4>1. Listing(image)[part] \o rest[e] \in Seq(Entries)  BY <2>14
      <4> QED  BY <4>1, <2>14, <2>3
    <3>2. new[e + 1] = Listing(image)[Left(s.fs, e)] \o new[e]
      <4> HIDE DEF part
      <4>1. new[e + 1] = Listing(image)[part] \o rest[e] /\ new[e] = rest[e]
        BY <2>14, <2>3
      <4> QED  BY <4>1, <2>11
    <3>3. ASSUME NEW d \in 0..e - 1
          PROVE  new[d + 1] = Listing(image)[Left(s.fs, d)] \o new[d]
      <4>1. d \in 0..f.depth /\ d \in Levels /\ d # e /\ d + 1 # e + 1
            /\ d # e + 1 /\ d \in 0..SDBFS_DEPTH /\ d + 1 \in 0..SDBFS_DEPTH
        BY <2>3, <1>1 DEF Levels
      <4>2. Left(s.fs, d) = Left(f, d)
        BY <4>1, <2>5, <2>6, <2>8 DEF Left
      <4>3. rest[d + 1] = Listing(image)[Left(f, d)] \o rest[d]
        BY <4>1 DEF Stacked
      <4>4. new[d] = rest[d] /\ new[d + 1] = rest[d + 1]  BY <4>1, <2>14
      <4> QED  BY <4>2, <4>3, <4>4
    <3> HIDE DEF new
    <3>4. ASSUME NEW d \in 0..e
          PROVE  new[d + 1] = Listing(image)[Left(s.fs, d)] \o new[d]
      <4>1. d = e \/ d \in 0..e - 1  BY <2>3
      <4> QED  BY <4>1, <3>2, <3>3
    <3> QED  BY <3>1, <3>4, <2>8 DEF Stacked
  <2>16. rest[f.depth + 1] = <<Entry(s)>> \o ToCome(s.fs, new)
    <3>1. Entry(s) = <<f.this[e], off>>  BY <2>8 DEF Entry
    <3>2. new[e + 1] = Listing(image)[part] \o rest[e]  BY <2>14
    <3>3. Below(s.fs) \in Seq(Entries)
      <4>1. Leads(image, Left(f, e)) => Under(image, Left(f, e)) \in Part
        BY <2>10, UnderIsPart
      <4> DEFINE u == Under(image, Left(f, e))
      <4>2. u \in Part => Listing(image)[u] \in Seq(Entries)
        <5> HIDE DEF u
        <5> QED  BY ListingUnfolds
      <4>3. <<>> \in Seq(Entries)  OBVIOUS
      <4> HIDE DEF u
      <4> QED  BY <4>1, <4>2, <4>3, <2>12, Zenon DEF Below, u
    <3>4. <<<<f.this[e], off>>>> \in Seq(Entries)  BY <2>7 DEF Entries
    <3> DEFINE a == <<<<f.this[e], off>>>>
               b == Below(s.fs)
               c == Listing(image)[part]
               r == rest[e]
    <3>5. a \in Seq(Entries) /\ b \in Seq(Entries) /\ c \in Seq(Entries)
          /\ r \in Seq(Entries)
      BY <3>3, <3>4, <2>14
    <3>6. rest[e + 1] = (a \o b \o c) \o r  BY <2>13, <2>14
    <3>7. ToCome(s.fs, new) = b \o (c \o r)  BY <3>2, <2>8 DEF ToCome
    <3> HIDE DEF a, b, c, r
    <3>8. (a \o b \o c) \o r = a \o (b \o (c \o r))
      <4>1. Then(Then(Then(a, b), c), r) = Then(a, Then(b, Then(c, r)))
        BY <3>5, Grouped
      <4> QED  BY <4>1, Zenon DEF Then
    <3>9. rest[f.depth + 1] = a \o ToCome(s.fs, new)
      BY <3>6, <3>7, <3>8, <2>4, Zenon
    <3> QED  BY <3>1, <3>9 DEF a
  <2> QED  BY <2>9, <2>15, <2>16 DEF s, Lists
<1> QED  BY <1>2, <1>3

\* A directory is entered at its first record, which leads nowhere.
LEMMA Entering ==
  ASSUME image \in Images, NEW f \in FsType, NEW rest,
         rest \in [0..SDBFS_DEPTH -> Seq(Entries)], rest[0] = <<>>,
         NEW d \in Levels, NEW at \in Nat, IsDir(image, at),
         f.this[d] = at, d = 0 \/ Stacked([f EXCEPT !.depth = d - 1], rest)
  PROVE  LET s == [fs |-> Located(scan_newdir(f, d)), dev |-> at]
         IN Lists(s, Listing(image)[<<d, at, f.base[d], At(image, at).records>>]
                       \o rest[d])
<1> DEFINE n == At(image, at).records
           b == f.base[d]
           off == b + At(image, at).first
           g == [f EXCEPT !.currentp = at, !.nleft[d] = n - 1,
                          !.this[d] = at + 1, !.depth = d, !.f_offset = off]
           s == [fs |-> Located(scan_newdir(f, d)), dev |-> at]
           c == <<d, at, b, n>>
           part == <<d, at + 1, b, n - 1>>
           new == [rest EXCEPT ![d + 1] = Listing(image)[part] \o rest[d]]
<1>1. /\ f.this \in [Levels -> Nat] /\ f.base \in [Levels -> Nat]
      /\ f.nleft \in [Levels -> 0..MaxRecords] /\ b \in Nat
      /\ n \in 1..MaxRecords /\ MaxRecords \in Nat /\ off \in Nat
      /\ d \in Nat /\ d + 1 \in 0..SDBFS_DEPTH /\ d \in 0..SDBFS_DEPTH
      /\ SDBFS_DEPTH \in Nat
  <2>1. f.this \in [Levels -> Nat] /\ f.base \in [Levels -> Nat]
        /\ f.nleft \in [Levels -> 0..MaxRecords] /\ b \in Nat
    BY DEF FsType
  <2>2. n \in 1..MaxRecords /\ At(image, at).first \in Nat  BY RecordFacts
  <2>3. d \in Nat /\ d + 1 \in 0..SDBFS_DEPTH /\ d \in 0..SDBFS_DEPTH
    BY SdbfsLibAssumption DEF Levels
  <2>4. SDBFS_DEPTH \in Nat /\ MaxRecords \in Nat  BY SdbfsLibAssumption
  <2> HIDE DEF n, b
  <2>5. off \in Nat  BY <2>1, <2>2
  <2> HIDE DEF off
  <2> QED  BY <2>1, <2>2, <2>3, <2>4, <2>5
<1>2. s.fs = g
  <2>1. scan_newdir(f, d) = [f EXCEPT !.currentp = at, !.nleft[d] = n - 1,
                                      !.this[d] = at + 1, !.depth = d]
    BY <1>1 DEF scan_newdir, FsType
  <2> DEFINE h == [f EXCEPT !.currentp = at, !.nleft[d] = n - 1,
                            !.this[d] = at + 1, !.depth = d]
  <2>2. h.base = f.base /\ h.depth = d /\ h.currentp = at  BY DEF FsType
  <2>3. Located(h) = [h EXCEPT !.f_offset = off]
    <3> HIDE DEF h
    <3> QED  BY <2>2 DEF Located, Current
  <2>4. [h EXCEPT !.f_offset = off] = g  BY DEF FsType
  <2> QED  BY <2>1, <2>3, <2>4
<1>3. /\ g \in FsType /\ g.depth = d /\ g.currentp = at /\ g.base = f.base
      /\ g.this = [f.this EXCEPT ![d] = at + 1]
      /\ g.nleft = [f.nleft EXCEPT ![d] = n - 1] /\ g.f_offset = off
  <2>1. [f.this EXCEPT ![d] = at + 1] \in [Levels -> Nat]  BY <1>1
  <2>2. [f.nleft EXCEPT ![d] = n - 1] \in [Levels -> 0..MaxRecords]
    <3>1. n - 1 \in 0..MaxRecords  BY <1>1
    <3> HIDE DEF n
    <3> QED  BY <3>1, <1>1
  <2> HIDE DEF n, off
  <2> QED  BY <1>1, <2>1, <2>2 DEF FsType
<1>4. s.dev = at  OBVIOUS
<1> HIDE DEF g, s
<1>5. Returned(s)
  <2>1. s.fs.base[s.fs.depth] + At(image, s.dev).first = off
    BY <1>2, <1>3, <1>4
  <2> QED  BY <1>2, <1>3, <1>4, <2>1 DEF Returned
<1>6. c \in Part /\ c[4] # 0 /\ c[1] = d /\ c[2] = at /\ c[3] = b /\ c[4] = n
  <2>1. n \in 0..MaxRecords /\ n # 0  BY <1>1
  <2> HIDE DEF n, b
  <2> QED  BY <1>1, <2>1 DEF Part
<1>7. At(image, at).type # "bridge"  BY DEF IsDir
<1>8. /\ part \in Part
      /\ Listing(image)[c] = <<<<at, off>>>> \o Listing(image)[part]
  <2> HIDE DEF n, b, c
  <2>1. LET rest_ == <<c[1], c[2] + 1, c[3], c[4] - 1>>
        IN /\ rest_ \in Part
           /\ Listing(image)[c] =
                <<<<c[2], c[3] + At(image, c[2]).first>>>>
                  \o (IF Leads(image, c) THEN Listing(image)[Under(image, c)]
                      ELSE <<>>)
                  \o Listing(image)[rest_]
    BY <1>6, ListingUnfolds
  <2>2. ~Leads(image, c)  BY <1>6, <1>7 DEF Leads
  <2>3. <<c[1], c[2] + 1, c[3], c[4] - 1>> = part
        /\ <<c[2], c[3] + At(image, c[2]).first>> = <<at, off>>
    BY <1>6
  <2>4. /\ part \in Part
        /\ Listing(image)[c] = <<<<at, off>>>> \o <<>> \o Listing(image)[part]
    <3> HIDE DEF part, off
    <3> QED  BY <2>1, <2>2, <2>3
  <2>5. <<<<at, off>>>> \o <<>> = <<<<at, off>>>>
    <3> HIDE DEF off
    <3> QED  OBVIOUS
  <2> HIDE DEF part, off
  <2> QED  BY <2>4, <2>5
<1>9. /\ Listing(image)[part] \in Seq(Entries) /\ rest[d] \in Seq(Entries)
      /\ Listing(image)[part] \o rest[d] \in Seq(Entries)
  <2> HIDE DEF part
  <2>1. Listing(image)[part] \in Seq(Entries)  BY <1>8, ListingUnfolds
  <2>2. rest[d] \in Seq(Entries)  BY <1>1
  <2> QED  BY <2>1, <2>2, ConcatProperties
<1>10. Stacked(s.fs, new)
  <2>1. new \in [0..SDBFS_DEPTH -> Seq(Entries)] /\ new[0] = <<>>
    <3> HIDE DEF part
    <3> QED  BY <1>1, <1>9
  <2>2. new[d + 1] = Listing(image)[Left(g, d)] \o new[d]
    <3>1. Left(g, d) = part
      <4> HIDE DEF n, b
      <4> QED  BY <1>1, <1>3 DEF Left, b
    <3> HIDE DEF part
    <3>2. new[d + 1] = Listing(image)[part] \o rest[d] /\ new[d] = rest[d]
      BY <1>1, <1>9
    <3> QED  BY <3>1, <3>2
  <2>3. ASSUME NEW x \in 0..d - 1
        PROVE  new[x + 1] = Listing(image)[Left(g, x)] \o new[x]
    <3>1. d # 0 /\ x \in Levels /\ x # d /\ x + 1 # d + 1 /\ x # d + 1
          /\ x \in 0..SDBFS_DEPTH /\ x + 1 \in 0..SDBFS_DEPTH
      <4>1. d \in Nat /\ d + 1 \in 0..SDBFS_DEPTH /\ SDBFS_DEPTH \in Nat  BY <1>1
      <4> QED  BY <4>1 DEF Levels
    <3> DEFINE k == [f EXCEPT !.depth = d - 1]
    <3>2. /\ Stacked(k, rest) /\ k.depth = d - 1 /\ k.this = f.this
          /\ k.base = f.base /\ k.nleft = f.nleft
      BY <3>1 DEF FsType
    <3> HIDE DEF k
    <3>3. rest[x + 1] = Listing(image)[Left(k, x)] \o rest[x]
      BY <3>2 DEF Stacked
    <3>4. Left(k, x) = Left(g, x)
      <4> HIDE DEF n
      <4> QED  BY <3>1, <3>2, <1>1, <1>3 DEF Left
    <3>5. new[x + 1] = rest[x + 1] /\ new[x] = rest[x]
      <4> HIDE DEF part
      <4> QED  BY <3>1, <1>1
    <3> QED  BY <3>3, <3>4, <3>5
  <2> HIDE DEF new
  <2>4. ASSUME NEW x \in 0..d
        PROVE  new[x + 1] = Listing(image)[Left(g, x)] \o new[x]
    <3>1. x = d \/ x \in 0..d - 1  BY <1>1
    <3> QED  BY <3>1, <2>2, <2>3
  <2> QED  BY <2>1, <2>4, <1>2, <1>3 DEF Stacked
<1>11. Entry(s) = <<at, off>>  BY <1>2, <1>3, <1>4 DEF Entry
<1>12. ToCome(s.fs, new) = Listing(image)[part] \o rest[d]
  <2>1. ~Leads(image, Now(s.fs))
    BY <1>2, <1>3, <1>7 DEF Leads, Now
  <2>2. new[d + 1] = Listing(image)[part] \o rest[d]
    <3> HIDE DEF part
    <3> QED  BY <1>1, <1>9
  <2>3. Below(s.fs) = <<>>  BY <2>1 DEF Below
  <2>4. ToCome(s.fs, new) = <<>> \o new[d + 1]
    BY <2>3, <1>2, <1>3 DEF ToCome
  <2> HIDE DEF new, part
  <2> QED  BY <2>2, <2>4, <1>9
<1>13. Listing(image)[c] \o rest[d] = <<Entry(s)>> \o ToCome(s.fs, new)
  <2> DEFINE a == <<<<at, off>>>>
             u == Listing(image)[part]
             r == rest[d]
  <2>1. a \in Seq(Entries)
    <3>1. at \in Nat /\ off \in Nat  BY <1>1
    <3> HIDE DEF off
    <3> QED  BY <3>1 DEF Entries
  <2>2. u \in Seq(Entries) /\ r \in Seq(Entries)  BY <1>9
  <2>3. Listing(image)[c] = a \o u  BY <1>8
  <2>4. ToCome(s.fs, new) = u \o r  BY <1>12
  <2>5. <<Entry(s)>> = a  BY <1>11
  <2> HIDE DEF a, u, r, new, c
  <2>6. (a \o u) \o r = a \o (u \o r)
    BY <2>1, <2>2, ConcatAssociative
  <2> QED  BY <2>3, <2>4, <2>5, <2>6 DEF r
<1>14. Lists(s, Listing(image)[c] \o rest[d])
  BY <1>5, <1>10, <1>13 DEF Lists
<1> QED  BY <1>14 DEF s

\* Two states of the scan with the same levels have the same to come above.
LEMMA SameStack ==
  ASSUME NEW f, NEW g, NEW rest, Stacked(f, rest), g.depth = f.depth, f.depth \in Nat,
         \A d \in 0..f.depth : /\ g.this[d] = f.this[d] /\ g.base[d] = f.base[d]
                               /\ g.nleft[d] = f.nleft[d]
  PROVE  Stacked(g, rest)
<1>1. ASSUME NEW d \in 0..f.depth PROVE Left(g, d) = Left(f, d)
  BY DEF Left
<1> QED  BY <1>1 DEF Stacked

\* A bridge is entered, if it leads to a directory and is not too deep.
LEMMA ScanGoesOn ==
  ASSUME image \in Images, NEW f \in FsType, f.currentp \in Nat,
         NEW rest, Stacked(f, rest)
  PROVE  Lists(sdbfs_scan(f, FALSE), ToCome(f, rest))
<1> DEFINE d == f.depth
           r == At(image, f.currentp)
           at == f.base[d] + r.child
           b == f.base[d] + r.first
           g == AtBridge(f)
           s == sdbfs_scan(f, FALSE)
<1>1. /\ d \in Nat /\ d \in Levels /\ d + 1 \in 0..SDBFS_DEPTH
      /\ SDBFS_DEPTH \in Nat /\ d + 1 # 0
      /\ f.this \in [Levels -> Nat] /\ f.base \in [Levels -> Nat]
      /\ f.nleft \in [Levels -> 0..MaxRecords]
  <2>1. d \in Levels /\ f.this \in [Levels -> Nat] /\ f.base \in [Levels -> Nat]
        /\ f.nleft \in [Levels -> 0..MaxRecords]
    BY DEF FsType
  <2>2. d \in Nat /\ d + 1 \in 0..SDBFS_DEPTH /\ SDBFS_DEPTH \in Nat /\ d + 1 # 0
    <3>1. SDBFS_DEPTH \in Nat  BY SdbfsLibAssumption
    <3> HIDE DEF d
    <3> QED  BY <2>1, <3>1 DEF Levels
  <2> HIDE DEF d
  <2> QED  BY <2>1, <2>2
<1>2. at \in Nat /\ b \in Nat
  <2>1. r.child \in Nat /\ r.first \in Nat  BY RecordFacts
  <2>2. f.base[d] \in Nat  BY <1>1
  <2> HIDE DEF r, d
  <2> QED  BY <2>1, <2>2
<1>3. rest \in [0..SDBFS_DEPTH -> Seq(Entries)] /\ rest[0] = <<>>
      /\ rest[d + 1] \in Seq(Entries)
  <2>1. rest \in [0..SDBFS_DEPTH -> Seq(Entries)] /\ rest[0] = <<>>  BY DEF Stacked
  <2> QED  BY <2>1, <1>1
<1>4. /\ Now(f)[1] = d /\ Now(f)[2] = f.currentp /\ Now(f)[3] = f.base[d]
      /\ Leads(image, Now(f)) <=> EntersBridge(f) /\ IsDir(image, at)
      /\ Under(image, Now(f)) = <<d + 1, at, b, At(image, at).records>>
  BY DEF Now, Leads, Under, EntersBridge, Current
<1>5. EntersBridge(f) => d + 1 \in Levels
  BY <1>1 DEF EntersBridge, Levels
<1>6. ASSUME EntersBridge(f)
      PROVE  /\ g \in FsType /\ g.depth = d /\ g.nleft = f.nleft
             /\ g.this = [f.this EXCEPT ![d + 1] = at]
             /\ g.base = [f.base EXCEPT ![d + 1] = b]
  <2>1. g = [f EXCEPT !.this[d + 1] = at, !.base[d + 1] = b]
    BY DEF AtBridge, Current
  <2>2. d + 1 \in Levels  BY <1>5, <1>6
  <2>3. [f.this EXCEPT ![d + 1] = at] \in [Levels -> Nat]
        /\ [f.base EXCEPT ![d + 1] = b] \in [Levels -> Nat]
    <3> HIDE DEF at, b, d
    <3> QED  BY <1>1, <1>2
  <2> DEFINE t == [f.this EXCEPT ![d + 1] = at]
             v == [f.base EXCEPT ![d + 1] = b]
  <2>4. g = [f EXCEPT !.this = t, !.base = v]
    BY <2>1 DEF FsType
  <2>5. t \in [Levels -> Nat] /\ v \in [Levels -> Nat]  BY <2>3
  <2> HIDE DEF t, v, g
  <2>6. /\ g \in FsType /\ g.depth = d /\ g.nleft = f.nleft
        /\ g.this = t /\ g.base = v
    BY <2>4, <2>5 DEF FsType
  <2> QED  BY <2>6 DEF t, v
<1>7. CASE ~EntersBridge(f)
  <2>1. s = ReadEntry(f, f.depth)
    BY <1>7 DEF sdbfs_scan
  <2>2. ToCome(f, rest) = rest[d + 1]
    <3>1. Below(f) = <<>>  BY <1>4, <1>7 DEF Below
    <3> QED  BY <3>1, <1>3 DEF ToCome
  <2> QED  BY <2>1, <2>2, EntryIsNext
<1>8. CASE EntersBridge(f) /\ ~IsDir(image, at)
  <2>1. g.this[d + 1] = at  BY <1>1, <1>5, <1>6, <1>8
  <2> DEFINE h == scan_newdir(g, d + 1)
  <2>2. h = [g EXCEPT !.currentp = at]
    BY <2>1, <1>8 DEF scan_newdir
  <2>3. s = ReadEntry(h, d)
    <3>1. (d + 1) - 1 = d  BY <1>1
    <3>2. ~IsDir(image, g.this[d + 1]) /\ d + 1 # 0  BY <2>1, <1>1, <1>8
    <3> HIDE DEF d, h, at
    <3>3. s = ReadEntry(h, (d + 1) - 1)
      BY <3>2, <1>8 DEF sdbfs_scan, d, h
    <3> QED  BY <3>1, <3>3
  <2>4. /\ h \in FsType /\ h.depth = d /\ h.this = g.this /\ h.base = g.base
        /\ h.nleft = f.nleft
    <3> HIDE DEF g, h, at, d
    <3> QED  BY <2>2, <1>2, <1>6, <1>8 DEF FsType
  <2>5. Stacked(h, rest)
    <3>1. ASSUME NEW x \in 0..d
          PROVE h.this[x] = f.this[x] /\ h.base[x] = f.base[x] /\ h.nleft[x] = f.nleft[x]
      <4>1. x \in Levels /\ x # d + 1  BY <1>1 DEF Levels
      <4> HIDE DEF g, h, at, b, d
      <4> QED  BY <4>1, <2>4, <1>1, <1>6, <1>8
    <3> HIDE DEF h
    <3> QED  BY <3>1, <2>4, <1>1, SameStack
  <2>6. ToCome(f, rest) = rest[d + 1]
    <3>1. Below(f) = <<>>  BY <1>4, <1>8 DEF Below
    <3> QED  BY <3>1, <1>3 DEF ToCome
  <2> HIDE DEF h, s, d
  <2>7. Lists(ReadEntry(h, h.depth), rest[h.depth + 1])
    BY <2>4, <2>5, EntryIsNext
  <2> QED  BY <2>3, <2>4, <2>6, <2>7 DEF s
<1>9. CASE EntersBridge(f) /\ IsDir(image, at)
  <2>1. g.this[d + 1] = at /\ g.base[d + 1] = b
    BY <1>1, <1>5, <1>6, <1>9
  <2>2. s = [fs |-> Located(scan_newdir(g, d + 1)), dev |-> at]
    <3>1. IsDir(image, g.this[d + 1]) /\ g.this[d + 1] = at  BY <2>1, <1>9
    <3> HIDE DEF at
    <3> QED  BY <3>1, <1>9 DEF sdbfs_scan
  <2> DEFINE k == [g EXCEPT !.depth = (d + 1) - 1]
  <2>3. Stacked(k, rest)
    <3>1. k.depth = d /\ k.this = g.this /\ k.base = g.base /\ k.nleft = f.nleft
      <4>1. (d + 1) - 1 = d  BY <1>1
      <4> HIDE DEF g, d
      <4> QED  BY <4>1, <1>6, <1>9 DEF FsType
    <3>2. ASSUME NEW x \in 0..d
          PROVE k.this[x] = f.this[x] /\ k.base[x] = f.base[x] /\ k.nleft[x] = f.nleft[x]
      <4>1. x \in Levels /\ x # d + 1  BY <1>1 DEF Levels
      <4> HIDE DEF g, k, at, b, d
      <4> QED  BY <4>1, <3>1, <1>1, <1>6, <1>9
    <3> HIDE DEF k
    <3> QED  BY <3>1, <3>2, <1>1, SameStack
  <2>4. d + 1 \in Levels  BY <1>5, <1>9
  <2> DEFINE e == d + 1
  <2>5. Lists([fs |-> Located(scan_newdir(g, e)), dev |-> at],
              Listing(image)[<<e, at, g.base[e], At(image, at).records>>] \o rest[e])
    <3>1. g \in FsType /\ g.this[e] = at /\ e \in Levels /\ IsDir(image, at)
          /\ Stacked([g EXCEPT !.depth = e - 1], rest) /\ at \in Nat
      BY <2>1, <2>3, <2>4, <1>2, <1>6, <1>9
    <3> HIDE DEF g, e, at
    <3> QED  BY <3>1, <1>3, Entering
  <2>6. ToCome(f, rest) = Listing(image)[<<e, at, g.base[e], At(image, at).records>>]
                            \o rest[e]
    <3>1. Under(image, Now(f)) = <<e, at, g.base[e], At(image, at).records>>
      BY <1>4, <2>1
    <3> HIDE DEF g, e, at
    <3>2. Below(f) = Listing(image)[<<e, at, g.base[e], At(image, at).records>>]
      BY <3>1, <1>4, <1>9 DEF Below, at
    <3> QED  BY <3>2 DEF ToCome, e
  <2> HIDE DEF s
  <2>7. s = [fs |-> Located(scan_newdir(g, e)), dev |-> at]  BY <2>2
  <2> HIDE DEF g, e, at
  <2> QED  BY <2>5, <2>6, <2>7 DEF s
<1> QED  BY <1>7, <1>8, <1>9

\* A new scan starts over, whatever was left of the last one.
LEMMA ScanStarts ==
  ASSUME image \in Images, NEW f \in FsType
  PROVE  LET s == sdbfs_scan(f, TRUE)
         IN /\ IsDir(image, image.entry) =>
                 s.dev = image.entry /\ Lists(s, Contents(image))
            /\ ~IsDir(image, image.entry) =>
                 /\ s.dev = NoAddr /\ s.fs \in FsType /\ s.fs.depth = 0
                 /\ s.fs.currentp = image.entry /\ s.fs.nleft = f.nleft
                 /\ Contents(image) = <<>>
<1> DEFINE at == image.entry
           g == Restarted(f)
           s == sdbfs_scan(f, TRUE)
<1>1. at \in Nat /\ 0 \in Levels /\ SDBFS_DEPTH \in Nat
  <2>1. at \in Nat  BY ImageAssumption
  <2>2. 0 \in Levels /\ SDBFS_DEPTH \in Nat  BY SdbfsLibAssumption DEF Levels
  <2> QED  BY <2>1, <2>2
<1> DEFINE t == [f.this EXCEPT ![0] = at]
           v == [f.base EXCEPT ![0] = 0]
<1>2. /\ g \in FsType /\ g.depth = 0 /\ g.nleft = f.nleft /\ g.this[0] = at
      /\ g.base[0] = 0
  <2>1. g = [f EXCEPT !.base = v, !.this = t, !.depth = 0]
    BY DEF Restarted, FsType
  <2>2. t \in [Levels -> Nat] /\ v \in [Levels -> Nat] /\ t[0] = at /\ v[0] = 0
    BY <1>1 DEF FsType
  <2> HIDE DEF t, v, g
  <2> QED  BY <1>1, <2>1, <2>2 DEF FsType
<1>3. CASE IsDir(image, at)
  <2>1. s = [fs |-> Located(scan_newdir(g, 0)), dev |-> at]
    BY <1>2, <1>3 DEF sdbfs_scan
  <2> DEFINE rest == [x \in 0..SDBFS_DEPTH |-> <<>>]
  <2>2. rest \in [0..SDBFS_DEPTH -> Seq(Entries)] /\ rest[0] = <<>>
    BY <1>1
  <2> HIDE DEF rest, g
  <2>3. Lists([fs |-> Located(scan_newdir(g, 0)), dev |-> at],
              Listing(image)[<<0, at, g.base[0], At(image, at).records>>] \o rest[0])
    BY <1>1, <1>2, <1>3, <2>2, Entering
  <2> DEFINE c == <<0, at, 0, At(image, at).records>>
  <2>4. c \in Part
    <3>1. At(image, at).records \in 0..MaxRecords  BY RecordFacts
    <3> QED  BY <1>1, <3>1 DEF Part
  <2>5. Listing(image)[c] \in Seq(Entries)
    <3> HIDE DEF c
    <3> QED  BY <2>4, ListingUnfolds
  <2>6. Contents(image) = Listing(image)[c]  BY <1>3 DEF Contents
  <2>7. Listing(image)[<<0, at, g.base[0], At(image, at).records>>] = Listing(image)[c]
    BY <1>2
  <2> HIDE DEF c, s
  <2>8. Listing(image)[c] \o rest[0] = Listing(image)[c]  BY <2>2, <2>5
  <2>9. Lists(s, Contents(image))
    BY <2>1, <2>3, <2>6, <2>7, <2>8
  <2>10. s.dev = at  BY <2>1
  <2> QED  BY <2>9, <2>10, <1>3 DEF s
<1>4. CASE ~IsDir(image, at)
  <2>1. scan_newdir(g, 0) = [g EXCEPT !.currentp = at]
    BY <1>2, <1>4 DEF scan_newdir
  <2>2. s = [fs |-> [g EXCEPT !.currentp = at], dev |-> NoAddr]
    BY <2>1, <1>2, <1>4 DEF sdbfs_scan
  <2>3. LET h == [g EXCEPT !.currentp = at]
        IN h \in FsType /\ h.depth = 0 /\ h.currentp = at /\ h.nleft = f.nleft
    <3> HIDE DEF g, at
    <3> QED  BY <1>1, <1>2 DEF FsType
  <2>4. Contents(image) = <<>>  BY <1>4 DEF Contents
  <2> HIDE DEF s, g
  <2>5. s.dev = NoAddr /\ s.fs = [g EXCEPT !.currentp = at]  BY <2>2
  <2> QED  BY <2>3, <2>4, <2>5, <1>4 DEF s
<1> QED  BY <1>3, <1>4

\* In an image without a directory the scan goes nowhere.
LEMMA NothingThere ==
  ASSUME image \in Images, NEW f \in FsType, f.depth = 0, f.nleft[0] = 0,
         f.currentp = image.entry
  PROVE  sdbfs_scan(f, FALSE) = [fs |-> [f EXCEPT !.depth = 0], dev |-> NoAddr]
<1>1. ~EntersBridge(f)
  BY ImageAssumption DEF EntersBridge, Current
<1>2. sdbfs_scan(f, FALSE) = ReadEntry(f, 0)
  BY <1>1 DEF sdbfs_scan
<1>3. {e \in 0..0 : f.nleft[e] # 0} = {}  OBVIOUS
<1> QED  BY <1>2, <1>3 DEF ReadEntry

(***************************************************************************)
(* The scan in the uses of the library.                                    *)
(***************************************************************************)
\* What a use of the library is, and what a read returned.
OpType == [tool : Tools \cup {"none"}, key : Keys \cup {NoAddr},
           step : {"idle", "open", "opened", "eof", "noent", "start", "scan", "end",
                   "crashed"}]
ReadType == [at : Nat, from : Nat, count : Int, next : Nat]

\* The type invariant.
TypeOK ==
  /\ image \in Images /\ access \in Accesses /\ fs \in FsType
  /\ op \in OpType
  /\ listed \in Seq(Entries)
  /\ read \in ReadType
  /\ runs \in Nat

\* The image holds a directory; a loop over sdbfs_scan runs.
HasDir   == IsDir(image, image.entry)
Scanning == op.step \in {"open", "scan"}

\* What was returned, and what is still to come, is what the image contains.
InPlace == \E rest : Stacked(fs, rest) /\ Contents(image) = listed \o ToCome(fs, rest)

\* What was returned is how the contents start; at the end it is all of them.
Scanned ==
  /\ \E rest \in Seq(Entries) : Contents(image) = listed \o rest
  /\ op.step \in {"end", "noent"} => listed = Contents(image)
  /\ Scanning /\ HasDir => listed # <<>> /\ fs.currentp \in Nat /\ InPlace
  /\ ~HasDir => /\ listed = <<>> /\ fs.nleft[0] = 0
                /\ Scanning => fs.depth = 0 /\ fs.currentp = image.entry
                /\ op.step \notin {"opened", "eof"}

\* What is to come is a part of what the image contains.
LEMMA ToComeType ==
  ASSUME image \in Images, NEW f \in FsType, f.currentp \in Nat,
         NEW rest, Stacked(f, rest)
  PROVE  ToCome(f, rest) \in Seq(Entries)
<1>1. Below(f) \in Seq(Entries)
  <2> DEFINE u == Under(image, Now(f))
  <2>1. Leads(image, Now(f)) => u \in Part  BY NowIsPart, UnderIsPart
  <2> HIDE DEF u
  <2>2. u \in Part => Listing(image)[u] \in Seq(Entries)  BY ListingUnfolds
  <2>3. <<>> \in Seq(Entries)  OBVIOUS
  <2> QED  BY <2>1, <2>2, <2>3, Zenon DEF Below, u
<1>2. rest[f.depth + 1] \in Seq(Entries)
  <2>1. f.depth + 1 \in 0..SDBFS_DEPTH
    BY SdbfsLibAssumption DEF FsType, Levels
  <2> QED  BY <2>1 DEF Stacked
<1> QED  BY <1>1, <1>2, ConcatProperties DEF ToCome

\* What a scan that goes on does to what was listed.
Grows(s) ==
  /\ HasDir /\ Returned(s) /\ Entry(s) \in Entries
  /\ \E rest : /\ Stacked(s.fs, rest) /\ ToCome(s.fs, rest) \in Seq(Entries)
               /\ Contents(image) = Append(listed, Entry(s)) \o ToCome(s.fs, rest)

\* A record that the scan returns has an address.
LEMMA EntryType ==
  ASSUME image \in Images, NEW s, Returned(s)
  PROVE  Entry(s) \in Entries /\ s.dev # NoAddr
BY SdbfsLibAssumption DEF Returned, Entry, Entries, FsType

\* A scan that goes on: what it returns is next, or all was returned.
LEMMA NextScan ==
  ASSUME TypeOK, Scanned, Scanning
  PROVE  LET s == sdbfs_scan(fs, FALSE)
         IN IF s.dev = NoAddr
              THEN /\ s.fs \in FsType /\ listed = Contents(image)
                   /\ ~HasDir => s.fs.nleft[0] = 0
              ELSE Grows(s)
<1> DEFINE s == sdbfs_scan(fs, FALSE)
<1>1. CASE ~HasDir
  <2>1. s = [fs |-> [fs EXCEPT !.depth = 0], dev |-> NoAddr]
    BY <1>1, NothingThere DEF TypeOK, Scanned
  <2>2. [fs EXCEPT !.depth = 0] \in FsType /\ [fs EXCEPT !.depth = 0].nleft = fs.nleft
    <3>1. 0 \in Levels  BY SdbfsLibAssumption DEF Levels
    <3> QED  BY <3>1 DEF TypeOK, FsType
  <2>3. listed = Contents(image)
    BY <1>1 DEF Scanned, HasDir, Contents
  <2> HIDE DEF s
  <2>4. s.dev = NoAddr /\ s.fs = [fs EXCEPT !.depth = 0]  BY <2>1
  <2> QED  BY <2>2, <2>3, <2>4, <1>1 DEF s, Scanned
<1>2. CASE HasDir
  <2>1. fs \in FsType /\ fs.currentp \in Nat /\ image \in Images /\ listed \in Seq(Entries)
    BY <1>2 DEF TypeOK, Scanned
  <2>2. PICK rest : /\ Stacked(fs, rest)
                    /\ Contents(image) = listed \o ToCome(fs, rest)
    BY <1>2 DEF Scanned, InPlace
  <2>3. Lists(s, ToCome(fs, rest))  BY <2>1, <2>2, ScanGoesOn
  <2> HIDE DEF s
  <2>4. CASE s.dev = NoAddr
    <3>1. ~Returned(s)  BY <2>1, <2>4, EntryType
    <3>2. s.fs \in FsType /\ ToCome(fs, rest) = <<>>  BY <2>3, <3>1 DEF Lists
    <3>3. listed \o <<>> = listed  BY <2>1
    <3> QED  BY <2>2, <2>4, <3>2, <3>3, <1>2 DEF s
  <2>5. CASE s.dev # NoAddr
    <3>1. PICK new : /\ Returned(s) /\ Stacked(s.fs, new)
                     /\ ToCome(fs, rest) = <<Entry(s)>> \o ToCome(s.fs, new)
      BY <2>3, <2>5 DEF Lists
    <3>2. ToCome(s.fs, new) \in Seq(Entries) /\ Entry(s) \in Entries
      <4>1. s.fs \in FsType /\ s.fs.currentp \in Nat  BY <3>1 DEF Returned
      <4> QED  BY <4>1, <3>1, <2>1, ToComeType, EntryType
    <3> DEFINE t == ToCome(s.fs, new)
               e == Entry(s)
    <3>3. listed \o (<<e>> \o t) = (listed \o <<e>>) \o t
      <4> HIDE DEF t, e
      <4>1. <<e>> \in Seq(Entries) /\ t \in Seq(Entries)  BY <3>2 DEF t, e
      <4> QED  BY <4>1, <2>1, ConcatAssociative
    <3>4. Append(listed, e) = listed \o <<e>>
      <4> HIDE DEF e
      <4>1. e \in Entries  BY <3>2 DEF e
      <4> QED  BY <4>1, <2>1, AppendIsConcat
    <3>5. Contents(image) = Append(listed, e) \o t
      <4> HIDE DEF e, t
      <4>1. ToCome(fs, rest) = <<e>> \o t  BY <3>1 DEF e, t
      <4> QED  BY <2>2, <4>1, <3>3, <3>4
    <3> QED  BY <3>1, <3>2, <3>5, <2>5, <1>2 DEF Grows, s
  <2> QED  BY <2>4, <2>5
<1> QED  BY <1>1, <1>2

\* A scan that starts, whatever was listed before.
LEMMA FirstScan ==
  ASSUME TypeOK, ~HasDir => fs.nleft[0] = 0
  PROVE  LET s == sdbfs_scan(fs, TRUE)
         IN IF s.dev = NoAddr
              THEN /\ ~HasDir /\ s.fs \in FsType /\ s.fs.depth = 0
                   /\ s.fs.currentp = image.entry /\ s.fs.nleft[0] = 0
                   /\ Contents(image) = <<>>
              ELSE /\ HasDir /\ Returned(s) /\ Entry(s) \in Entries
                   /\ \E rest : /\ Stacked(s.fs, rest)
                                /\ ToCome(s.fs, rest) \in Seq(Entries)
                                /\ Contents(image) = <<Entry(s)>> \o ToCome(s.fs, rest)
<1> DEFINE s == sdbfs_scan(fs, TRUE)
<1>1. /\ HasDir => s.dev = image.entry /\ Lists(s, Contents(image))
      /\ ~HasDir => /\ s.dev = NoAddr /\ s.fs \in FsType /\ s.fs.depth = 0
                    /\ s.fs.currentp = image.entry /\ s.fs.nleft = fs.nleft
                    /\ Contents(image) = <<>>
  BY ScanStarts DEF TypeOK, HasDir
<1>2. image.entry \in Nat /\ image.entry # NoAddr /\ image \in Images
  BY ImageAssumption, SdbfsLibAssumption DEF TypeOK
<1> HIDE DEF s
<1>3. CASE ~HasDir  BY <1>1, <1>3 DEF s
<1>4. CASE HasDir
  <2>1. s.dev # NoAddr  BY <1>1, <1>2, <1>4
  <2>2. PICK new : /\ Returned(s) /\ Stacked(s.fs, new)
                   /\ Contents(image) = <<Entry(s)>> \o ToCome(s.fs, new)
    BY <1>1, <1>4, <2>1 DEF Lists
  <2>3. ToCome(s.fs, new) \in Seq(Entries) /\ Entry(s) \in Entries
    <3>1. s.fs \in FsType /\ s.fs.currentp \in Nat  BY <2>2 DEF Returned
    <3> QED  BY <3>1, <2>2, <1>2, ToComeType, EntryType
  <2> QED  BY <2>1, <2>2, <2>3, <1>4 DEF s
<1> QED  BY <1>3, <1>4

\* The record returned at place i is not what the open looks for.
Passed(i) == ~Matches(op.key, At(image, listed[i][1]))

\* The choice of an open, while it looks and when it has found.
Chosen ==
  /\ op.step \in {"open", "noent"} => \A i \in 2..Len(listed) : Passed(i)
  /\ op.step \in {"opened", "eof"} =>
       /\ Len(listed) >= 2 /\ \A i \in 2..Len(listed) - 1 : Passed(i)
       /\ ~Passed(Len(listed))
       /\ fs.currentp = listed[Len(listed)][1]
       /\ fs.f_offset = listed[Len(listed)][2]
       /\ fs.f_len = Current(fs).last + 1 - Current(fs).first
  /\ op.step \in {"open", "noent", "opened", "eof"} => op.key \in Keys

\* How far the open file was read.
Reading ==
  /\ op.step = "open" => read = Unread
  /\ op.step \in {"opened", "eof"} =>
       /\ read.next = fs.read_offset /\ read.next <= fs.f_len
       /\ read.count > 0 => /\ read.from = fs.f_offset + read.at
                            /\ read.at + read.count <= fs.f_len
       /\ op.step = "eof" /\ access = "mapped" => read.next = fs.f_len

\* sdb-extract is the first that uses the library.
Fresh ==
  /\ op.step # "idle" => runs # 0
  /\ runs = 0 \/ (op.step = "start" /\ op.tool = "extract") => fs.currentp = NoAddr

\* The inductive invariant.
IInv == TypeOK /\ Scanned /\ Chosen /\ Reading /\ Fresh

\* What an image contains is a sequence of addresses.
LEMMA ContentsType ==
  ASSUME image \in Images
  PROVE  Contents(image) \in Seq(Entries)
<1> DEFINE c == <<0, image.entry, 0, At(image, image.entry).records>>
<1>1. c \in Part
  <2>1. At(image, image.entry).records \in 0..MaxRecords  BY RecordFacts
  <2>2. image.entry \in Nat /\ 0 \in Levels
    BY ImageAssumption, SdbfsLibAssumption DEF Levels
  <2> QED  BY <2>1, <2>2 DEF Part
<1> HIDE DEF c
<1>2. Listing(image)[c] \in Seq(Entries)  BY <1>1, ListingUnfolds
<1>3. <<>> \in Seq(Entries)  OBVIOUS
<1> QED  BY <1>2, <1>3, Zenon DEF Contents, c

\* Init: nothing was scanned, opened or read.
LEMMA Starts == Init => IInv
<1> SUFFICES ASSUME Init PROVE IInv  OBVIOUS
<1>1. image \in Images /\ access \in Accesses /\ op = Idle /\ listed = <<>>
      /\ read = Unread /\ runs = 0
  BY DEF Init
<1>2. fs \in FsType /\ fs.nleft[0] = 0 /\ fs.currentp = NoAddr
  <2>1. 0 \in Levels /\ 0 \in 0..MaxRecords  BY SdbfsLibAssumption DEF Levels
  <2> DEFINE z == [d \in Levels |-> 0]
  <2>2. z \in [Levels -> Nat] /\ z \in [Levels -> 0..MaxRecords] /\ z[0] = 0  BY <2>1
  <2>3. fs = [currentp |-> NoAddr, f_len |-> 0, f_offset |-> 0, read_offset |-> 0,
              base |-> z, this |-> z, nleft |-> z, depth |-> 0]
    BY DEF Init
  <2> HIDE DEF z
  <2> QED  BY <2>1, <2>2, <2>3 DEF FsType
<1>3. TypeOK
  <2>1. op \in OpType
    BY <1>1 DEF Idle, OpType
  <2>2. read \in ReadType
    BY <1>1 DEF Unread, ReadType
  <2> QED  BY <1>1, <1>2, <2>1, <2>2 DEF TypeOK
<1>4. op.step = "idle"  BY <1>1 DEF Idle
<1>5. Scanned
  <2>1. Contents(image) = <<>> \o Contents(image)  BY <1>1, ContentsType
  <2> QED  BY <1>1, <1>2, <1>4, <2>1, ContentsType DEF Scanned, Scanning
<1>6. Chosen /\ Reading  BY <1>4 DEF Chosen, Reading
<1>7. Fresh  BY <1>2, <1>4 DEF Fresh
<1> QED  BY <1>3, <1>5, <1>6, <1>7 DEF IInv

\* A use of the library ends.
LEMMA EndsUse ==
  ASSUME IInv, open_failed \/ sdbfs_close \/ scan_end
  PROVE  IInv'
<1>1. /\ op' = Idle /\ op.step # "idle"
      /\ UNCHANGED <<image, access, listed, read, runs>>
      /\ fs' = fs \/ fs' = [fs EXCEPT !.currentp = NoAddr]
  BY DEF open_failed, sdbfs_close, scan_end
<1>2. fs' \in FsType /\ fs'.nleft = fs.nleft
  BY <1>1 DEF IInv, TypeOK, FsType
<1>3. op' \in OpType
      /\ op'.step = "idle"
  BY <1>1 DEF Idle, OpType
<1>4. TypeOK'  BY <1>1, <1>2, <1>3 DEF IInv, TypeOK
<1>5. Scanned'
  BY <1>1, <1>2, <1>3 DEF IInv, Scanned, Scanning, HasDir
<1>6. Chosen' /\ Reading'  BY <1>3 DEF Chosen, Reading
<1>7. Fresh'  BY <1>1, <1>3 DEF IInv, Fresh
<1> QED  BY <1>4, <1>5, <1>6, <1>7 DEF IInv

\* A tool that goes through the image begins.
LEMMA ScanBegins ==
  ASSUME IInv, NEW tool \in Tools, scan_start(tool)
  PROVE  IInv'
<1>1. /\ op' = [Idle EXCEPT !.tool = tool, !.step = "start"] /\ listed' = <<>>
      /\ read' = Unread /\ UNCHANGED <<image, access, fs>> /\ runs' = runs + 1
      /\ tool = "extract" => runs = 0
  BY DEF scan_start, Start
<1>2. /\ op' \in OpType
      /\ op'.step = "start" /\ op'.tool = tool
  BY <1>1 DEF Idle, OpType
<1>3. TypeOK'
  <2>1. read' \in ReadType
    BY <1>1 DEF Unread, ReadType
  <2>2. runs' \in Nat  BY <1>1 DEF IInv, TypeOK
  <2>3. listed' \in Seq(Entries)  BY <1>1
  <2> QED  BY <1>1, <1>2, <2>1, <2>2, <2>3 DEF IInv, TypeOK
<1>4. Scanned'
  <2>1. Contents(image) = <<>> \o Contents(image) /\ Contents(image) \in Seq(Entries)
    BY ContentsType DEF IInv, TypeOK
  <2> QED  BY <1>1, <1>2, <2>1 DEF IInv, Scanned, Scanning, HasDir
<1>5. Chosen' /\ Reading'  BY <1>2 DEF Chosen, Reading
<1>6. Fresh'
  <2>1. runs \in Nat /\ runs' = runs + 1  BY <1>1 DEF IInv, TypeOK
  <2> QED  BY <1>1, <1>2, <2>1 DEF IInv, Fresh
<1> QED  BY <1>3, <1>4, <1>5, <1>6 DEF IInv

\* What sdb-extract takes from a record.
LEMMA CreatedType ==
  ASSUME image \in Images, NEW dev
  PROVE  /\ create_file(dev) \in ReadType
         /\ Unread \in ReadType
<1>1. At(image, dev).first \in Nat
      /\ At(image, dev).last + 1 - At(image, dev).first \in Int
  BY RecordFacts
<1>2. CASE At(image, dev).name # <<".">>
  <2>1. create_file(dev) = [at |-> 0, from |-> At(image, dev).first,
          count |-> At(image, dev).last + 1 - At(image, dev).first, next |-> 0]
    BY <1>2, Zenon DEF create_file, Unread
  <2> QED  BY <1>1, <2>1 DEF Unread, ReadType
<1>3. CASE At(image, dev).name = <<".">>
  <2>1. create_file(dev) = Unread  BY <1>3, Zenon DEF create_file
  <2> QED  BY <2>1 DEF Unread, ReadType
<1> QED  BY <1>2, <1>3

\* A scan that starts puts what it returned in place.
LEMMA FirstScanned ==
  ASSUME IInv, image' = image,
         LET s == sdbfs_scan(fs, TRUE)
         IN /\ fs' = s.fs
            /\ listed' = IF s.dev = NoAddr THEN <<>> ELSE <<Entry(s)>>
            /\ op'.step \in (IF s.dev = NoAddr THEN {"open", "end"}
                             ELSE {"open", "scan"})
  PROVE  /\ fs' \in FsType /\ listed' \in Seq(Entries) /\ Len(listed') < 2
         /\ Scanned'
<1> DEFINE s == sdbfs_scan(fs, TRUE)
<1>1. /\ fs' = s.fs /\ image' = image
      /\ listed' = IF s.dev = NoAddr THEN <<>> ELSE <<Entry(s)>>
      /\ op'.step \in (IF s.dev = NoAddr THEN {"open", "end"} ELSE {"open", "scan"})
  OBVIOUS
<1>2. IF s.dev = NoAddr
        THEN /\ ~HasDir /\ s.fs \in FsType /\ s.fs.depth = 0
             /\ s.fs.currentp = image.entry /\ s.fs.nleft[0] = 0
             /\ Contents(image) = <<>>
        ELSE /\ HasDir /\ Returned(s) /\ Entry(s) \in Entries
             /\ \E rest : /\ Stacked(s.fs, rest)
                          /\ ToCome(s.fs, rest) \in Seq(Entries)
                          /\ Contents(image) = <<Entry(s)>> \o ToCome(s.fs, rest)
  BY FirstScan DEF IInv, Scanned
<1> HIDE DEF s
<1>3. CASE s.dev = NoAddr
  <2>1. Contents(image) = <<>> \o <<>> /\ <<>> \in Seq(Entries) /\ Len(<<>>) < 2
    BY <1>2, <1>3
  <2>2. /\ ~HasDir' /\ listed' = <<>> /\ fs'.nleft[0] = 0 /\ fs'.depth = 0
        /\ fs'.currentp = image.entry /\ Contents(image)' = <<>>
        /\ op'.step \notin {"opened", "eof"} /\ fs' \in FsType
    BY <1>1, <1>2, <1>3 DEF HasDir
  <2> QED  BY <2>1, <2>2, <1>1 DEF Scanned
<1>4. CASE s.dev # NoAddr
  <2>1. PICK rest : /\ Stacked(s.fs, rest)
                    /\ ToCome(s.fs, rest) \in Seq(Entries)
                    /\ Contents(image) = <<Entry(s)>> \o ToCome(s.fs, rest)
    BY <1>2, <1>4
  <2>2. Stacked(fs, rest)' /\ ToCome(fs, rest)' = ToCome(s.fs, rest)
    BY <2>1, <1>1 DEF Stacked, ToCome, Below, Left, Now
  <2>3. /\ HasDir' /\ fs'.currentp \in Nat /\ fs' \in FsType
    BY <1>1, <1>2, <1>4 DEF Returned, HasDir
  <2>4. listed' # <<>> /\ Len(listed') < 2 /\ listed' \in Seq(Entries)
    <3> DEFINE e == Entry(s)
    <3>1. e \in Entries /\ listed' = <<e>>  BY <1>1, <1>2, <1>4
    <3> HIDE DEF e
    <3> DEFINE l == <<e>>
    <3>2. l # <<>> /\ Len(l) = 1 /\ l \in Seq(Entries)  BY <3>1
    <3>3. listed' = l  BY <3>1
    <3> HIDE DEF l
    <3>4. Len(l) < 2  BY <3>2
    <3> QED  BY <3>2, <3>3, <3>4, Zenon
  <2>5. Contents(image)' = listed' \o ToCome(s.fs, rest)
    BY <2>1, <1>1, <1>4
  <2>6. op'.step \notin {"end", "noent"}  BY <1>1, <1>4
  <2> QED  BY <2>1, <2>2, <2>3, <2>4, <2>5, <2>6 DEF Scanned, InPlace
<1> QED  BY <1>3, <1>4

\* The first turn of a loop over sdbfs_scan.
LEMMA FirstTurn ==
  ASSUME IInv, op.step = "start", Turn(fs, TRUE), UNCHANGED <<image, access, runs>>
  PROVE  IInv'
<1> DEFINE s == sdbfs_scan(fs, TRUE)
<1>1. /\ fs' = s.fs
      /\ listed' = IF s.dev = NoAddr THEN listed ELSE Append(<<>>, Entry(s))
      /\ op' = [op EXCEPT !.step = IF s.dev = NoAddr THEN "end" ELSE "scan"]
      /\ read' = IF op.tool = "extract" /\ s.dev # NoAddr
                   THEN create_file(s.dev) ELSE Unread
  BY DEF Turn, Goes
<1>2. s.dev = NoAddr => listed = <<>>
  BY FirstScan DEF IInv, Scanned
<1>3. /\ image' = image /\ access' = access /\ runs' = runs /\ image \in Images
      /\ op \in OpType
  BY DEF IInv, TypeOK
<1>4. listed' = IF s.dev = NoAddr THEN <<>> ELSE <<Entry(s)>>
  <2> DEFINE e == Entry(s)
  <2>1. listed' = IF s.dev = NoAddr THEN listed ELSE Append(<<>>, e)  BY <1>1
  <2> HIDE DEF s, e
  <2>2. Append(<<>>, e) = <<e>>  OBVIOUS
  <2>3. listed' = IF s.dev = NoAddr THEN <<>> ELSE <<e>>  BY <2>1, <2>2, <1>2
  <2> QED  BY <2>3 DEF e
<1>5. op'.step = (IF s.dev = NoAddr THEN "end" ELSE "scan")
      /\ op' \in OpType
  <2> HIDE DEF s
  <2> QED  BY <1>1, <1>3 DEF OpType
<1>6. fs' \in FsType /\ listed' \in Seq(Entries) /\ Scanned'
  <2>1. op'.step \in (IF s.dev = NoAddr THEN {"open", "end"} ELSE {"open", "scan"})
    BY <1>5
  <2> QED  BY <2>1, <1>1, <1>3, <1>4, FirstScanned
<1> HIDE DEF s
<1>7. TypeOK'
  <2>1. read' \in ReadType
    BY <1>1, <1>3, CreatedType
  <2> QED  BY <1>3, <1>5, <1>6, <2>1 DEF IInv, TypeOK
<1>8. op'.step \in {"end", "scan"}  BY <1>5
<1>9. Chosen' /\ Reading'  BY <1>8 DEF Chosen, Reading
<1>10. Fresh'  BY <1>3, <1>8 DEF IInv, Fresh
<1> QED  BY <1>6, <1>7, <1>9, <1>10 DEF IInv

\* One step of a loop over sdbfs_scan that goes on: the list grows, or it is
\* complete.
LEMMA ScanStep ==
  ASSUME IInv, Scanning, UNCHANGED <<image, access, runs>>,
         LET s == sdbfs_scan(fs, FALSE)
         IN /\ listed' = IF s.dev = NoAddr THEN listed ELSE Append(listed, Entry(s))
            /\ fs' = s.fs
            /\ op'.step \in (IF s.dev = NoAddr THEN {"end", "noent"}
                             ELSE {"open", "scan", "opened"})
  PROVE  /\ fs' \in FsType /\ listed' \in Seq(Entries) /\ Scanned'
<1> DEFINE s == sdbfs_scan(fs, FALSE)
<1>1. /\ listed' = IF s.dev = NoAddr THEN listed ELSE Append(listed, Entry(s))
      /\ fs' = s.fs /\ image' = image /\ image \in Images /\ listed \in Seq(Entries)
      /\ op'.step \in (IF s.dev = NoAddr THEN {"end", "noent"}
                       ELSE {"open", "scan", "opened"})
  BY DEF IInv, TypeOK
<1>2. IF s.dev = NoAddr
        THEN /\ s.fs \in FsType /\ listed = Contents(image)
             /\ ~HasDir => s.fs.nleft[0] = 0
        ELSE Grows(s)
  BY NextScan DEF IInv
<1> HIDE DEF s
<1>3. CASE s.dev = NoAddr
  <2>1. Contents(image) = listed \o <<>> /\ <<>> \in Seq(Entries)
    BY <1>1, <1>2, <1>3
  <2>2. ~Scanning' /\ op'.step \notin {"opened", "eof"}
    BY <1>1, <1>3 DEF Scanning
  <2>3. ~HasDir => listed = <<>>  BY DEF IInv, Scanned
  <2> QED  BY <1>1, <1>2, <1>3, <2>1, <2>2, <2>3 DEF Scanned, HasDir
<1>4. CASE s.dev # NoAddr
  <2>1. /\ HasDir /\ s.fs \in FsType /\ s.fs.currentp \in Nat /\ Entry(s) \in Entries
    BY <1>2, <1>4 DEF Grows, Returned
  <2>2. PICK rest : /\ Stacked(s.fs, rest) /\ ToCome(s.fs, rest) \in Seq(Entries)
                    /\ Contents(image) = Append(listed, Entry(s)) \o ToCome(s.fs, rest)
    BY <1>2, <1>4 DEF Grows
  <2>3. /\ listed' = Append(listed, Entry(s)) /\ listed' \in Seq(Entries)
        /\ listed' # <<>>
    <3> DEFINE e == Entry(s)
    <3>1. e \in Entries  BY <2>1
    <3>2. listed' = Append(listed, e)  BY <1>1, <1>4
    <3> HIDE DEF e
    <3>3. Append(listed, e) \in Seq(Entries) /\ Append(listed, e) # <<>>
      BY <3>1, <1>1
    <3> QED  BY <3>2, <3>3 DEF e
  <2>4. Stacked(fs, rest)' /\ ToCome(fs, rest)' = ToCome(s.fs, rest)
    BY <2>2, <1>1 DEF Stacked, ToCome, Below, Left, Now
  <2>5. Contents(image)' = listed' \o ToCome(s.fs, rest)
    BY <2>2, <2>3, <1>1
  <2>6. HasDir' /\ fs' \in FsType /\ fs'.currentp \in Nat
    BY <2>1, <1>1 DEF HasDir
  <2>7. op'.step \notin {"end", "noent"}  BY <1>1, <1>4
  <2> QED  BY <2>2, <2>3, <2>4, <2>5, <2>6, <2>7 DEF Scanned, InPlace
<1> QED  BY <1>3, <1>4

\* What __open does to a file system.
LEMMA OpenedType ==
  ASSUME image \in Images, NEW f \in FsType
  PROVE  /\ __open(f) \in FsType
         /\ __open(f).currentp = f.currentp /\ __open(f).read_offset = 0
         /\ __open(f).f_offset = f.base[f.depth] + At(image, f.currentp).first
         /\ __open(f).f_len = At(image, f.currentp).last + 1
                                - At(image, f.currentp).first
         /\ __open(f).f_len \in Nat
<1> DEFINE r == At(image, f.currentp)
           at == f.base[f.depth] + r.first
           len == r.last + 1 - r.first
<1>1. r.first \in Nat /\ r.last \in Int /\ r.last + 1 >= r.first
  BY RecordFacts
<1>2. f.base[f.depth] \in Nat  BY DEF FsType
<1>3. at \in Nat /\ len \in Nat  BY <1>1, <1>2
<1>4. __open(f) = [[f EXCEPT !.f_offset = at] EXCEPT !.f_len = len, !.read_offset = 0]
  <2>1. Located(f) = [f EXCEPT !.f_offset = at]  BY Zenon DEF Located, Current
  <2> QED  BY <2>1, Zenon DEF __open, Current
<1> HIDE DEF at, len
<1>5. /\ __open(f) \in FsType
      /\ __open(f).currentp = f.currentp /\ __open(f).read_offset = 0
      /\ __open(f).f_offset = at /\ __open(f).f_len = len
  <2> DEFINE g == [f EXCEPT !.f_offset = at]
  <2>1. g \in FsType /\ g.f_offset = at /\ g.currentp = f.currentp
    BY <1>3 DEF FsType
  <2> HIDE DEF g
  <2>2. __open(f) = [g EXCEPT !.f_len = len, !.read_offset = 0]  BY <1>4 DEF g
  <2> DEFINE h == [g EXCEPT !.f_len = len]
  <2>3. h \in FsType /\ h.f_offset = at /\ h.currentp = f.currentp /\ h.f_len = len
    BY <1>3, <2>1 DEF FsType
  <2>4. __open(f) = [h EXCEPT !.read_offset = 0]  BY <2>2
  <2> HIDE DEF h
  <2> QED  BY <2>3, <2>4 DEF FsType
<1> QED  BY <1>3, <1>5 DEF at, len

\* sdbfs_open_name and sdbfs_open_id begin.
LEMMA OpenBegins ==
  ASSUME IInv, NEW tool \in Tools, NEW key \in Keys, sdbfs_open(tool, key)
  PROVE  IInv'
<1> DEFINE s == sdbfs_scan(fs, TRUE)
<1>1. /\ op' = [tool |-> tool, key |-> key, step |-> "open"]
      /\ fs' = s.fs /\ read' = Unread /\ UNCHANGED <<image, access>>
      /\ listed' = (IF s.dev = NoAddr THEN <<>> ELSE <<Entry(s)>>)
      /\ runs' = runs + 1
  BY DEF sdbfs_open, Start
<1>2. /\ op'.step = "open" /\ op'.key = key
      /\ op' \in OpType
  BY <1>1 DEF OpType
<1>3. /\ fs' \in FsType /\ listed' \in Seq(Entries) /\ Len(listed') < 2 /\ Scanned'
  <2>1. op'.step \in (IF s.dev = NoAddr THEN {"open", "end"} ELSE {"open", "scan"})
    <3> HIDE DEF s
    <3> QED  BY <1>2
  <2> QED  BY <2>1, <1>1, FirstScanned
<1> HIDE DEF s
<1>4. runs \in Nat /\ runs' \in Nat /\ runs' # 0
  BY <1>1 DEF IInv, TypeOK
<1>5. TypeOK'
  <2>1. read' \in ReadType
    BY <1>1 DEF Unread, ReadType
  <2> QED  BY <1>1, <1>2, <1>3, <1>4, <2>1 DEF IInv, TypeOK
<1>6. Chosen'
  <2>1. Len(listed') \in Nat  BY <1>3
  <2>2. \A i \in 2..Len(listed') : FALSE  BY <1>3, <2>1
  <2> QED  BY <1>2, <2>2 DEF Chosen
<1>7. Reading' /\ Fresh'  BY <1>1, <1>2, <1>4 DEF Reading, Fresh
<1> QED  BY <1>3, <1>5, <1>6, <1>7 DEF IInv

\* The loop of an open: the next record matches, does not, or there is none.
LEMMA OpenGoesOn ==
  ASSUME IInv, open_next
  PROVE  IInv'
<1> DEFINE s == sdbfs_scan(fs, FALSE)
           found == s.dev # NoAddr /\ Matches(op.key, At(image, s.dev))
<1>1. /\ op.step = "open" /\ UNCHANGED <<image, access, read, runs>>
      /\ fs' = IF found THEN __open(s.fs) ELSE s.fs
      /\ listed' = IF s.dev = NoAddr THEN listed ELSE Append(listed, Entry(s))
      /\ op' = [op EXCEPT !.step = IF found THEN "opened"
                                   ELSE IF s.dev = NoAddr THEN "noent" ELSE "open"]
  <2>1. CASE found  BY <2>1 DEF open_next, Goes
  <2>2. CASE ~found /\ s.dev = NoAddr  BY <2>2 DEF open_next, Goes
  <2>3. CASE ~found /\ s.dev # NoAddr  BY <2>3 DEF open_next, Goes
  <2> QED  BY <2>1, <2>2, <2>3
<1>2. IF s.dev = NoAddr
        THEN /\ s.fs \in FsType /\ listed = Contents(image)
             /\ ~HasDir => s.fs.nleft[0] = 0
        ELSE Grows(s)
  BY <1>1, NextScan DEF IInv, Scanning
<1>3. /\ image \in Images /\ listed \in Seq(Entries) /\ fs \in FsType
      /\ op \in OpType
      /\ read = Unread /\ op.key \in Keys /\ runs # 0
  BY <1>1 DEF IInv, TypeOK, Reading, Chosen, Fresh
<1>4. \A i \in 2..Len(listed) : Passed(i)
  BY <1>1 DEF IInv, Chosen
<1>5. ~found => fs' \in FsType /\ listed' \in Seq(Entries) /\ Scanned'
  <2> SUFFICES ASSUME ~found PROVE fs' \in FsType /\ listed' \in Seq(Entries) /\ Scanned'
    OBVIOUS
  <2>1. fs' = s.fs  BY <1>1
  <2>2. op'.step \in (IF s.dev = NoAddr THEN {"end", "noent"}
                      ELSE {"open", "scan", "opened"})
    <3> HIDE DEF s, found
    <3>1. op'.step = IF s.dev = NoAddr THEN "noent" ELSE "open"  BY <1>1, <1>3
    <3> QED  BY <3>1
  <2> QED  BY <2>1, <2>2, <1>1, ScanStep DEF Scanning
<1>6. found <=> s.dev # NoAddr /\ Matches(op.key, At(image, s.dev))  OBVIOUS
<1> HIDE DEF s, found
<1>7. /\ op' \in OpType
      /\ op'.key = op.key
      /\ op'.step = IF found THEN "opened"
                    ELSE IF s.dev = NoAddr THEN "noent" ELSE "open"
  BY <1>1, <1>3 DEF OpType
<1>8. s.dev # NoAddr =>
        /\ listed' \in Seq(Entries) /\ Len(listed') = Len(listed) + 1
        /\ \A i \in 1..Len(listed) : listed'[i] = listed[i]
        /\ listed'[Len(listed')] = <<s.dev, s.fs.f_offset>>
        /\ Len(listed) \in Nat \ {0}
        /\ HasDir /\ s.fs \in FsType /\ s.dev \in Nat /\ s.fs.currentp = s.dev
        /\ s.fs.f_offset = s.fs.base[s.fs.depth] + At(image, s.dev).first
  <2> SUFFICES ASSUME s.dev # NoAddr
               PROVE  /\ listed' \in Seq(Entries) /\ Len(listed') = Len(listed) + 1
                      /\ \A i \in 1..Len(listed) : listed'[i] = listed[i]
                      /\ listed'[Len(listed')] = <<s.dev, s.fs.f_offset>>
                      /\ Len(listed) \in Nat \ {0}
                      /\ HasDir /\ s.fs \in FsType /\ s.dev \in Nat
                      /\ s.fs.currentp = s.dev
                      /\ s.fs.f_offset = s.fs.base[s.fs.depth] + At(image, s.dev).first
    OBVIOUS
  <2> DEFINE e == Entry(s)
  <2>1. HasDir /\ Returned(s) /\ e \in Entries  BY <1>2 DEF Grows
  <2>2. listed # <<>>  BY <2>1, <1>1 DEF IInv, Scanned, Scanning
  <2>3. listed' = Append(listed, e)  BY <1>1
  <2>4. e = <<s.dev, s.fs.f_offset>>  BY DEF Entry
  <2> HIDE DEF e
  <2>5. /\ listed' \in Seq(Entries) /\ Len(listed') = Len(listed) + 1
        /\ \A i \in 1..Len(listed) : listed'[i] = listed[i]
        /\ listed'[Len(listed')] = e
    BY <2>1, <2>3, <1>3, AppendProperties
  <2>6. Len(listed) \in Nat \ {0}  BY <2>2, <1>3, EmptySeq
  <2> QED  BY <2>1, <2>4, <2>5, <2>6 DEF Returned
<1>9. CASE found
  <2>1. s.dev # NoAddr /\ Matches(op.key, At(image, s.dev))  BY <1>6, <1>9
  <2>2. /\ fs' \in FsType /\ fs'.currentp = s.dev /\ fs'.f_offset = s.fs.f_offset
        /\ fs'.f_len = At(image, s.dev).last + 1 - At(image, s.dev).first
        /\ fs'.f_len \in Nat /\ fs'.read_offset = 0
    <3>1. fs' = __open(s.fs)  BY <1>1, <1>9
    <3> QED  BY <3>1, <1>3, <1>8, <2>1, OpenedType
  <2>3. PICK n \in Nat : /\ listed' \in Seq(Entries) /\ n = Len(listed') /\ n >= 2
                         /\ n = Len(listed) + 1
                         /\ listed'[n] = <<s.dev, s.fs.f_offset>>
    <3>1. Len(listed') \in Nat /\ Len(listed') >= 2  BY <1>8, <2>1
    <3> QED  BY <3>1, <1>8, <2>1
  <2>4. TypeOK'
    BY <1>1, <1>7, <2>2, <2>3 DEF IInv, TypeOK
  <2>5. Scanned'
    <3>1. PICK rest : /\ ToCome(s.fs, rest) \in Seq(Entries)
                      /\ Contents(image) = Append(listed, Entry(s)) \o ToCome(s.fs, rest)
      BY <1>2, <2>1 DEF Grows
    <3>2. Contents(image)' = listed' \o ToCome(s.fs, rest)
      BY <3>1, <2>1, <1>1
    <3>3. HasDir' /\ ~Scanning' /\ op'.step \notin {"end", "noent"}
      BY <1>1, <1>7, <1>8, <1>9, <2>1 DEF HasDir, Scanning
    <3> QED  BY <3>1, <3>2, <3>3 DEF Scanned
  <2>6. Chosen'
    <3>1. \A i \in 2..n - 1 : Passed(i)'
      <4> SUFFICES ASSUME NEW i \in 2..n - 1 PROVE Passed(i)'  OBVIOUS
      <4>1. i \in 2..Len(listed) /\ i \in 1..Len(listed)  BY <2>3, <1>8, <2>1
      <4>2. listed'[i] = listed[i]  BY <4>1, <1>8, <2>1
      <4> QED  BY <4>1, <4>2, <1>1, <1>4, <1>7 DEF Passed
    <3>2. ~Passed(n)'
      <4>1. listed'[n][1] = s.dev  BY <2>3
      <4> QED  BY <4>1, <2>1, <1>1, <1>7 DEF Passed
    <3>3. listed'[n][1] = s.dev /\ listed'[n][2] = s.fs.f_offset  BY <2>3
    <3>4. op'.step = "opened" /\ op'.key \in Keys  BY <1>3, <1>7, <1>9
    <3>5. fs'.f_len = Current(fs)'.last + 1 - Current(fs)'.first
      BY <1>1, <2>2 DEF Current
    <3> QED  BY <3>1, <3>2, <3>3, <3>4, <3>5, <2>2, <2>3 DEF Chosen
  <2>7. Reading'
    <3>1. read' = Unread /\ op'.step = "opened"  BY <1>1, <1>3, <1>7, <1>9
    <3>2. Unread.next = 0 /\ Unread.count = 0  BY DEF Unread
    <3> QED  BY <3>1, <3>2, <2>2 DEF Reading
  <2>8. Fresh'  BY <1>1, <1>3, <1>7, <1>9 DEF Fresh
  <2> QED  BY <2>4, <2>5, <2>6, <2>7, <2>8 DEF IInv
<1>10. CASE ~found
  <2>1. op'.step = IF s.dev = NoAddr THEN "noent" ELSE "open"  BY <1>7, <1>10
  <2>2. TypeOK'  BY <1>1, <1>5, <1>7, <1>10 DEF IInv, TypeOK
  <2>3. \A i \in 2..Len(listed') : Passed(i)'
    <3>1. CASE s.dev = NoAddr
      <4>1. listed' = listed  BY <1>1, <3>1
      <4> QED  BY <4>1, <1>1, <1>4, <1>7 DEF Passed
    <3>2. CASE s.dev # NoAddr
      <4> SUFFICES ASSUME NEW i \in 2..Len(listed') PROVE Passed(i)'  OBVIOUS
      <4>1. CASE i = Len(listed')
        <5>1. listed'[i][1] = s.dev  BY <4>1, <1>8, <3>2
        <5>2. ~Matches(op.key, At(image, s.dev))  BY <1>6, <1>10, <3>2
        <5> QED  BY <5>1, <5>2, <1>1, <1>7 DEF Passed
      <4>2. CASE i # Len(listed')
        <5>1. i \in 2..Len(listed) /\ i \in 1..Len(listed)  BY <4>2, <1>8, <3>2
        <5>2. listed'[i] = listed[i]  BY <5>1, <1>8, <3>2
        <5> QED  BY <5>1, <5>2, <1>1, <1>4, <1>7 DEF Passed
      <4> QED  BY <4>1, <4>2
    <3> QED  BY <3>1, <3>2
  <2>4. Chosen'  BY <2>1, <2>3, <1>3, <1>7 DEF Chosen
  <2>5. Reading' /\ Fresh'  BY <2>1, <1>1, <1>3 DEF Reading, Fresh
  <2> QED  BY <2>2, <2>4, <2>5, <1>5, <1>10 DEF IInv
<1> QED  BY <1>9, <1>10

\* A read of the open file.
LEMMA ReadGoesOn ==
  ASSUME IInv, NEW asked \in Offsets \cup {-1}, sdbfs_fread(asked)
  PROVE  IInv'
<1> DEFINE offset == IF asked < 0 THEN fs.read_offset ELSE asked
           at == IF asked < 0 THEN read.next ELSE asked
<1>1. PICK ret \in fread_data(offset, Count(fs, offset, Buf)) :
        /\ fs' = AfterRead(fs, offset, ret)
        /\ read' = [at |-> at, from |-> fs.f_offset + offset, count |-> ret,
                    next |-> IF ret > 0 THEN at + ret ELSE read.next]
        /\ op' = [op EXCEPT !.step = IF asked < 0 /\ ret <= 0 THEN "eof" ELSE "opened"]
  BY DEF sdbfs_fread, Goes
<1>2. /\ op.step = "opened" /\ asked <= fs.f_len
      /\ UNCHANGED <<image, access, listed, runs>>
  BY DEF sdbfs_fread
<1>3. /\ op \in OpType
      /\ fs \in FsType /\ read \in ReadType
  BY DEF IInv, TypeOK
<1>4. /\ fs.f_len \in Int /\ fs.read_offset \in Nat /\ fs.f_offset \in Nat
      /\ read.next \in Nat /\ read.next = fs.read_offset /\ read.next <= fs.f_len
  BY <1>2, <1>3 DEF IInv, Reading, FsType
<1>5. asked \in Int /\ Buf \in Nat \ {0} /\ (asked < 0 \/ asked \in Nat)
  BY SdbfsLibAssumption
<1>6. offset \in Nat /\ at = offset /\ offset <= fs.f_len
  BY <1>2, <1>4, <1>5
<1> DEFINE most == Count(fs, offset, Buf)
<1>7. /\ most \in Nat /\ offset + most <= fs.f_len
      /\ most = 0 => offset = fs.f_len
  <2> HIDE DEF offset
  <2> QED  BY <1>4, <1>5, <1>6 DEF Count
<1>8. ret \in Int /\ ret <= most /\ (access = "mapped" => ret = most)
  <2> HIDE DEF most, offset
  <2>1. ret \in (IF access = "mapped" THEN {most} ELSE -1..most)
    BY <1>1 DEF fread_data, UsesData, most
  <2> QED  BY <2>1, <1>7
<1> HIDE DEF most, at, offset
<1>9. /\ fs' \in FsType /\ fs'.nleft = fs.nleft /\ fs'.f_len = fs.f_len
      /\ fs'.f_offset = fs.f_offset /\ fs'.currentp = fs.currentp
      /\ fs'.read_offset = IF ret > 0 THEN offset + ret ELSE fs.read_offset
  <2>1. CASE ret > 0
    <3> DEFINE end == offset + ret
    <3>1. end \in Nat  BY <2>1, <1>6, <1>8
    <3>2. fs' = [fs EXCEPT !.read_offset = end]  BY <2>1, <1>1 DEF AfterRead
    <3> HIDE DEF end
    <3>3. fs' \in FsType /\ fs'.nleft = fs.nleft /\ fs'.f_len = fs.f_len
          /\ fs'.f_offset = fs.f_offset /\ fs'.currentp = fs.currentp
          /\ fs'.read_offset = end
      BY <3>1, <3>2, <1>3 DEF FsType
    <3> QED  BY <3>3, <2>1 DEF end
  <2>2. CASE ~(ret > 0)
    <3>1. fs' = fs  BY <2>2, <1>1 DEF AfterRead
    <3> QED  BY <3>1, <2>2, <1>3
  <2> QED  BY <2>1, <2>2
<1>10. /\ op' \in OpType
       /\ op'.key = op.key /\ op'.step \in {"opened", "eof"}
       /\ op'.step = "eof" => asked < 0 /\ ret <= 0
  BY <1>1, <1>3 DEF OpType
<1>11. /\ read'.at = at /\ read'.from = fs.f_offset + offset /\ read'.count = ret
       /\ read'.next = (IF ret > 0 THEN at + ret ELSE read.next)
       /\ read' \in ReadType
  <2> DEFINE next == IF ret > 0 THEN at + ret ELSE read.next
             from == fs.f_offset + offset
  <2>1. next \in Nat /\ from \in Nat /\ at \in Nat  BY <1>4, <1>6, <1>8
  <2>2. read' = [at |-> at, from |-> from, count |-> ret, next |-> next]  BY <1>1
  <2> HIDE DEF next, from
  <2>3. /\ read'.at = at /\ read'.from = from /\ read'.count = ret
        /\ read'.next = next /\ read' \in ReadType
    BY <2>1, <2>2, <1>8 DEF ReadType
  <2> QED  BY <2>3 DEF next, from
<1>12. TypeOK'  BY <1>2, <1>9, <1>10, <1>11 DEF IInv, TypeOK
<1>13. Scanned'
  BY <1>2, <1>9, <1>10 DEF IInv, Scanned, Scanning, HasDir
<1>14. Chosen'
  <2>1. \A i : Passed(i)' <=> Passed(i)  BY <1>2, <1>10 DEF Passed
  <2>2. Current(fs)' = Current(fs)  BY <1>2, <1>9 DEF Current
  <2> QED  BY <2>1, <2>2, <1>2, <1>9, <1>10 DEF IInv, Chosen
<1>15. Reading'
  <2>1. op'.step # "open"  BY <1>10
  <2>2. read'.next = fs'.read_offset  BY <1>4, <1>6, <1>9, <1>11
  <2>3. read'.next <= fs'.f_len  BY <1>4, <1>6, <1>7, <1>8, <1>9, <1>11
  <2>4. read'.count > 0 => /\ read'.from = fs'.f_offset + read'.at
                           /\ read'.at + read'.count <= fs'.f_len
    BY <1>4, <1>6, <1>7, <1>8, <1>9, <1>11
  <2>5. op'.step = "eof" /\ access' = "mapped" => read'.next = fs'.f_len
    <3> SUFFICES ASSUME op'.step = "eof", access' = "mapped"
                 PROVE  read'.next = fs'.f_len
      OBVIOUS
    <3>1. asked < 0 /\ ret <= 0 /\ ret = most  BY <1>2, <1>8, <1>10
    <3>2. offset = fs.f_len  BY <3>1, <1>7
    <3>3. read'.next = read.next /\ fs.read_offset = offset
      BY <3>1, <1>8, <1>11 DEF offset
    <3> QED  BY <3>2, <3>3, <1>4, <1>9
  <2> QED  BY <2>1, <2>2, <2>3, <2>4, <2>5 DEF Reading
<1>16. Fresh'  BY <1>2, <1>10 DEF IInv, Fresh
<1> QED  BY <1>12, <1>13, <1>14, <1>15, <1>16 DEF IInv

\* A turn of a loop over sdbfs_scan that goes on.
LEMMA NextTurn ==
  ASSUME IInv, scan_next, UNCHANGED <<image, access, runs>>
  PROVE  IInv'
<1> DEFINE s == sdbfs_scan(fs, FALSE)
<1>1. /\ fs' = s.fs /\ op.step = "scan"
      /\ listed' = IF s.dev = NoAddr THEN listed ELSE Append(listed, Entry(s))
      /\ op' = [op EXCEPT !.step = IF s.dev = NoAddr THEN "end" ELSE "scan"]
      /\ read' = IF op.tool = "extract" /\ s.dev # NoAddr
                   THEN create_file(s.dev) ELSE Unread
  BY DEF scan_next, Turn, Goes
<1>2. /\ image' = image /\ access' = access /\ runs' = runs /\ image \in Images
      /\ op \in OpType
  BY DEF IInv, TypeOK
<1>3. op'.step = (IF s.dev = NoAddr THEN "end" ELSE "scan")
      /\ op' \in OpType
  <2> HIDE DEF s
  <2> QED  BY <1>1, <1>2 DEF OpType
<1>4. fs' \in FsType /\ listed' \in Seq(Entries) /\ Scanned'
  <2>1. op'.step \in (IF s.dev = NoAddr THEN {"end", "noent"}
                      ELSE {"open", "scan", "opened"})
    BY <1>3
  <2> QED  BY <2>1, <1>1, ScanStep DEF Scanning
<1> HIDE DEF s
<1>5. TypeOK'
  <2>1. read' \in ReadType
    BY <1>1, <1>2, CreatedType
  <2> QED  BY <1>2, <1>3, <1>4, <2>1 DEF IInv, TypeOK
<1>6. op'.step \in {"end", "scan"} /\ op.step # "idle"  BY <1>1, <1>3
<1>7. Chosen' /\ Reading'  BY <1>6 DEF Chosen, Reading
<1>8. Fresh'  BY <1>2, <1>6 DEF IInv, Fresh
<1> QED  BY <1>4, <1>5, <1>7, <1>8 DEF IInv

\* The loops of sdb-read and sdb-extract.
LEMMA ScanTurns ==
  ASSUME IInv, scan_turn
  PROVE  IInv'
<1>1. UNCHANGED <<image, access, runs>>  BY DEF scan_turn
<1>2. CASE do_list  BY <1>1, <1>2, FirstTurn DEF do_list
<1>3. CASE extract_first
  <2>1. /\ op.step = "start" /\ fs.currentp = NoAddr
    BY <1>3 DEF extract_first, IInv, Fresh
  <2>2. CASE Turn(fs, TRUE)  BY <2>1, <2>2, <1>1, FirstTurn
  <2>3. CASE Goes("crashed") /\ UNCHANGED <<fs, listed, read>>
    <3>1. op \in OpType
      BY DEF IInv, TypeOK
    <3>2. op'.step = "crashed"
          /\ op' \in OpType
      BY <3>1, <2>3 DEF Goes, OpType
    <3>3. TypeOK'  BY <3>2, <2>3, <1>1 DEF IInv, TypeOK
    <3>4. Scanned'
      BY <3>2, <2>3, <1>1 DEF IInv, Scanned, Scanning, HasDir
    <3>5. Chosen' /\ Reading'  BY <3>2 DEF Chosen, Reading
    <3>6. Fresh'  BY <3>2, <2>1, <2>3, <1>1 DEF IInv, Fresh
    <3> QED  BY <3>3, <3>4, <3>5, <3>6 DEF IInv
  <2> QED  BY <2>1, <2>2, <2>3, <1>3 DEF extract_first
<1>4. CASE scan_next  BY <1>1, <1>4, NextTurn
<1> QED  BY <1>2, <1>3, <1>4 DEF scan_turn

\* Every step keeps the invariant.
LEMMA Preserved == IInv /\ [Next]_vars => IInv'
<1> SUFFICES ASSUME IInv, [Next]_vars PROVE IInv'  OBVIOUS
<1>1. ASSUME NEW tool \in Tools, scan_start(tool) PROVE IInv'
  BY <1>1, ScanBegins
<1>2. ASSUME NEW tool \in Tools, NEW key \in Keys, sdbfs_open(tool, key) PROVE IInv'
  BY <1>2, OpenBegins
<1>3. CASE open_next  BY <1>3, OpenGoesOn
<1>4. CASE open_failed \/ sdbfs_close \/ scan_end  BY <1>4, EndsUse
<1>5. ASSUME NEW asked \in Offsets \cup {-1}, sdbfs_fread(asked) PROVE IInv'
  BY <1>5, ReadGoesOn
<1>6. CASE scan_turn  BY <1>6, ScanTurns
<1>7. CASE UNCHANGED vars
  <2>1. UNCHANGED <<image, access, fs, op, listed, read, runs>>  BY <1>7 DEF vars
  <2>2. TypeOK'  BY <2>1 DEF IInv, TypeOK
  <2>3. Scanned'
    BY <2>1 DEF IInv, Scanned, Scanning, HasDir, InPlace, Stacked, ToCome, Below,
                Left, Now
  <2>4. Chosen' /\ Reading' /\ Fresh'
    BY <2>1 DEF IInv, Chosen, Passed, Current, Reading, Fresh
  <2> QED  BY <2>2, <2>3, <2>4 DEF IInv
<1> QED  BY <1>1, <1>2, <1>3, <1>4, <1>5, <1>6, <1>7 DEF Next

\* The invariant holds in every use of the library.
THEOREM Invariance == Spec => []IInv
<1>1. Init => IInv  BY Starts
<1>2. IInv /\ [Next]_vars => IInv'  BY Preserved
<1> QED  BY <1>1, <1>2, PTL DEF Spec

(***************************************************************************)
(* What the library returns.                                               *)
(***************************************************************************)
\* What was listed is how the contents start.
LEMMA ListedFirst ==
  ASSUME TypeOK, Scanned
  PROVE  LET c == Contents(image)
         IN /\ c \in Seq(Entries) /\ Len(c) \in Nat /\ Len(listed) \in Nat
            /\ Len(listed) <= Len(c) /\ IsPrefix(listed, c)
            /\ \A i \in 1..Len(listed) : c[i] = listed[i]
<1> DEFINE c == Contents(image)
           n == Len(listed)
<1>1. image \in Images /\ listed \in Seq(Entries)  BY DEF TypeOK
<1>2. c \in Seq(Entries)  BY <1>1, ContentsType
<1>3. PICK rest \in Seq(Entries) : c = listed \o rest  BY DEF Scanned
<1> HIDE DEF c
<1>4. Len(c) \in Nat /\ n \in Nat /\ n <= Len(c)
  BY <1>1, <1>2, <1>3
<1>5. \A i \in 1..n : c[i] = listed[i]
  BY <1>1, <1>3
<1>6. SubSeq(listed, 1, n) = SubSeq(c, 1, n)
  <2>1. SubSeq(listed, 1, n) \in Seq(Entries) /\ SubSeq(c, 1, n) \in Seq(Entries)
        /\ Len(SubSeq(listed, 1, n)) = n /\ Len(SubSeq(c, 1, n)) = n
        /\ \A i \in 1..n : SubSeq(listed, 1, n)[i] = listed[i]
                           /\ SubSeq(c, 1, n)[i] = c[i]
    BY <1>1, <1>2, <1>4
  <2> QED  BY <2>1, <1>5, SeqEqual
<1> QED  BY <1>2, <1>4, <1>5, <1>6 DEF IsPrefix, c

\* A key matches the records that have all of it.
LEMMA MatchesWhole ==
  ASSUME NamesWhole, image \in Images, NEW key \in Keys, NEW a
  PROVE  LET r == At(image, a)
         IN Matches(key, r) <=> key.of = IF key.by = "name" THEN r.name ELSE r.id
<1> DEFINE r == At(image, a)
<1>1. CASE key.by = "name"
  <2>1. key.of \in Seq(STRING) /\ key.of # <<>>
    BY <1>1, SdbfsLibAssumption
  <2>2. Len(key.of) \in Nat /\ Len(key.of) > 0  BY <2>1, EmptySeq
  <2>3. Matches(key, r) <=> IsPrefix(key.of, r.name)
    BY <1>1, <2>2 DEF Matches
  <2>4. IsPrefix(key.of, key.of)  BY <2>2 DEF IsPrefix
  <2>5. CASE a \in DOMAIN image.rec
    <3>1. r = image.rec[a]  BY <2>5 DEF At
    <3>2. IsPrefix(key.of, r.name) => key.of = r.name
      BY <3>1, <2>5, <1>1 DEF NamesWhole
    <3> QED  BY <3>2, <2>3, <2>4, <1>1
  <2>6. CASE a \notin DOMAIN image.rec
    <3>1. r.name = <<>>  BY <2>6 DEF At, Blank
    <3>2. ~IsPrefix(key.of, <<>>)
      <4>1. Len(<<>>) = 0  OBVIOUS
      <4> QED  BY <4>1, <2>2 DEF IsPrefix
    <3> QED  BY <3>1, <3>2, <2>1, <2>3, <1>1
  <2> QED  BY <2>5, <2>6
<1>2. CASE key.by # "name"
  <2>1. key.by = "id"  BY <1>2, SdbfsLibAssumption
  <2> QED  BY <1>2, <2>1 DEF Matches
<1> QED  BY <1>1, <1>2

\* The candidates of an open are the places of the records that match.
LEMMA CandidatesMatch ==
  ASSUME NamesWhole, image \in Images, NEW key \in Keys
  PROVE  Candidates(key) =
           {i \in 2..Len(Contents(image)) :
              Matches(key, At(image, Contents(image)[i][1]))}
BY MatchesWhole DEF Candidates

\* Whatever was done with the library before, a scan returns the records of the
\* image in order, at their absolute addresses, each bridge before the directory
\* under it, and ends when it has returned them all (sdbfs_scan, scan_newdir).
THEOREM ScansInOrder == Spec => []ScanInOrder
<1>1. IInv => ScanInOrder
  BY ListedFirst DEF IInv, Scanned, ScanInOrder
<1> QED  BY <1>1, Invariance, PTL

\* The record that an open stopped at is the first candidate.
LEMMA OpenIsFirst ==
  ASSUME NamesWhole, IInv, op.step \in {"opened", "eof"}
  PROVE  LET c == Contents(image)
             n == Len(listed)
         IN /\ n \in Candidates(op.key) /\ \A j \in Candidates(op.key) : n <= j
            /\ fs.currentp = c[n][1] /\ fs.f_offset = c[n][2]
            /\ fs.f_len = Current(fs).last + 1 - Current(fs).first
<1> DEFINE c == Contents(image)
           n == Len(listed)
<1>1. /\ image \in Images /\ op.key \in Keys
      /\ n >= 2 /\ \A i \in 2..n - 1 : Passed(i)
      /\ ~Passed(n)
      /\ fs.currentp = listed[n][1] /\ fs.f_offset = listed[n][2]
      /\ fs.f_len = Current(fs).last + 1 - Current(fs).first
  BY DEF IInv, TypeOK, Chosen
<1>2. /\ Len(c) \in Nat /\ n \in Nat /\ n <= Len(c)
      /\ \A i \in 1..n : c[i] = listed[i]
  BY ListedFirst DEF IInv
<1>3. Candidates(op.key) = {i \in 2..Len(c) : Matches(op.key, At(image, c[i][1]))}
  BY <1>1, CandidatesMatch
<1> HIDE DEF c, n
<1>4. \A i \in 1..n : Passed(i) <=> ~Matches(op.key, At(image, c[i][1]))
  BY <1>2 DEF Passed
<1>5. n \in 1..n /\ n \in 2..Len(c)  BY <1>1, <1>2
<1>6. n \in Candidates(op.key)  BY <1>1, <1>3, <1>4, <1>5
<1>7. \A j \in Candidates(op.key) : n <= j
  <2> SUFFICES ASSUME NEW j \in Candidates(op.key), ~(n <= j) PROVE FALSE  OBVIOUS
  <2>1. j \in 2..Len(c) /\ Matches(op.key, At(image, c[j][1]))  BY <1>3
  <2>2. j \in 2..n - 1 /\ j \in 1..n  BY <2>1, <1>2
  <2> QED  BY <2>1, <2>2, <1>1, <1>4
<1> QED  BY <1>1, <1>2, <1>5, <1>6, <1>7 DEF c, n

\* If no name asked for is the first words of another, sdbfs_open_name and
\* sdbfs_open_id find the first file that has the name or the identifier, its
\* address and its length, and fail only if there is none.
THEOREM FirstIsFound ==
  ASSUME NamesWhole
  PROVE  Spec => []OpenFindsFirst
<1>1. IInv => OpenFindsFirst
  <2> SUFFICES ASSUME IInv PROVE OpenFindsFirst  OBVIOUS
  <2>1. op.step = "noent" => Candidates(op.key) = {}
    <3> SUFFICES ASSUME op.step = "noent", NEW i \in Candidates(op.key) PROVE FALSE
      OBVIOUS
    <3>1. /\ image \in Images /\ op.key \in Keys /\ listed = Contents(image)
          /\ \A j \in 2..Len(listed) : Passed(j)
      BY DEF IInv, TypeOK, Chosen, Scanned
    <3>2. i \in 2..Len(listed) /\ Matches(op.key, At(image, listed[i][1]))
      BY <3>1, CandidatesMatch
    <3> QED  BY <3>1, <3>2 DEF Passed
  <2>2. op.step \in {"opened", "eof"} =>
          \E i \in Candidates(op.key) :
            /\ \A j \in Candidates(op.key) : i <= j
            /\ fs.currentp = Contents(image)[i][1]
            /\ fs.f_offset = Contents(image)[i][2]
            /\ fs.f_len = Current(fs).last + 1 - Current(fs).first
    <3> SUFFICES ASSUME op.step \in {"opened", "eof"}
                 PROVE  \E i \in Candidates(op.key) :
                          /\ \A j \in Candidates(op.key) : i <= j
                          /\ fs.currentp = Contents(image)[i][1]
                          /\ fs.f_offset = Contents(image)[i][2]
                          /\ fs.f_len = Current(fs).last + 1 - Current(fs).first
      OBVIOUS
    <3>1. /\ Len(listed) \in Candidates(op.key)
          /\ \A j \in Candidates(op.key) : Len(listed) <= j
          /\ fs.currentp = Contents(image)[Len(listed)][1]
          /\ fs.f_offset = Contents(image)[Len(listed)][2]
          /\ fs.f_len = Current(fs).last + 1 - Current(fs).first
      BY OpenIsFirst
    <3> QED  BY <3>1
  <2> QED  BY <2>1, <2>2 DEF OpenFindsFirst
<1> QED  BY <1>1, Invariance, PTL

\* Under the same condition sdbfs_fread returns bytes of the open file, at the
\* offset asked for or where the last read ended, and a reader of mapped storage
\* that stops at the end has got the whole file.
THEOREM ReadsAreFaithful ==
  ASSUME NamesWhole
  PROVE  Spec => []ReadFaithful
<1>1. IInv => ReadFaithful
  <2> SUFFICES ASSUME IInv PROVE ReadFaithful  OBVIOUS
  <2>1. op.step \in {"opened", "eof"} /\ read.count > 0 =>
          \E i \in Candidates(op.key) :
            LET c == Contents(image)
            IN /\ fs.currentp = c[i][1] /\ read.from = c[i][2] + read.at
               /\ read.at + read.count <= Current(fs).last + 1 - Current(fs).first
               /\ fs.read_offset = read.next
    <3> SUFFICES ASSUME op.step \in {"opened", "eof"}, read.count > 0
                 PROVE  \E i \in Candidates(op.key) :
                          LET c == Contents(image)
                          IN /\ fs.currentp = c[i][1] /\ read.from = c[i][2] + read.at
                             /\ read.at + read.count
                                  <= Current(fs).last + 1 - Current(fs).first
                             /\ fs.read_offset = read.next
      OBVIOUS
    <3>1. Len(listed) \in Candidates(op.key)  BY OpenIsFirst
    <3>2. /\ read.from = fs.f_offset + read.at
          /\ read.at + read.count <= fs.f_len
          /\ fs.read_offset = read.next
      BY DEF IInv, Reading
    <3>3. /\ fs.currentp = Contents(image)[Len(listed)][1]
          /\ fs.f_offset = Contents(image)[Len(listed)][2]
          /\ fs.f_len = Current(fs).last + 1 - Current(fs).first
      BY OpenIsFirst
    <3> QED  BY <3>1, <3>2, <3>3
  <2>2. op.step = "eof" /\ access = "mapped" => read.next = fs.f_len
    BY DEF IInv, Reading
  <2> QED  BY <2>1, <2>2 DEF ReadFaithful
<1> QED  BY <1>1, Invariance, PTL
===============================================================================
