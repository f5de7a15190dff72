----------------------- MODULE VideoDecodeV4l2Proofs -----------------------
(***************************************************************************)
(* Proofs about VideoDecodeV4l2, for every number of frames and of buffers  *)
(* and every bound on the commands, before as after a change of the        *)
(* resolution: the types, where every buffer is, and the order of the       *)
(* frames.                                                                 *)
(***************************************************************************)
EXTENDS VideoDecodeV4l2, FiniteSetTheorems, WellFoundedInduction, TLAPS

-----------------------------------------------------------------------------
(* Sequences.                                                              *)

LEMMA AppendIs ==
    ASSUME NEW S, NEW s \in Seq(S), NEW x \in S
    PROVE  /\ Append(s, x) \in Seq(S) /\ Len(Append(s, x)) = Len(s) + 1
           /\ \A i \in 1 .. Len(s) : Append(s, x)[i] = s[i]
           /\ Append(s, x)[Len(s) + 1] = x
  OBVIOUS

LEMMA TailIs ==
    ASSUME NEW S, NEW s \in Seq(S), s # <<>>
    PROVE  /\ Tail(s) \in Seq(S) /\ Len(s) > 0 /\ Len(Tail(s)) = Len(s) - 1
           /\ Head(s) = s[1] /\ Head(s) \in S
           /\ \A i \in 1 .. Len(s) - 1 : Tail(s)[i] = s[i + 1]
  OBVIOUS

-----------------------------------------------------------------------------
(* Counting: how many of the elements of s are in T.                       *)
Hits(s, T) == Cardinality({k \in 1 .. Len(s) : s[k] \in T})

LEMMA HitsNat ==
    ASSUME NEW S, NEW s \in Seq(S), NEW T
    PROVE  /\ IsFiniteSet({k \in 1 .. Len(s) : s[k] \in T})
           /\ Hits(s, T) \in Nat
<1> DEFINE K == {k \in 1 .. Len(s) : s[k] \in T}
<1>1. IsFiniteSet(1 .. Len(s))
  BY FS_Interval
<1>2. IsFiniteSet(K)
  BY <1>1, FS_Subset, K \subseteq 1 .. Len(s), Zenon
<1>3. Cardinality(K) \in Nat
  BY <1>2, FS_CardinalityType, Zenon
<1>. QED  BY <1>2, <1>3 DEF Hits

LEMMA HitsEmpty ==
    ASSUME NEW T
    PROVE  Hits(<<>>, T) = 0
<1>1. {k \in 1 .. Len(<<>>) : <<>>[k] \in T} = {}
  OBVIOUS
<1>. QED  BY <1>1, FS_EmptySet, Zenon DEF Hits

LEMMA HitsNone ==
    ASSUME NEW S, NEW s \in Seq(S), NEW T
    PROVE  Hits(s, T) = 0 <=> \A k \in 1 .. Len(s) : s[k] \notin T
<1> DEFINE K == {k \in 1 .. Len(s) : s[k] \in T}
<1>1. IsFiniteSet(K)
  BY HitsNat
<1>2. Cardinality(K) = 0 <=> K = {}
  BY <1>1, FS_EmptySet, Zenon
<1>3. Hits(s, T) = 0 <=> K = {}
  BY <1>2 DEF Hits
<1>. QED  BY <1>3

LEMMA HitsSome ==
    ASSUME NEW S, NEW s \in Seq(S), NEW T, NEW k \in 1 .. Len(s), s[k] \in T
    PROVE  Hits(s, T) \in Nat /\ Hits(s, T) >= 1
<1>1. Hits(s, T) \in Nat /\ Hits(s, T) # 0
  BY HitsNat, HitsNone, Zenon
<1>. QED  BY <1>1

(* Sequences whose hits are at the same places, or moved by n, have as many. *)
HitsAt(s, a, n, T) == {k \in a + 1 .. a + n : s[k] \in T}
Aligned(s, a, t, b, n, T, V) == \A k \in 1 .. n : s[a + k] \in T <=> t[b + k] \in V

LEMMA HitsMoved ==
    ASSUME NEW s, NEW t, NEW T, NEW V, NEW a \in Nat, NEW b \in Nat, NEW n \in Nat,
           Aligned(s, a, t, b, n, T, V)
    PROVE  /\ IsFiniteSet(HitsAt(s, a, n, T)) /\ IsFiniteSet(HitsAt(t, b, n, V))
           /\ Cardinality(HitsAt(s, a, n, T)) = Cardinality(HitsAt(t, b, n, V))
<1> USE DEF HitsAt, Aligned
<1> DEFINE K == HitsAt(s, a, n, T)
           L == HitsAt(t, b, n, V)
           f == [k \in K |-> k - a + b]
<1>1. IsFiniteSet(a + 1 .. a + n)
  BY FS_Interval
<1>2. IsFiniteSet(K)
  BY <1>1, FS_Subset, K \subseteq a + 1 .. a + n, Zenon
<1>3. \A k \in K : k - a + b \in L
  <2>1. SUFFICES ASSUME NEW k \in K PROVE k - a + b \in L
    OBVIOUS
  <2>2. k - a \in 1 .. n /\ a + (k - a) = k /\ b + (k - a) = k - a + b
    BY <2>1
  <2>3. t[b + (k - a)] \in V
    BY <2>2
  <2>. QED  BY <2>2, <2>3
<1>4. \A l \in L : l - b + a \in K /\ (l - b + a) - a + b = l
  <2>1. SUFFICES ASSUME NEW l \in L PROVE l - b + a \in K /\ (l - b + a) - a + b = l
    OBVIOUS
  <2>2. l - b \in 1 .. n /\ b + (l - b) = l /\ a + (l - b) = l - b + a /\ (l - b + a) - a + b = l
    BY <2>1
  <2>3. s[a + (l - b)] \in T
    BY <2>2
  <2>. QED  BY <2>2, <2>3
<1>5. f \in [K -> L]
  BY <1>3
<1>6. \A k, j \in K : f[k] = f[j] => k = j
  OBVIOUS
<1>7. \A l \in L : \E k \in K : f[k] = l
  BY <1>4
<1> HIDE DEF f, K, L, HitsAt, Aligned
<1>8. ExistsBijection(K, L)
  BY <1>5, <1>6, <1>7 DEF ExistsBijection, Bijection, Injection, Surjection, IsInjective
<1>9. IsFiniteSet(L) /\ Cardinality(L) = Cardinality(K)
  BY <1>2, <1>8, FS_Bijection, Zenon
<1>. QED  BY <1>2, <1>9 DEF K, L

LEMMA HitsSame ==
    ASSUME NEW S, NEW s \in Seq(S), NEW U, NEW t \in Seq(U), NEW T, NEW V, Len(s) = Len(t),
           \A k \in 1 .. Len(s) : s[k] \in T <=> t[k] \in V
    PROVE  Hits(s, T) = Hits(t, V)
<1>1. PICK zero \in Nat, n \in Nat : zero = 0 /\ n = Len(s)
  OBVIOUS
<1>2. ASSUME NEW k \in 1 .. n PROVE s[zero + k] \in T <=> t[zero + k] \in V
  <2>1. zero + k = k /\ k \in 1 .. Len(s)
    BY <1>1
  <2>. QED  BY <2>1, Zenon
<1>3. Cardinality(HitsAt(s, zero, n, T)) = Cardinality(HitsAt(t, zero, n, V))
  <2>1. Aligned(s, zero, t, zero, n, T, V)
    BY <1>2 DEF Aligned
  <2>. QED  BY <2>1, HitsMoved
<1>4. zero + 1 .. zero + n = 1 .. Len(s)
  BY <1>1
<1>. QED  BY <1>3, <1>4 DEF Hits, HitsAt

LEMMA HitsConcat ==
    ASSUME NEW S, NEW s \in Seq(S), NEW t \in Seq(S), NEW T
    PROVE  /\ s \o t \in Seq(S) /\ Len(s \o t) = Len(s) + Len(t)
           /\ Hits(s \o t, T) = Hits(s, T) + Hits(t, T)
<1>0. s \o t \in Seq(S)
  OBVIOUS
<1>1. PICK u \in Seq(S) : u = s \o t
  BY <1>0
<1>2. PICK m \in Nat, n \in Nat : m = Len(s) /\ n = Len(t)
  OBVIOUS
<1>3. Len(u) = m + n
  BY <1>1, <1>2
<1>4. \A k \in 1 .. m : u[k] = s[k]
  BY <1>1, <1>2
<1>5. \A k \in 1 .. n : u[m + k] = t[k]
  BY <1>1, <1>2
<1> DEFINE A == {k \in 1 .. m : u[k] \in T}
           B == {k \in m + 1 .. m + n : u[k] \in T}
<1>6. IsFiniteSet(A) /\ Cardinality(A) = Hits(s, T) /\ Hits(s, T) \in Nat
  <2>1. A = {k \in 1 .. m : s[k] \in T}
    BY <1>4
  <2>2. A = {k \in 1 .. Len(s) : s[k] \in T}
    BY <1>2, <2>1
  <2>. QED  BY <2>2, HitsNat, Zenon DEF Hits
<1>7. IsFiniteSet(B) /\ Cardinality(B) = Hits(t, T)
  <2>1. PICK zero \in Nat : zero = 0
    OBVIOUS
  <2>3. \A k \in 1 .. n : u[m + k] \in T <=> t[zero + k] \in T
    <3>1. SUFFICES ASSUME NEW k \in 1 .. n PROVE u[m + k] \in T <=> t[zero + k] \in T
      OBVIOUS
    <3>2. zero + k = k /\ u[m + k] = t[k]
      BY <1>5, <2>1
    <3>. QED  BY <3>2, Zenon
  <2>4. Aligned(u, m, t, zero, n, T, T)
    BY <2>3 DEF Aligned
  <2>5. IsFiniteSet(HitsAt(u, m, n, T)) /\ Cardinality(HitsAt(u, m, n, T)) = Cardinality(HitsAt(t, zero, n, T))
    BY <2>4, HitsMoved
  <2>7. zero + 1 .. zero + n = 1 .. Len(t)
    BY <1>2, <2>1
  <2>. QED  BY <2>5, <2>7 DEF Hits, HitsAt
<1>8. A \cap B = {} /\ A \cup B = {k \in 1 .. m + n : u[k] \in T}
  OBVIOUS
<1>9. Cardinality(A \cup B) = Cardinality(A) + Cardinality(B) - Cardinality(A \cap B)
  BY <1>6, <1>7, FS_Union
<1>10. Cardinality(A \cap B) = 0
  BY <1>8, FS_EmptySet
<1>11. Cardinality(A \cup B) = Hits(u, T)
  BY <1>3, <1>8 DEF Hits
<1>12. Hits(t, T) \in Nat
  BY HitsNat
<1> HIDE DEF A, B
<1>13. Hits(u, T) = Hits(s, T) + Hits(t, T)
  BY <1>6, <1>7, <1>9, <1>10, <1>11, <1>12
<1>. QED  BY <1>1, <1>2, <1>3, <1>13

LEMMA HitsOne ==
    ASSUME NEW x, NEW T
    PROVE  Hits(<<x>>, T) = IF x \in T THEN 1 ELSE 0
<1>1. {k \in 1 .. Len(<<x>>) : <<x>>[k] \in T} = IF x \in T THEN {1} ELSE {}
  OBVIOUS
<1>2. Cardinality({1}) = 1 /\ Cardinality({}) = 0
  BY FS_EmptySet, FS_Singleton
<1>. QED  BY <1>1, <1>2 DEF Hits

LEMMA HitsAppend ==
    ASSUME NEW S, NEW s \in Seq(S), NEW x \in S, NEW T
    PROVE  /\ Append(s, x) \in Seq(S) /\ Len(Append(s, x)) = Len(s) + 1
           /\ Hits(Append(s, x), T) = Hits(s, T) + IF x \in T THEN 1 ELSE 0
<1>0. <<x>> \in Seq(S)
  OBVIOUS
<1>1. PICK t \in Seq(S) : t = <<x>>
  BY <1>0
<1>2. Append(s, x) = s \o t /\ Append(s, x) \in Seq(S) /\ Len(Append(s, x)) = Len(s) + 1
  BY <1>1
<1>3. Hits(s \o t, T) = Hits(s, T) + Hits(t, T)
  BY HitsConcat
<1>. QED  BY <1>1, <1>2, <1>3, HitsOne

LEMMA HitsTail ==
    ASSUME NEW S, NEW s \in Seq(S), s # <<>>, NEW T
    PROVE  /\ Tail(s) \in Seq(S) /\ Head(s) \in S /\ Len(s) > 0 /\ Len(Tail(s)) = Len(s) - 1 /\ Head(s) = s[1]
           /\ Hits(s, T) = Hits(Tail(s), T) + IF Head(s) \in T THEN 1 ELSE 0
<1>0. Head(s) \in S /\ Tail(s) \in Seq(S) /\ <<Head(s)>> \in Seq(S)
  OBVIOUS
<1>1. PICK h \in S, t \in Seq(S) : h = Head(s) /\ t = Tail(s)
  BY <1>0
<1>2. PICK o \in Seq(S) : o = <<h>>
  BY <1>0, <1>1
<1>3. s = o \o t
  BY <1>1, <1>2
<1>4. Hits(o \o t, T) = Hits(o, T) + Hits(t, T)
  BY HitsConcat
<1>5. Hits(o, T) = IF h \in T THEN 1 ELSE 0
  BY <1>2, HitsOne
<1>6. Hits(o, T) \in Nat /\ Hits(t, T) \in Nat
  BY HitsNat
<1>7. Hits(s, T) = Hits(t, T) + IF h \in T THEN 1 ELSE 0
  BY <1>3, <1>4, <1>5, <1>6
<1>. QED  BY <1>1, <1>7

LEMMA HitsSplit ==
    ASSUME NEW S, NEW s \in Seq(S), NEW k \in 0 .. Len(s), NEW T
    PROVE  /\ SubSeq(s, 1, k) \in Seq(S) /\ Len(SubSeq(s, 1, k)) = k /\ \A i \in 1 .. k : SubSeq(s, 1, k)[i] = s[i]
           /\ SubSeq(s, k + 1, Len(s)) \in Seq(S)
           /\ Hits(s, T) = Hits(SubSeq(s, 1, k), T) + Hits(SubSeq(s, k + 1, Len(s)), T)
<1>a. /\ SubSeq(s, 1, k) \in Seq(S) /\ Len(SubSeq(s, 1, k)) = k
      /\ \A i \in 1 .. k : SubSeq(s, 1, k)[i] = s[i]
  OBVIOUS
<1>b. /\ SubSeq(s, k + 1, Len(s)) \in Seq(S) /\ Len(SubSeq(s, k + 1, Len(s))) = Len(s) - k
      /\ \A i \in 1 .. Len(s) - k : SubSeq(s, k + 1, Len(s))[i] = s[k + i]
  OBVIOUS
<1>1. PICK a \in Seq(S) : a = SubSeq(s, 1, k) /\ Len(a) = k /\ \A i \in 1 .. k : a[i] = s[i]
  BY <1>a
<1>2. PICK b \in Seq(S) : b = SubSeq(s, k + 1, Len(s)) /\ Len(b) = Len(s) - k /\ \A i \in 1 .. Len(s) - k : b[i] = s[k + i]
  BY <1>b
<1>c. a \o b \in Seq(S)
  OBVIOUS
<1>3. PICK u \in Seq(S) : u = a \o b
  BY <1>c
<1>4. Len(u) = Len(s)
  <2>1. Len(a \o b) = Len(a) + Len(b)
    OBVIOUS
  <2>2. PICK l \in Nat : l = Len(s)
    OBVIOUS
  <2>3. Len(u) = k + (l - k) /\ k \in Nat
    <3>1. Len(u) = Len(a) + Len(b) /\ Len(a) = k
      BY <1>1, <1>3, <2>1
    <3>2. Len(b) = l - k
      BY <1>2, <2>2
    <3>. QED  BY <3>1, <3>2
  <2>4. k + (l - k) = l
    BY <2>3
  <2>. QED  BY <2>2, <2>3, <2>4
<1>5. ASSUME NEW i \in 1 .. Len(s) PROVE u[i] = s[i]
  <2>1. CASE i <= k
    <3>1. i \in 1 .. Len(a) /\ a[i] = s[i]
      BY <1>1, <2>1
    <3>. QED  BY <1>3, <3>1
  <2>2. CASE i > k
    <3>1. PICK j \in 1 .. Len(s) - k : i = k + j
      BY <2>2
    <3>2. b[j] = s[i] /\ j \in 1 .. Len(b)
      BY <1>2, <3>1
    <3>3. (a \o b)[Len(a) + j] = b[j]
      BY <3>2, SMTT(60)
    <3>. QED  BY <1>1, <1>3, <3>1, <3>2, <3>3
  <2>. QED  BY <2>1, <2>2
<1>6. Hits(u, T) = Hits(s, T)
  BY <1>4, <1>5, HitsSame
<1>7. Hits(a \o b, T) = Hits(a, T) + Hits(b, T)
  BY HitsConcat
<1>. QED  BY <1>1, <1>2, <1>3, <1>6, <1>7

LEMMA SetToSeqIs ==
    ASSUME NEW U, NEW S, S \subseteq U, IsFiniteSet(S)
    PROVE  /\ SetToSeq(S) \in Seq(U)
           /\ \A T : S \cap T = {} => Hits(SetToSeq(S), T) = 0
           /\ \A T : (\E x \in S : S \cap T = {x}) => Hits(SetToSeq(S), T) = 1
<1>1. PICK n \in Nat : n = Cardinality(S) /\ ExistsBijection(1 .. n, S)
  BY FS_CardinalityType
<1>2. \E f \in [1 .. n -> S] : IsInjective(f)
  BY <1>1 DEF ExistsBijection, Bijection, Injection, IsInjective
<1>3. SetToSeq(S) \in [1 .. n -> S] /\ IsInjective(SetToSeq(S))
  BY <1>1, <1>2, Zenon DEF SetToSeq
<1>4. PICK f \in [1 .. n -> S] : f = SetToSeq(S) /\ IsInjective(f)
  BY <1>3
<1>5. f \in Seq(U) /\ Len(f) = n
  OBVIOUS
<1>6. \A j, k \in 1 .. n : f[j] = f[k] => j = k
  BY <1>4 DEF IsInjective
<1>7. f \in Injection(1 .. n, S)
  BY <1>6 DEF Injection, IsInjective
<1>8. Cardinality(1 .. n) = Cardinality(S)
  BY <1>1, FS_Interval
<1>9. f \in Surjection(1 .. n, S)
  BY <1>7, <1>8, FS_Injection
<1>10. \A x \in S : \E k \in 1 .. n : f[k] = x
  BY <1>9 DEF Surjection
<1>11. ASSUME NEW T, S \cap T = {} PROVE Hits(f, T) = 0
  <2>1. \A k \in 1 .. Len(f) : f[k] \notin T
    BY <1>5, <1>11
  <2>. QED  BY <1>5, <2>1, HitsNone
<1>12. ASSUME NEW T, NEW x \in S, S \cap T = {x} PROVE Hits(f, T) = 1
  <2>1. PICK k \in 1 .. n : f[k] = x
    BY <1>10
  <2>2. {j \in 1 .. Len(f) : f[j] \in T} = {k}
    BY <1>5, <1>6, <1>12, <2>1
  <2>3. Cardinality({k}) = 1
    BY FS_Singleton
  <2>. QED  BY <2>2, <2>3 DEF Hits
<1>. QED  BY <1>4, <1>5, <1>11, <1>12

(* The least of some frames is one of them.                                *)
LEMMA MinIsOne ==
    ASSUME NEW S \in SUBSET Frames, S # {}
    PROVE  Min(S) \in S
<1> DEFINE R == OpToRel(<, Nat)
<1>1. IsWellFoundedOn(R, Nat)
  BY NatLessThanWellFounded
<1>2. S \subseteq Nat
  BY V4l2Assumption DEF Frames
<1>a. \A x, y \in Nat : y < x => <<y, x>> \in R
  BY DEF OpToRel
<1> HIDE DEF R
<1>b. \E x \in S : \A y \in S : ~ (<<y, x>> \in R)
  BY <1>1, <1>2, WFMin
<1>3. PICK x \in S : \A y \in S : ~ (<<y, x>> \in R)
  BY <1>b
<1>4. ASSUME NEW y \in S PROVE x <= y
  <2>1. x \in Nat /\ y \in Nat /\ ~ (<<y, x>> \in R)
    BY <1>2, <1>3
  <2>2. ~(y < x)
    BY <1>a, <2>1
  <2>. QED  BY <2>1, <2>2
<1>. QED  BY <1>4, Zenon DEF Min

-----------------------------------------------------------------------------
(* The records.                                                            *)
Active == {"play", "playing", "paused"}
DecStates == Active \cup {"null", "prepared", "stopping", "stopped"}
V4l2Whats == {"prepare", "startInput", "startOutput", "pause", "resume", "flush", "stop", "reset",
              "in", "out", "schedule", "change"}
V4l2Modes == {"null", "prepared", "playing", "paused", "stopped", "error", "reset"}
V4l2Places == {"idle", "out", "deferred", "join", "joinReset", "spins", "starves"}

AnyMessages == [what : V4l2Whats, frame : 0 .. NumFrames, gen : Nat]
Messages == {m \in AnyMessages : m.what = "schedule" => m.frame \in Frames}
Packets == [n : Nat, epoch : Nat]
Inputs == [idx : Indices, pkt : Packets]
Outputs == [frame : Frames, pkt : Packets, last : BOOLEAN]
Buffers == [frame : Frames, gen : Nat]

DecRecord == [state : DecStates, eos : {"none", "input", "output"}, configured : BOOLEAN, changing : BOOLEAN,
              open : BOOLEAN, linked : BOOLEAN, gen : Nat \ {0}, target : {-1, SeekTarget},
              deferred : Seq({"flush", "stop"}), over : {"no", "start", "null", "refused", "reset"}]
V4l2MsgsRecord == [queue : Seq(Messages), retry : BOOLEAN]
PollRecord == [at : {"none", "top", "sem", "poll", "exited"}, sem : Nat, continue : BOOLEAN, event : BOOLEAN]
CodecRecord == [in : Seq(Inputs), done : Seq(Indices), free : SUBSET Frames, filled : Seq(Outputs),
                eos : BOOLEAN, event : BOOLEAN, blocked : BOOLEAN, interrupt : BOOLEAN]
InputRecord == [pos : Nat \ {0}, epoch : Nat]
PipeRecord == [op : V4l2Ops \cup {"none"}, mode : V4l2Modes]
V4l2SeenRecord == [calls : Nat, changes : Nat, stalls : Nat, tooBig : Nat, last : Nat, lossy : BOOLEAN, eos : BOOLEAN]

V4l2Types ==
    /\ dec \in DecRecord
    /\ owner \in [Frames -> Owners]
    /\ indices \in Seq(Indices)
    /\ msgs \in V4l2MsgsRecord
    /\ v4l2Handler \in V4l2Places
    /\ pollThread \in PollRecord
    /\ codec \in CodecRecord
    /\ held \in SUBSET Buffers
    /\ input \in InputRecord
    /\ pipe \in PipeRecord
    /\ v4l2Seen \in V4l2SeenRecord

LEMMA RecordsAreV4l2Types == V4l2Types => V4l2TypeOK
<1>1. SUFFICES ASSUME V4l2Types PROVE V4l2TypeOK
  OBVIOUS
<1>2. /\ dec.state \in DecStates /\ dec.eos \in {"none", "input", "output"}
      /\ dec.configured \in BOOLEAN /\ dec.changing \in BOOLEAN /\ dec.open \in BOOLEAN /\ dec.linked \in BOOLEAN
      /\ dec.gen \in Nat \ {0} /\ dec.target \in {-1, SeekTarget}
      /\ dec.deferred \in Seq({"flush", "stop"}) /\ dec.over \in {"no", "start", "null", "refused", "reset"}
  BY <1>1 DEF V4l2Types, DecRecord
<1>3. /\ owner \in [Frames -> Owners] /\ indices \in Seq(Indices) /\ v4l2Handler \in V4l2Places
  BY <1>1 DEF V4l2Types
<1>4. /\ pollThread.at \in {"none", "top", "sem", "poll", "exited"} /\ pollThread.sem \in Nat
      /\ pollThread.continue \in BOOLEAN /\ pollThread.event \in BOOLEAN
  BY <1>1 DEF V4l2Types, PollRecord
<1>5. pipe.op \in V4l2Ops \cup {"none"} /\ pipe.mode \in V4l2Modes
  BY <1>1 DEF V4l2Types, PipeRecord
<1>. QED  BY <1>2, <1>3, <1>4, <1>5, Zenon DEF V4l2TypeOK, V4l2Places, DecStates, Active, V4l2Modes

(* What the records' fields are.                                           *)
DecFields ==
    /\ dec.state \in DecStates /\ dec.eos \in {"none", "input", "output"}
    /\ dec.configured \in BOOLEAN /\ dec.changing \in BOOLEAN /\ dec.open \in BOOLEAN /\ dec.linked \in BOOLEAN
    /\ dec.gen \in Nat \ {0} /\ dec.gen + 1 \in Nat \ {0} /\ dec.target \in {-1, SeekTarget}
    /\ dec.deferred \in Seq({"flush", "stop"}) /\ dec.over \in {"no", "start", "null", "refused", "reset"}

CodecFields ==
    /\ codec.in \in Seq(Inputs) /\ codec.done \in Seq(Indices) /\ codec.free \in SUBSET Frames
    /\ codec.filled \in Seq(Outputs)
    /\ codec.eos \in BOOLEAN /\ codec.event \in BOOLEAN /\ codec.blocked \in BOOLEAN /\ codec.interrupt \in BOOLEAN

OtherFields ==
    /\ msgs.queue \in Seq(Messages) /\ msgs.retry \in BOOLEAN
    /\ pollThread.sem \in Nat /\ pollThread.sem + 1 \in Nat
    /\ input.pos \in Nat \ {0} /\ input.epoch \in Nat /\ input.epoch + 1 \in Nat
    /\ pipe.op \in V4l2Ops \cup {"none"} /\ pipe.mode \in V4l2Modes
    /\ v4l2Seen.calls + 1 \in Nat /\ v4l2Seen.changes + 1 \in Nat /\ v4l2Seen.stalls + 1 \in Nat
    /\ v4l2Seen.tooBig + 1 \in Nat
    /\ v4l2Seen.lossy \in BOOLEAN /\ v4l2Seen.eos \in BOOLEAN

LEMMA FieldsAre ==
    ASSUME V4l2Types
    PROVE  DecFields /\ CodecFields /\ OtherFields
<1>1. DecFields
  BY DEF V4l2Types, DecRecord, DecFields
<1>2. CodecFields
  BY DEF V4l2Types, CodecRecord, CodecFields
<1>3. OtherFields
  BY SMTT(60) DEF V4l2Types, V4l2MsgsRecord, PollRecord, InputRecord, PipeRecord, V4l2SeenRecord, OtherFields
<1>. QED  BY <1>1, <1>2, <1>3

LEMMA MessageIs ==
    /\ \A w \in V4l2Whats \ {"schedule"} : Message(w) \in Messages /\ Message(w).what = w /\ Message(w).gen = 0
    /\ \A f \in Frames, g \in Nat : [what |-> "schedule", frame |-> f, gen |-> g] \in Messages
    /\ NoFrame \notin Frames
<1>1. NoFrame \in 0 .. NumFrames /\ NoFrame \notin Frames /\ Frames \subseteq 0 .. NumFrames
  BY V4l2Assumption DEF NoFrame, Frames
<1>. QED  BY <1>1 DEF Message, Messages, AnyMessages, V4l2Whats

LEMMA MessageFields ==
    \A m \in Messages : /\ m.what \in V4l2Whats /\ m.frame \in 0 .. NumFrames /\ m.gen \in Nat
                        /\ m.what = "schedule" => m.frame \in Frames
  BY DEF Messages, AnyMessages

LEMMA FrameSets ==
    /\ Undequeued + 1 .. NumFrames \in SUBSET Frames
    /\ AllocatedFrames \in [Frames -> Owners]
    /\ AllIndices \in Seq(Indices)
    /\ \A w \in Owners : [f \in Frames |-> w] \in [Frames -> Owners]
    /\ [f \in Frames |-> IF owner[f] = "window" THEN "window" ELSE "codec"] \in [Frames -> Owners]
    /\ {f \in Frames : owner[f] # "window"} \in SUBSET Frames
<1>1. Undequeued + 1 .. NumFrames \in SUBSET Frames
  BY V4l2Assumption DEF Frames
<1>2. AllIndices \in Seq(Indices)
  BY V4l2Assumption DEF AllIndices, Indices
<1>. QED  BY <1>1, <1>2 DEF AllocatedFrames, Owners

LEMMA GivenFrames == \A f \in Frames : f \in Undequeued + 1 .. NumFrames <=> ~(f <= Undequeued)
<1>1. Undequeued \in Nat /\ NumFrames \in Nat
  BY V4l2Assumption
<1>. QED  BY <1>1 DEF Frames

LEMMA FramesFinite == IsFiniteSet(Frames)
  BY V4l2Assumption, FS_Interval DEF Frames

(* What the codec gives back at a change of the resolution.                *)
GivenBack(f) == [frame |-> f, pkt |-> Packet(NumPackets + 1), last |-> FALSE]

LEMMA GivenBackFinite ==
    ASSUME NEW S, IsFiniteSet(S)
    PROVE  IsFiniteSet({[frame |-> f, pkt |-> Packet(NumPackets + 1), last |-> FALSE] : f \in S})
<1> DEFINE T == {[frame |-> f, pkt |-> Packet(NumPackets + 1), last |-> FALSE] : f \in S}
           g == [f \in S |-> GivenBack(f)]
<1>1. g \in Surjection(S, T)
  BY DEF Surjection, GivenBack
<1> HIDE DEF g, T
<1>2. IsFiniteSet(T)
  BY <1>1, FS_Surjection
<1>. QED  BY <1>2 DEF T

LEMMA NotifyType ==
    ASSUME V4l2Types, NEW op \in V4l2Ops, Notify(op)
    PROVE  pipe' \in PipeRecord /\ input' \in InputRecord
<1>1. ModeAfter(op) \in V4l2Modes
  BY FieldsAre DEF ModeAfter, V4l2Modes, V4l2Ops, OtherFields
<1>2. pipe' \in PipeRecord
  BY <1>1 DEF Notify, V4l2Types, PipeRecord
<1>3. [pos |-> 1, epoch |-> input.epoch + 1] \in InputRecord
  BY FieldsAre DEF OtherFields, InputRecord
<1>4. input' \in InputRecord
  BY <1>3 DEF Notify, V4l2Types
<1>. QED  BY <1>2, <1>4

LEMMA FailsType ==
    ASSUME Fails
    PROVE  pipe' \in PipeRecord
  BY DEF Fails, PipeRecord, V4l2Ops, V4l2Modes

LEMMA TakenType ==
    ASSUME V4l2Types, msgs.queue # <<>>
    PROVE  /\ Rest \in Seq(Messages)
           /\ Head(msgs.queue) \in Messages
           /\ Taken => msgs' \in V4l2MsgsRecord /\ msgs'.queue = Rest /\ msgs'.retry = msgs.retry
<1>1. Rest \in Seq(Messages) /\ Head(msgs.queue) \in Messages
  BY FieldsAre DEF Rest, OtherFields
<1>. QED  BY <1>1 DEF Taken, V4l2Types, V4l2MsgsRecord

LEMMA ReallocatesType ==
    ASSUME V4l2Types, NEW d \in DecRecord
    PROVE  /\ CodecWithFrames \in CodecRecord
           /\ Reallocates(d) => /\ owner' \in [Frames -> Owners] /\ codec' \in CodecRecord /\ dec' \in DecRecord
                                /\ UNCHANGED <<pipe, input>>
           /\ ReallocateFails(d) => /\ owner' \in [Frames -> Owners] /\ codec' \in CodecRecord /\ dec' \in DecRecord
                                    /\ pipe' \in PipeRecord /\ UNCHANGED input
<1>1. <<>> \in Seq(Outputs) /\ {} \in SUBSET Frames
  OBVIOUS
<1>2. CodecWithFrames \in CodecRecord
  BY <1>1, FrameSets DEF CodecWithFrames, V4l2Types, CodecRecord
<1>3. [codec EXCEPT !.free = {}, !.filled = <<>>] \in CodecRecord
  BY <1>1 DEF V4l2Types, CodecRecord
<1>4. "window" \in Owners
  BY DEF Owners
<1>. QED  BY <1>2, <1>3, <1>4, FrameSets, FailsType DEF Reallocates, ReallocateFails

LEMMA FlushesType ==
    ASSUME V4l2Types, NEW d \in DecRecord, Flushes(d)
    PROVE  /\ dec' \in DecRecord /\ dec' = NextGen(d) /\ dec'.gen = d.gen + 1
           /\ owner' \in [Frames -> Owners] /\ codec' \in CodecRecord /\ indices' \in Seq(Indices)
           /\ v4l2Seen' \in V4l2SeenRecord
<1>1. d.gen + 1 \in Nat \ {0}
  BY DEF DecRecord
<1>2. NextGen(d) \in DecRecord /\ NextGen(d).gen = d.gen + 1
  BY <1>1 DEF NextGen, DecRecord
<1>3. <<>> \in Seq(Inputs) /\ <<>> \in Seq(Indices) /\ <<>> \in Seq(Outputs)
  OBVIOUS
<1>4. codec' \in CodecRecord
  BY <1>3, FrameSets DEF Flushes, V4l2Types, CodecRecord
<1>5. v4l2Seen' \in V4l2SeenRecord
  BY DEF Flushes, V4l2Types, V4l2SeenRecord
<1>. QED  BY <1>2, <1>4, <1>5, FrameSets DEF Flushes

LEMMA TellsThreadType ==
    ASSUME V4l2Types, NEW d \in DecRecord, TellsThread(d)
    PROVE  dec' \in DecRecord /\ codec' \in CodecRecord /\ pollThread' \in PollRecord
<1>1. pollThread.sem + 1 \in Nat
  BY FieldsAre DEF OtherFields
<1>. QED  BY <1>1 DEF TellsThread, V4l2Types, DecRecord, DecStates, CodecRecord, PollRecord

LEMMA StoppedType ==
    ASSUME V4l2Types
    PROVE  /\ Stopped(dec) \in DecRecord /\ Closed(Stopped(dec)) \in DecRecord /\ Closed(dec) \in DecRecord
           /\ [codec EXCEPT !.in = <<>>, !.done = <<>>, !.filled = <<>>, !.eos = FALSE, !.free = {}] \in CodecRecord
<1>1. dec.gen + 1 \in Nat \ {0} /\ dec \in DecRecord
  BY FieldsAre DEF DecFields, V4l2Types
<1>2. PICK g \in Nat \ {0} : g = dec.gen + 1
  BY <1>1
<1>3. Stopped(dec) = [dec EXCEPT !.gen = g, !.state = "stopped", !.configured = FALSE, !.linked = FALSE, !.target = -1]
  BY <1>1, <1>2 DEF Stopped, NextGen, DecRecord
<1>4. Stopped(dec) \in DecRecord
  BY <1>1, <1>3 DEF DecRecord, DecStates
<1>5. \A d \in DecRecord : Closed(d) \in DecRecord
  BY DEF Closed, DecRecord
<1>6. <<>> \in Seq(Inputs) /\ <<>> \in Seq(Indices) /\ <<>> \in Seq(Outputs) /\ {} \in SUBSET Frames
  OBVIOUS
<1>7. [codec EXCEPT !.in = <<>>, !.done = <<>>, !.filled = <<>>, !.eos = FALSE, !.free = {}] \in CodecRecord
  BY <1>6 DEF V4l2Types, CodecRecord
<1>. QED  BY <1>1, <1>4, <1>5, <1>7

-----------------------------------------------------------------------------
(* Each action keeps the types.                                            *)
LEMMA CommandTypes ==
    ASSUME V4l2Types
    PROVE  /\ \A op \in V4l2Ops : V4l2Call(op) => V4l2Types'
           /\ OnV4l2Prepare => V4l2Types'
           /\ OnV4l2Pause => V4l2Types'
           /\ OnV4l2Resume => V4l2Types'
<1>1. ASSUME NEW op \in V4l2Ops, V4l2Call(op) PROVE V4l2Types'
  <2>1. Called(op) \in V4l2Whats \ {"schedule"}
    BY DEF Called, V4l2Ops, V4l2Whats
  <2>2. Append(msgs.queue, Message(Called(op))) \in Seq(Messages)
    BY <2>1, MessageIs, FieldsAre DEF OtherFields
  <2>3. msgs' \in V4l2MsgsRecord
    BY <1>1, <2>2 DEF V4l2Call, V4l2Types, V4l2MsgsRecord
  <2>4. pipe' \in PipeRecord
    BY <1>1 DEF V4l2Call, V4l2Types, PipeRecord
  <2>5. v4l2Seen.calls + 1 \in Nat
    BY FieldsAre DEF OtherFields
  <2>6. v4l2Seen' \in V4l2SeenRecord
    BY <1>1, <2>5 DEF V4l2Call, V4l2Types, V4l2SeenRecord
  <2>. QED  BY <1>1, <2>3, <2>4, <2>6 DEF V4l2Call, V4l2Types
<1>2. ASSUME OnV4l2Prepare PROVE V4l2Types'
  <2>1. msgs' \in V4l2MsgsRecord
    BY <1>2, TakenType DEF OnV4l2Prepare, NextIs
  <2>2. pipe' \in PipeRecord /\ input' \in InputRecord
    BY <1>2, NotifyType DEF OnV4l2Prepare, V4l2Ops
  <2>3. dec' \in DecRecord
    BY <1>2 DEF OnV4l2Prepare, V4l2Types, DecRecord, DecStates
  <2>. QED  BY <1>2, <2>1, <2>2, <2>3 DEF OnV4l2Prepare, V4l2Types
<1>3. ASSUME OnV4l2Pause PROVE V4l2Types'
  <2>1. msgs' \in V4l2MsgsRecord
    BY <1>3, TakenType DEF OnV4l2Pause, NextIs
  <2>2. pipe' \in PipeRecord /\ input' \in InputRecord
    BY <1>3, NotifyType DEF OnV4l2Pause, V4l2Ops
  <2>3. dec' \in DecRecord
    BY <1>3 DEF OnV4l2Pause, V4l2Types, DecRecord, DecStates, Active
  <2>. QED  BY <1>3, <2>1, <2>2, <2>3 DEF OnV4l2Pause, V4l2Types
<1>4. ASSUME OnV4l2Resume PROVE V4l2Types'
  <2>1. msgs' \in V4l2MsgsRecord
    <3>1. Append(Rest, Message("in")) \in Seq(Messages)
      BY <1>4, TakenType, MessageIs DEF OnV4l2Resume, NextIs, V4l2Whats
    <3>. QED  BY <1>4, <3>1 DEF OnV4l2Resume, V4l2Types, V4l2MsgsRecord
  <2>2. pipe' \in PipeRecord /\ input' \in InputRecord
    BY <1>4, NotifyType DEF OnV4l2Resume, V4l2Ops
  <2>3. dec' \in DecRecord
    BY <1>4 DEF OnV4l2Resume, V4l2Types, DecRecord, DecStates, Active
  <2>4. codec' \in CodecRecord
    BY <1>4 DEF OnV4l2Resume, V4l2Types, CodecRecord
  <2>5. pollThread.sem + 1 \in Nat
    BY FieldsAre DEF OtherFields
  <2>6. pollThread' \in PollRecord
    BY <1>4, <2>5 DEF OnV4l2Resume, V4l2Types, PollRecord
  <2>. QED  BY <1>4, <2>1, <2>2, <2>3, <2>4, <2>6 DEF OnV4l2Resume, V4l2Types
<1>. QED  BY <1>1, <1>2, <1>3, <1>4

LEMMA StartTypes ==
    ASSUME V4l2Types
    PROVE  (OnStartInput => V4l2Types') /\ (OnStartOutput => V4l2Types')
<1>1. ASSUME OnStartInput PROVE V4l2Types'
  <2>1. Rest \o <<Message("in"), Message("startOutput")>> \in Seq(Messages)
    BY <1>1, TakenType, MessageIs DEF OnStartInput, NextIs, V4l2Whats
  <2>2. msgs' \in V4l2MsgsRecord
    BY <1>1, <2>1 DEF OnStartInput, V4l2Types, V4l2MsgsRecord
  <2>3. indices' \in Seq(Indices)
    BY <1>1, FrameSets DEF OnStartInput, V4l2Types
  <2>4. <<>> \in Seq({"flush", "stop"})
    OBVIOUS
  <2>5. dec' \in DecRecord
    BY <1>1, <2>4 DEF OnStartInput, V4l2Types, DecRecord, DecStates, Active
  <2>. QED  BY <1>1, <2>2, <2>3, <2>5 DEF OnStartInput, V4l2Types
<1>2. ASSUME OnStartOutput PROVE V4l2Types'
  <2>1. msgs' \in V4l2MsgsRecord
    BY <1>2, TakenType DEF OnStartOutput, NextIs
  <2>2. CASE owner' = AllocatedFrames
    <3>1. pipe' \in PipeRecord /\ input' \in InputRecord
      BY <1>2, NotifyType, FailsType DEF OnStartOutput, V4l2Ops, V4l2Types
    <3>2. dec' \in DecRecord
      BY <1>2 DEF OnStartOutput, V4l2Types, DecRecord, DecStates, Active
    <3>3. CodecWithFrames \in CodecRecord
      BY ReallocatesType DEF V4l2Types
    <3>4. [CodecWithFrames EXCEPT !.interrupt = FALSE] \in CodecRecord
      BY <3>3 DEF CodecRecord
    <3>5. codec' \in CodecRecord
      BY <1>2, <3>4 DEF OnStartOutput, V4l2Types
    <3>6. pollThread' \in PollRecord
      <4>1. [at |-> "top", sem |-> 1, continue |-> TRUE, event |-> TRUE] \in PollRecord
        BY DEF PollRecord
      <4>. QED  BY <1>2, <4>1 DEF OnStartOutput, V4l2Types
    <3>. QED  BY <1>2, <2>1, <2>2, <3>1, <3>2, <3>5, <3>6, FrameSets DEF OnStartOutput, V4l2Types
  <2>3. CASE Fails /\ UNCHANGED <<owner, codec, pollThread, dec, input>>
    BY <1>2, <2>1, <2>3, FailsType DEF OnStartOutput, V4l2Types
  <2>. QED  BY <1>2, <2>2, <2>3 DEF OnStartOutput
<1>. QED  BY <1>1, <1>2

(* The packets that go to the codec, each in a buffer that could be used.    *)
LEMMA InputBufferIs ==
    ASSUME V4l2Types, OnHandleInputBuffer
    PROVE  /\ Usable \in Seq(Indices) /\ codec' \in CodecRecord /\ indices' \in Seq(Indices)
           /\ \E k \in 0 .. Len(Usable), t \in Seq(Inputs) :
                /\ Len(t) = k /\ \A i \in 1 .. k : t[i].idx = Usable[i]
                /\ codec'.in = codec.in \o t /\ codec'.done = <<>>
                /\ codec'.free = codec.free /\ codec'.filled = codec.filled
                /\ indices' = SubSeq(Usable, k + 1, Len(Usable))
<1>1. PICK k \in 0 .. InputRoom, tooBig \in BOOLEAN :
          /\ codec' = [codec EXCEPT !.done = <<>>,
                          !.in = @ \o [i \in 1 .. k |-> [idx |-> Usable[i], pkt |-> Packet(input.pos + i - 1)]]]
          /\ indices' = SubSeq(Usable, k + 1, Len(Usable))
  BY Zenon DEF OnHandleInputBuffer
<1>2. Usable \in Seq(Indices) /\ k \in Nat /\ k <= Len(Usable) /\ k \in 0 .. Len(Usable)
  <2>1. Usable \in Seq(Indices)
    BY FieldsAre DEF Usable, V4l2Types, CodecFields
  <2>2. PICK l \in Nat, p \in Nat : l = Len(Usable) /\ p = input.pos
    BY <2>1, FieldsAre DEF OtherFields
  <2>3. InputRoom = IF dec.eos # "none" THEN 0 ELSE IF NumPackets + 2 - p < l THEN NumPackets + 2 - p ELSE l
    BY <2>2 DEF InputRoom
  <2>. QED  BY <2>1, <2>2, <2>3, V4l2Assumption
<1>3. \A i \in 1 .. k : Usable[i] \in Indices /\ Packet(input.pos + i - 1) \in Packets
  <2>1. \A i \in 1 .. k : Usable[i] \in Indices
    BY <1>2
  <2>2. \A n \in Nat : Packet(n) \in Packets
    BY FieldsAre DEF Packet, Packets, EosPacket, OtherFields
  <2>3. \A i \in 1 .. k : input.pos + i - 1 \in Nat
    BY FieldsAre, <1>2 DEF OtherFields
  <2>. QED  BY <2>1, <2>2, <2>3
<1>4. PICK t \in Seq(Inputs) : t = [i \in 1 .. k |-> [idx |-> Usable[i], pkt |-> Packet(input.pos + i - 1)]]
  <2>1. [i \in 1 .. k |-> [idx |-> Usable[i], pkt |-> Packet(input.pos + i - 1)]] \in Seq(Inputs)
    BY <1>2, <1>3 DEF Inputs
  <2>. QED  BY <2>1
<1>5. codec.in \o t \in Seq(Inputs) /\ <<>> \in Seq(Indices)
  BY FieldsAre DEF CodecFields
<1>6. codec' \in CodecRecord /\ codec'.in = codec.in \o t /\ codec'.done = <<>>
      /\ codec'.free = codec.free /\ codec'.filled = codec.filled
  BY <1>1, <1>4, <1>5 DEF V4l2Types, CodecRecord
<1>7. indices' \in Seq(Indices)
  BY <1>1, <1>2
<1>8. Len(t) = k /\ \A i \in 1 .. k : t[i].idx = Usable[i]
  BY <1>2, <1>4
<1>. QED  BY <1>1, <1>2, <1>6, <1>7, <1>8

LEMMA InputTypes ==
    ASSUME V4l2Types
    PROVE  /\ OnInputIgnored => V4l2Types'
           /\ OnHandleInputBuffer => V4l2Types'
           /\ OnInputUnlinked => V4l2Types'
           /\ ReallocateRefused => V4l2Types'
           /\ InputStarves => V4l2Types'
           /\ RetryDue => V4l2Types'
<1>1. ASSUME OnInputIgnored PROVE V4l2Types'
  BY <1>1, TakenType DEF OnInputIgnored, NextIs, V4l2Types
<1>2. ASSUME OnHandleInputBuffer PROVE V4l2Types'
  <2>1. PICK k \in 0 .. InputRoom, tooBig \in BOOLEAN :
         /\ input' = [input EXCEPT !.pos = @ + k]
         /\ dec' = [dec EXCEPT !.eos = IF k > 0 /\ input.pos + k = NumPackets + 2 THEN "input" ELSE @,
                               !.target = IF input.pos = 1 /\ input.epoch > 0 /\ (tooBig \/ (k > 0 /\ NumPackets > 0))
                                          THEN SeekTarget ELSE @]
         /\ \E s : msgs' = [queue |-> Rest, retry |-> msgs.retry \/ s]
         /\ \E s : v4l2Seen' = [v4l2Seen EXCEPT !.stalls = IF s THEN @ + 1 ELSE @, !.tooBig = IF tooBig THEN @ + 1 ELSE @]
    BY <1>2, Zenon DEF OnHandleInputBuffer
  <2>2. codec' \in CodecRecord /\ indices' \in Seq(Indices)
    BY <1>2, InputBufferIs
  <2>8. input' \in InputRecord
    <3>1. input.pos + k \in Nat \ {0}
      BY FieldsAre, SMTT(60) DEF OtherFields
    <3>. QED  BY <2>1, <3>1 DEF V4l2Types, InputRecord
  <2>9. dec' \in DecRecord
    <3>1. PICK e \in {"none", "input", "output"}, t0 \in {-1, SeekTarget} : dec' = [dec EXCEPT !.eos = e, !.target = t0]
      BY <2>1, FieldsAre DEF DecFields
    <3>. QED  BY <3>1 DEF V4l2Types, DecRecord
  <2>10. msgs' \in V4l2MsgsRecord
    BY <1>2, <2>1, TakenType DEF OnHandleInputBuffer, NextIs, V4l2Types, V4l2MsgsRecord
  <2>11. v4l2Seen' \in V4l2SeenRecord
    <3>1. v4l2Seen.stalls + 1 \in Nat /\ v4l2Seen.tooBig + 1 \in Nat /\ v4l2Seen \in V4l2SeenRecord
      BY FieldsAre DEF OtherFields, V4l2Types
    <3>2. PICK n \in Nat, m \in Nat : v4l2Seen' = [v4l2Seen EXCEPT !.stalls = n, !.tooBig = m]
      BY <2>1, <3>1 DEF V4l2SeenRecord
    <3>. QED  BY <3>1, <3>2 DEF V4l2SeenRecord
  <2>. QED  BY <1>2, <2>2, <2>8, <2>9, <2>10, <2>11 DEF OnHandleInputBuffer, V4l2Types
<1>3. ASSUME OnInputUnlinked \/ ReallocateRefused PROVE V4l2Types'
  <2>1. dec' \in DecRecord
    BY <1>3 DEF OnInputUnlinked, ReallocateRefused, V4l2Types, DecRecord
  <2>. QED  BY <1>3, <2>1 DEF OnInputUnlinked, ReallocateRefused, V4l2Types
<1>5. ASSUME InputStarves PROVE V4l2Types'
  BY <1>5, TakenType DEF InputStarves, NextIs, V4l2Types, V4l2Places
<1>4. ASSUME RetryDue PROVE V4l2Types'
  <2>1. Append(msgs.queue, Message("in")) \in Seq(Messages)
    BY FieldsAre, MessageIs DEF OtherFields, V4l2Whats
  <2>2. msgs' \in V4l2MsgsRecord
    BY <1>4, <2>1 DEF RetryDue, V4l2MsgsRecord
  <2>. QED  BY <1>4, <2>2 DEF RetryDue, V4l2Types
<1>. QED  BY <1>1, <1>2, <1>3, <1>4, <1>5

LEMMA OutputTypes ==
    ASSUME V4l2Types
    PROVE  /\ OnOutputIgnored => V4l2Types'
           /\ OutputFrame => V4l2Types'
           /\ OutputOver => V4l2Types'
           /\ OutputKept => V4l2Types'
<1>1. ASSUME OnOutputIgnored PROVE V4l2Types'
  BY <1>1, TakenType DEF OnOutputIgnored, NextIs, V4l2Types
<1>2. ASSUME HandlesOutput, NEW more \in Seq(Messages), OutputPosts(more) PROVE msgs' \in V4l2MsgsRecord
  <2>1. Tail(msgs.queue) \in Seq(Messages) \/ v4l2Handler = "out"
    BY <1>2, TakenType DEF HandlesOutput, NextIs, Rest
  <2>2. PICK q \in Seq(Messages) : q = IF v4l2Handler = "out" THEN msgs.queue ELSE Tail(msgs.queue)
    BY <2>1, FieldsAre DEF OtherFields
  <2>3. q \o more \in Seq(Messages)
    OBVIOUS
  <2>. QED  BY <1>2, <2>2, <2>3 DEF OutputPosts, V4l2Types, V4l2MsgsRecord
<1>3. <<>> \in Seq(Messages) /\ <<Message("out")>> \in Seq(Messages)
  BY MessageIs DEF V4l2Whats
<1>4. codec.filled # <<>> => /\ Frame \in Outputs /\ Frame.frame \in Frames /\ Frame.pkt.n \in Nat /\ Frame.last \in BOOLEAN
                             /\ Dequeued \in CodecRecord
  <2>1. SUFFICES ASSUME codec.filled # <<>>
                 PROVE  /\ Frame \in Outputs /\ Frame.frame \in Frames /\ Frame.pkt.n \in Nat /\ Frame.last \in BOOLEAN
                        /\ Dequeued \in CodecRecord
    OBVIOUS
  <2>2. Tail(codec.filled) \in Seq(Outputs) /\ Frame \in Outputs
    BY <2>1, FieldsAre DEF CodecFields, Frame
  <2>3. Frame.frame \in Frames /\ Frame.pkt \in Packets /\ Frame.last \in BOOLEAN
    BY <2>2 DEF Outputs
  <2>4. Frame.pkt.n \in Nat
    BY <2>3 DEF Packets
  <2>5. Dequeued \in CodecRecord
    BY <2>2 DEF Dequeued, V4l2Types, CodecRecord
  <2>. QED  BY <2>2, <2>3, <2>4, <2>5
<1>5. ASSUME OutputFrame PROVE V4l2Types'
  <2>1. PICK f \in Frames, g \in Nat, n \in Nat : f = Frame.frame /\ g = dec.gen /\ n = Frame.pkt.n
    BY <1>4, <1>5, FieldsAre DEF OutputFrame, DecFields
  <2>2. codec' \in CodecRecord
    <3>1. PICK c \in CodecRecord : c = Dequeued
      BY <1>4, <1>5 DEF OutputFrame
    <3>2. c.interrupt \/ Ends \in BOOLEAN
      BY <1>4, <1>5, <3>1 DEF OutputFrame, Ends, CodecRecord
    <3>3. codec' = [c EXCEPT !.interrupt = @ \/ Ends]
      BY <1>5, <3>1 DEF OutputFrame
    <3>. QED  BY <3>2, <3>3 DEF CodecRecord
  <2>3. msgs' \in V4l2MsgsRecord
    <3>1. <<[what |-> "schedule", frame |-> f, gen |-> g]>> \in Seq(Messages)
      BY MessageIs
    <3>2. CASE OutputPosts(<<>>)
      BY <1>2, <1>3, <1>5, <3>2 DEF OutputFrame
    <3>3. CASE OutputPosts(<<[what |-> "schedule", frame |-> f, gen |-> g]>>)
      BY <1>2, <1>5, <3>1, <3>3 DEF OutputFrame
    <3>. QED  BY <1>5, <2>1, <3>2, <3>3 DEF OutputFrame
  <2>4. dec' \in DecRecord
    <3>1. [dec EXCEPT !.eos = "output", !.state = "paused"] \in DecRecord /\ dec \in DecRecord
      BY DEF V4l2Types, DecRecord, DecStates, Active
    <3>2. \A d \in DecRecord : [d EXCEPT !.target = -1] \in DecRecord
      BY DEF DecRecord
    <3>. QED  BY <1>5, <3>1, <3>2 DEF OutputFrame
  <2>5. owner' \in [Frames -> Owners] /\ v4l2Handler' \in V4l2Places
    BY <1>5, <2>1 DEF OutputFrame, V4l2Types, Owners, V4l2Places
  <2>6. held' \in SUBSET Buffers
    BY <1>5, <2>1 DEF OutputFrame, V4l2Types, Buffers
  <2>7. v4l2Seen' \in V4l2SeenRecord
    <3>1. v4l2Seen \in V4l2SeenRecord /\ (v4l2Seen.eos \/ (Ends /\ ~Skipped)) \in BOOLEAN
      BY FieldsAre DEF V4l2Types, OtherFields
    <3>2. PICK e \in BOOLEAN : e = (v4l2Seen.eos \/ (Ends /\ ~Skipped))
      BY <3>1
    <3>3. v4l2Seen' = [v4l2Seen EXCEPT !.last = IF Ends THEN @ ELSE n, !.eos = e]
      BY <1>5, <2>1, <3>2 DEF OutputFrame
    <3>. QED  BY <3>1, <3>3 DEF V4l2SeenRecord
  <2>. QED  BY <1>5, <2>2, <2>3, <2>4, <2>5, <2>6, <2>7 DEF OutputFrame, V4l2Types
<1>6. ASSUME OutputOver PROVE V4l2Types'
  <2>1. msgs' \in V4l2MsgsRecord
    BY <1>2, <1>3, <1>6 DEF OutputOver
  <2>2. dec' \in DecRecord /\ codec' \in CodecRecord /\ v4l2Seen' \in V4l2SeenRecord
    <3>1. [dec EXCEPT !.eos = "output", !.state = "paused"] \in DecRecord /\ dec \in DecRecord
      BY DEF V4l2Types, DecRecord, DecStates, Active
    <3>2. [codec EXCEPT !.interrupt = TRUE] \in CodecRecord /\ codec \in CodecRecord
      BY DEF V4l2Types, CodecRecord
    <3>3. [v4l2Seen EXCEPT !.eos = TRUE] \in V4l2SeenRecord /\ v4l2Seen \in V4l2SeenRecord
      BY DEF V4l2Types, V4l2SeenRecord
    <3>. QED  BY <1>6, <3>1, <3>2, <3>3 DEF OutputOver
  <2>3. v4l2Handler' \in V4l2Places
    BY <1>6 DEF OutputOver, V4l2Places
  <2>. QED  BY <1>6, <2>1, <2>2, <2>3 DEF OutputOver, V4l2Types
<1>7. ASSUME OutputKept PROVE V4l2Types'
  <2>1. msgs' \in V4l2MsgsRecord
    BY <1>2, <1>3, <1>7 DEF OutputKept
  <2>2. v4l2Handler' \in V4l2Places
    BY <1>7 DEF OutputKept, V4l2Places
  <2>3. \A b \in BOOLEAN : [NextGen(dec) EXCEPT !.changing = b] \in DecRecord
    <3>1. dec.gen + 1 \in Nat \ {0} /\ dec \in DecRecord
      BY FieldsAre DEF DecFields, V4l2Types
    <3>. QED  BY <3>1 DEF NextGen, DecRecord
  <2>4. PICK d1 \in DecRecord, d2 \in DecRecord :
            /\ d1 = [NextGen(dec) EXCEPT !.changing = Len(dec.deferred) > 1]
            /\ d2 = [NextGen(dec) EXCEPT !.changing = FALSE]
    <3>a. (Len(dec.deferred) > 1) \in BOOLEAN
      OBVIOUS
    <3>1. PICK b \in BOOLEAN : b = (Len(dec.deferred) > 1)
      BY <3>a, Zenon
    <3>2. [NextGen(dec) EXCEPT !.changing = b] \in DecRecord /\ [NextGen(dec) EXCEPT !.changing = FALSE] \in DecRecord
      BY <2>3
    <3>. QED  BY <3>1, <3>2
  <2>5. /\ owner' \in [Frames -> Owners] /\ codec' \in CodecRecord /\ dec' \in DecRecord
        /\ pipe' \in PipeRecord /\ UNCHANGED input
    <3>1. CASE /\ owner' = [owner EXCEPT ![Frame.frame] = "us"] /\ codec' = Dequeued /\ UNCHANGED <<dec, pipe, input>>
      <4>1. owner' \in [Frames -> Owners]
        BY <3>1 DEF V4l2Types, Owners
      <4>. QED  BY <1>4, <1>7, <3>1, <4>1 DEF OutputKept, V4l2Types
    <3>2. CASE Reallocates(d1)
      BY <3>2, ReallocatesType DEF V4l2Types
    <3>3. CASE ReallocateFails(d2)
      BY <3>3, ReallocatesType
    <3>. QED  BY <1>7, <2>4, <3>1, <3>2, <3>3 DEF OutputKept
  <2>. QED  BY <1>7, <2>1, <2>2, <2>5 DEF OutputKept, V4l2Types
<1>. QED  BY <1>1, <1>5, <1>6, <1>7

LEMMA ScheduleTypes ==
    ASSUME V4l2Types
    PROVE  /\ OnScheduleIgnored => V4l2Types'
           /\ OnSchedule => V4l2Types'
           /\ RenderFails => V4l2Types'
           /\ ClientReleases => V4l2Types'
<1>1. ASSUME OnScheduleIgnored PROVE V4l2Types'
  BY <1>1, TakenType DEF OnScheduleIgnored, NextIs, V4l2Types
<1>2. ASSUME OnSchedule PROVE V4l2Types'
  <2>1. msgs' \in V4l2MsgsRecord
    BY <1>2, TakenType DEF OnSchedule, NextIs
  <2>2. PICK d1 \in DecRecord, d2 \in DecRecord :
            /\ d1 = [NextGen(dec) EXCEPT !.changing = FALSE]
            /\ d2 = [NextGen(dec) EXCEPT !.changing = FALSE, !.state = "paused"]
    <3>1. dec.gen + 1 \in Nat \ {0} /\ dec \in DecRecord
      BY FieldsAre DEF DecFields, V4l2Types
    <3>2. [NextGen(dec) EXCEPT !.changing = FALSE] \in DecRecord /\ [NextGen(dec) EXCEPT !.changing = FALSE, !.state = "paused"] \in DecRecord
      BY <3>1 DEF NextGen, DecRecord, DecStates, Active
    <3>. QED  BY <3>2
  <2>3. PICK g \in Exchanges(Returned.frame) :
         LET own == [owner EXCEPT ![Returned.frame] = "window", ![g] = "us"]
         IN \/ /\ owner' = [own EXCEPT ![g] = "codec"]
               /\ codec' = [codec EXCEPT !.free = @ \cup {g}]
               /\ UNCHANGED <<dec, v4l2Handler, pipe, input>>
            \/ /\ owner' = own
               /\ UNCHANGED <<dec, v4l2Handler, codec, pipe, input>>
            \/ Reallocates(d1) /\ v4l2Handler' = IF dec.deferred = <<>> THEN "idle" ELSE "deferred"
            \/ ReallocateFails(d2) /\ UNCHANGED v4l2Handler
            \/ dec' = [dec EXCEPT !.over = "start"] /\ UNCHANGED <<owner, v4l2Handler, codec, pipe, input>>
    BY <1>2, <2>2 DEF OnSchedule
  <2>4. Returned \in Messages /\ Returned.frame \in Frames
    BY <1>2, TakenType, MessageFields DEF OnSchedule, NextIs, Returned
  <2>5. v4l2Handler' \in V4l2Places
    BY <2>3 DEF V4l2Types, V4l2Places
  <2>6. dec \in DecRecord /\ [dec EXCEPT !.over = "start"] \in DecRecord
    BY DEF V4l2Types, DecRecord
  <2> DEFINE own == [owner EXCEPT ![Returned.frame] = "window", ![g] = "us"]
  <2>7. own \in [Frames -> Owners] /\ [own EXCEPT ![g] = "codec"] \in [Frames -> Owners]
    BY <2>4 DEF V4l2Types, Owners
  <2>8. /\ owner' \in [Frames -> Owners] /\ codec' \in CodecRecord /\ dec' \in DecRecord
        /\ pipe' \in PipeRecord /\ input' \in InputRecord
    <3>1. CASE owner' = [own EXCEPT ![g] = "codec"] /\ codec' = [codec EXCEPT !.free = @ \cup {g}] /\ UNCHANGED <<dec, pipe, input>>
      <4>1. g \in Frames
        BY <2>4 DEF Exchanges
      <4>2. codec.free \cup {g} \in SUBSET Frames
        BY <4>1, FieldsAre DEF CodecFields
      <4>3. codec' \in CodecRecord
        BY <3>1, <4>2 DEF V4l2Types, CodecRecord
      <4>. QED  BY <2>7, <3>1, <4>3 DEF V4l2Types
    <3>2. CASE owner' = own /\ UNCHANGED <<dec, codec, pipe, input>>
      BY <2>7, <3>2 DEF V4l2Types
    <3>3. CASE Reallocates(d1)
      BY <3>3, ReallocatesType DEF V4l2Types
    <3>4. CASE ReallocateFails(d2)
      BY <3>4, ReallocatesType DEF V4l2Types
    <3>5. CASE dec' = [dec EXCEPT !.over = "start"] /\ UNCHANGED <<owner, codec, pipe, input>>
      BY <2>6, <3>5 DEF V4l2Types
    <3>. QED  BY <2>3, <3>1, <3>2, <3>3, <3>4, <3>5
  <2>. QED  BY <1>2, <2>1, <2>5, <2>8 DEF OnSchedule, V4l2Types
<1>3. ASSUME RenderFails PROVE V4l2Types'
  <2>1. msgs' \in V4l2MsgsRecord
    BY <1>3, TakenType DEF RenderFails, NextIs
  <2>2. dec' \in DecRecord
    BY <1>3 DEF RenderFails, V4l2Types, DecRecord, DecStates, Active
  <2>3. owner' \in [Frames -> Owners]
    BY <1>3 DEF RenderFails, V4l2Types, Owners
  <2>. QED  BY <1>3, <2>1, <2>2, <2>3, FailsType DEF RenderFails, V4l2Types
<1>4. ASSUME ClientReleases PROVE V4l2Types'
  <2>1. PICK b \in held :
            /\ held' = held \ {b}
            /\ msgs' = [msgs EXCEPT !.queue = Append(@, [what |-> "schedule", frame |-> b.frame, gen |-> b.gen])]
    BY <1>4 DEF ClientReleases
  <2>2. b.frame \in Frames /\ b.gen \in Nat
    BY DEF V4l2Types, Buffers
  <2>3. Append(msgs.queue, [what |-> "schedule", frame |-> b.frame, gen |-> b.gen]) \in Seq(Messages)
    BY <2>2, MessageIs, FieldsAre DEF OtherFields
  <2>4. msgs' \in V4l2MsgsRecord
    BY <2>1, <2>3 DEF V4l2Types, V4l2MsgsRecord
  <2>. QED  BY <1>4, <2>1, <2>4 DEF ClientReleases, V4l2Types
<1>. QED  BY <1>1, <1>2, <1>3, <1>4

LEMMA ChangeTypes ==
    ASSUME V4l2Types, OnHandleResolutionChange
    PROVE  V4l2Types'
<1>1. msgs' \in V4l2MsgsRecord
  BY TakenType DEF OnHandleResolutionChange, NextIs
<1>2. dec' \in DecRecord
  BY DEF OnHandleResolutionChange, V4l2Types, DecRecord
<1>3. v4l2Seen' \in V4l2SeenRecord
  BY DEF OnHandleResolutionChange, V4l2Types, V4l2SeenRecord
<1>4. codec' \in CodecRecord
  <2> DEFINE S == {[frame |-> f, pkt |-> Packet(NumPackets + 1), last |-> FALSE] : f \in codec.free}
  <2>1. S \subseteq Outputs /\ IsFiniteSet(S)
    <3>1. Packet(NumPackets + 1) \in Packets
      BY V4l2Assumption, FieldsAre DEF Packet, Packets, EosPacket, OtherFields
    <3>2. codec.free \subseteq Frames
      BY FieldsAre DEF CodecFields
    <3>3. IsFiniteSet(codec.free)
      BY <3>2, FramesFinite, FS_Subset
    <3>4. IsFiniteSet(S)
      BY <3>3, GivenBackFinite
    <3>5. \A f \in Frames : [frame |-> f, pkt |-> Packet(NumPackets + 1), last |-> FALSE] \in Outputs
      BY <3>1 DEF Outputs
    <3>. QED  BY <3>2, <3>4, <3>5
  <2>2. SetToSeq(S) \in Seq(Outputs)
    BY <2>1, SetToSeqIs
  <2>3. PICK t \in Seq(Outputs) : t = SetToSeq(S)
    BY <2>2
  <2>4. codec.filled \o t \in Seq(Outputs) /\ {} \in SUBSET Frames
    BY FieldsAre DEF CodecFields
  <2>5. [codec EXCEPT !.event = FALSE, !.free = {}, !.filled = @ \o t] \in CodecRecord
    BY <2>4 DEF V4l2Types, CodecRecord
  <2>. QED  BY <2>3, <2>5 DEF OnHandleResolutionChange, V4l2Types
<1>. QED  BY <1>1, <1>2, <1>3, <1>4 DEF OnHandleResolutionChange, V4l2Types

LEMMA FlushTypes ==
    ASSUME V4l2Types
    PROVE  /\ OnV4l2Flush => V4l2Types'
           /\ dec.deferred # <<>> /\ DeferredFlush => V4l2Types'
<1>1. ASSUME OnV4l2Flush PROVE V4l2Types'
  <2>1. msgs' \in V4l2MsgsRecord
    BY <1>1, TakenType DEF OnV4l2Flush, NextIs
  <2>2. CASE dec.changing /\ dec' = [dec EXCEPT !.deferred = Append(@, "flush")]
             /\ UNCHANGED <<owner, codec, indices, pipe, input, v4l2Seen>>
    <3>1. Append(dec.deferred, "flush") \in Seq({"flush", "stop"})
      BY FieldsAre DEF DecFields
    <3>2. dec' \in DecRecord
      BY <2>2, <3>1 DEF V4l2Types, DecRecord
    <3>. QED  BY <1>1, <2>1, <2>2, <3>2 DEF OnV4l2Flush, V4l2Types
  <2>3. CASE Notify("flush") /\ UNCHANGED <<dec, owner, codec, indices, v4l2Seen>>
    BY <1>1, <2>1, <2>3, NotifyType DEF OnV4l2Flush, V4l2Types, V4l2Ops
  <2>4. CASE Flushes(dec) /\ Notify("flush")
    <3>1. pipe' \in PipeRecord /\ input' \in InputRecord
      BY <2>4, NotifyType DEF V4l2Ops
    <3>2. /\ dec' \in DecRecord /\ owner' \in [Frames -> Owners] /\ codec' \in CodecRecord /\ indices' \in Seq(Indices)
          /\ v4l2Seen' \in V4l2SeenRecord
      BY <2>4, FlushesType DEF V4l2Types
    <3>. QED  BY <1>1, <2>1, <3>1, <3>2 DEF OnV4l2Flush, V4l2Types
  <2>. QED  BY <1>1, <2>2, <2>3, <2>4 DEF OnV4l2Flush
<1>2. ASSUME dec.deferred # <<>>, DeferredFlush PROVE V4l2Types'
  <2>1. Tail(dec.deferred) \in Seq({"flush", "stop"})
    BY <1>2, FieldsAre DEF DecFields
  <2>2. PICK d \in DecRecord : d = [dec EXCEPT !.deferred = Tail(@)]
    <3>1. [dec EXCEPT !.deferred = Tail(@)] \in DecRecord
      BY <2>1 DEF V4l2Types, DecRecord
    <3>. QED  BY <3>1
  <2>3. Flushes(d) /\ Notify("flush")
    BY <1>2, <2>2 DEF DeferredFlush
  <2>4. pipe' \in PipeRecord /\ input' \in InputRecord
    BY <2>3, NotifyType DEF V4l2Ops
  <2>5. /\ dec' \in DecRecord /\ owner' \in [Frames -> Owners] /\ codec' \in CodecRecord /\ indices' \in Seq(Indices)
        /\ v4l2Seen' \in V4l2SeenRecord
    BY <2>3, FlushesType
  <2>6. v4l2Handler' \in V4l2Places
    BY <1>2 DEF DeferredFlush, V4l2Places
  <2>. QED  BY <1>2, <2>4, <2>5, <2>6 DEF DeferredFlush, V4l2Types
<1>. QED  BY <1>1, <1>2

LEMMA StopTypes ==
    ASSUME V4l2Types
    PROVE  /\ OnV4l2Stop => V4l2Types'
           /\ StopJoined => V4l2Types'
           /\ dec.deferred # <<>> /\ DeferredStop => V4l2Types'
           /\ OnV4l2Reset => V4l2Types'
           /\ ResetJoined => V4l2Types'
<1>1. Append(dec.deferred, "stop") \in Seq({"flush", "stop"}) /\ dec.deferred \in Seq({"flush", "stop"})
  BY FieldsAre DEF DecFields
<1>2. dec \in DecRecord
  BY DEF V4l2Types
<1>3. "idle" \in V4l2Places /\ "join" \in V4l2Places /\ "joinReset" \in V4l2Places
  BY DEF V4l2Places
<1>4. "window" \in Owners
  BY DEF Owners
<1>5. ASSUME OnV4l2Stop PROVE V4l2Types'
  <2>1. msgs' \in V4l2MsgsRecord
    BY <1>5, TakenType DEF OnV4l2Stop, NextIs
  <2>2. CASE dec' = [dec EXCEPT !.deferred = Append(@, "stop")] /\ UNCHANGED <<v4l2Handler, codec, pollThread, pipe, input>>
    <3>1. dec' \in DecRecord
      BY <1>1, <1>2, <2>2 DEF DecRecord
    <3>. QED  BY <1>5, <2>1, <2>2, <3>1 DEF OnV4l2Stop, V4l2Types
  <2>3. CASE dec' = [dec EXCEPT !.linked = FALSE] /\ Notify("stop") /\ UNCHANGED <<v4l2Handler, codec, pollThread>>
    <3>1. dec' \in DecRecord
      BY <1>2, <2>3 DEF DecRecord
    <3>2. pipe' \in PipeRecord /\ input' \in InputRecord
      BY <2>3, NotifyType DEF V4l2Ops
    <3>. QED  BY <1>5, <2>1, <2>3, <3>1, <3>2 DEF OnV4l2Stop, V4l2Types
  <2>4. CASE TellsThread(dec) /\ v4l2Handler' = "join" /\ UNCHANGED <<pipe, input>>
    BY <1>2, <1>3, <1>5, <2>1, <2>4, TellsThreadType DEF OnV4l2Stop, V4l2Types
  <2>. QED  BY <1>5, <2>2, <2>3, <2>4 DEF OnV4l2Stop
<1>6. ASSUME StopJoined PROVE V4l2Types'
  <2>1. pipe' \in PipeRecord /\ input' \in InputRecord
    BY <1>6, NotifyType DEF StopJoined, V4l2Ops
  <2>. QED  BY <1>3, <1>4, <1>6, <2>1, StoppedType, FrameSets DEF StopJoined, V4l2Types
<1>7. ASSUME dec.deferred # <<>>, DeferredStop PROVE V4l2Types'
  <2>1. Tail(dec.deferred) \in Seq({"flush", "stop"})
    BY <1>1, <1>7
  <2>2. PICK d \in DecRecord : d = [dec EXCEPT !.deferred = Tail(@)]
    <3>1. [dec EXCEPT !.deferred = Tail(@)] \in DecRecord
      BY <2>1 DEF V4l2Types, DecRecord
    <3>. QED  BY <3>1
  <2>3. TellsThread(d)
    BY <1>7, <2>2 DEF DeferredStop
  <2>. QED  BY <1>3, <1>7, <2>3, TellsThreadType DEF DeferredStop, V4l2Types
<1>8. ASSUME OnV4l2Reset PROVE V4l2Types'
  <2>1. msgs' \in V4l2MsgsRecord
    BY <1>8, TakenType DEF OnV4l2Reset, NextIs
  <2>2. CASE /\ dec' = [Closed(dec) EXCEPT !.deferred = IF dec.changing THEN Append(@, "stop") ELSE @]
             /\ Notify("reset") /\ UNCHANGED <<v4l2Handler, codec, pollThread>>
    <3>1. PICK q \in Seq({"flush", "stop"}) : q = IF dec.changing THEN Append(dec.deferred, "stop") ELSE dec.deferred
      BY <1>1
    <3>2. dec' = [dec EXCEPT !.open = FALSE, !.linked = FALSE, !.over = "reset", !.deferred = q]
      BY <1>2, <2>2, <3>1 DEF Closed, DecRecord
    <3>3. dec' \in DecRecord
      BY <1>2, <3>2 DEF DecRecord
    <3>4. pipe' \in PipeRecord /\ input' \in InputRecord
      BY <2>2, NotifyType DEF V4l2Ops
    <3>. QED  BY <1>8, <2>1, <2>2, <3>3, <3>4 DEF OnV4l2Reset, V4l2Types
  <2>3. CASE TellsThread(dec) /\ v4l2Handler' = "joinReset" /\ UNCHANGED <<pipe, input>>
    BY <1>2, <1>3, <1>8, <2>1, <2>3, TellsThreadType DEF OnV4l2Reset, V4l2Types
  <2>. QED  BY <1>8, <2>2, <2>3 DEF OnV4l2Reset
<1>9. ASSUME ResetJoined PROVE V4l2Types'
  <2>1. pipe' \in PipeRecord /\ input' \in InputRecord
    BY <1>9, NotifyType DEF ResetJoined, V4l2Ops
  <2>. QED  BY <1>3, <1>4, <1>9, <2>1, StoppedType, FrameSets DEF ResetJoined, V4l2Types
<1>. QED  BY <1>5, <1>6, <1>7, <1>8, <1>9

LEMMA PollTypes ==
    ASSUME V4l2Types, PollThread
    PROVE  V4l2Types'
<1>1. /\ PollReturned
      /\ \E at \in {"exited", "sem", "poll"} :
           pollThread' = [pollThread EXCEPT !.at = at, !.sem = IF pollThread.at = "sem" THEN @ - 1 ELSE @,
                                !.event = at # "poll" /\ HasEvent]
  BY DEF PollThread, PollEnds, PollSleeps, PollPosts, PollGoes
<1>2. pollThread.at = "sem" => pollThread.sem - 1 \in Nat
  BY <1>1, FieldsAre DEF PollReturned, OtherFields
<1>3. HasEvent \in BOOLEAN
  BY FieldsAre DEF HasEvent, V4l2Types, PollRecord, CodecFields
<1>4. PICK at \in {"exited", "sem", "poll"}, n \in Nat, e \in BOOLEAN :
         pollThread' = [pollThread EXCEPT !.at = at, !.sem = n, !.event = e]
  <2>1. PICK at \in {"exited", "sem", "poll"} :
         pollThread' = [pollThread EXCEPT !.at = at, !.sem = IF pollThread.at = "sem" THEN @ - 1 ELSE @,
                                !.event = at # "poll" /\ HasEvent]
    BY <1>1
  <2>2. PICK n \in Nat : n = IF pollThread.at = "sem" THEN pollThread.sem - 1 ELSE pollThread.sem
    BY <1>2, FieldsAre DEF OtherFields
  <2>3. PICK e \in BOOLEAN : e = (at # "poll" /\ HasEvent)
    BY <1>3
  <2>. QED  BY <2>1, <2>2, <2>3
<1>5. pollThread' \in PollRecord
  BY <1>4 DEF V4l2Types, PollRecord
<1>6. msgs' \in V4l2MsgsRecord
  <2>1. CASE UNCHANGED msgs
    BY <2>1 DEF V4l2Types
  <2>2. CASE PollPosts
    <3>1. PICK a \in Seq(Messages), b \in Seq(Messages) :
            /\ a = IF HasEvent THEN <<Message("change")>> ELSE <<>>
            /\ b = <<Message("in"), Message("out")>>
      <4>1. Message("change") \in Messages /\ Message("in") \in Messages /\ Message("out") \in Messages
        BY MessageIs DEF V4l2Whats
      <4>2. <<Message("change")>> \in Seq(Messages) /\ <<>> \in Seq(Messages) /\ <<Message("in"), Message("out")>> \in Seq(Messages)
        BY <4>1
      <4>. QED  BY <4>2, Zenon
    <3>2. (msgs.queue \o a) \o b \in Seq(Messages)
      BY FieldsAre DEF OtherFields
    <3>3. msgs' = [msgs EXCEPT !.queue = (msgs.queue \o a) \o b]
      BY <2>2, <3>1 DEF PollPosts
    <3>. QED  BY <3>2, <3>3 DEF V4l2Types, V4l2MsgsRecord
  <2>. QED  BY <2>1, <2>2 DEF PollThread, PollEnds, PollSleeps
<1>. QED  BY <1>5, <1>6 DEF PollThread, PollEnds, PollSleeps, PollPosts, V4l2Types

(* What the codec does with a packet.                                      *)
LEMMA CodecStepIs ==
    ASSUME V4l2Types, CodecStep
    PROVE  /\ codec.in # <<>> /\ Head(codec.in) \in Inputs /\ Head(codec.in).idx \in Indices
           /\ codec'.in = Tail(codec.in) /\ codec'.done = Append(codec.done, Head(codec.in).idx)
           /\ codec' \in CodecRecord
           /\ \/ codec'.free = codec.free /\ codec'.filled = codec.filled
              \/ \E f \in codec.free, o \in Outputs :
                    /\ o.frame = f /\ o.pkt = Head(codec.in).pkt
                    /\ codec'.free = codec.free \ {f} /\ codec'.filled = Append(codec.filled, o)
<1>1. codec.in # <<>>
  BY DEF CodecStep, CodecHas
<1>2. Tail(codec.in) \in Seq(Inputs) /\ Head(codec.in) \in Inputs
  BY <1>1, FieldsAre DEF CodecFields
<1>3. Head(codec.in).idx \in Indices /\ Head(codec.in).pkt \in Packets
  BY <1>2 DEF Inputs
<1>4. Append(codec.done, Head(codec.in).idx) \in Seq(Indices)
  BY <1>3, FieldsAre DEF CodecFields
<1>5. /\ Consumed \in CodecRecord /\ Consumed.in = Tail(codec.in) /\ Consumed.done = Append(codec.done, Head(codec.in).idx)
      /\ Consumed.free = codec.free /\ Consumed.filled = codec.filled
  BY <1>2, <1>4 DEF Consumed, V4l2Types, CodecRecord
<1>6. CASE \E eos \in BOOLEAN : codec.free # {} /\ Fills(Min(codec.free), eos)
  <2>1. PICK eos \in BOOLEAN : Fills(Min(codec.free), eos)
    BY <1>6
  <2>2. PICK f \in codec.free : f = Min(codec.free)
    BY <1>6, MinIsOne, FieldsAre DEF CodecFields
  <2>3. f \in Frames
    BY FieldsAre DEF CodecFields
  <2>4. PICK o \in Outputs : o = [frame |-> f, pkt |-> Head(codec.in).pkt, last |-> eos]
    BY <1>3, <2>3 DEF Outputs
  <2>5. codec' = [Consumed EXCEPT !.free = @ \ {f}, !.filled = Append(@, o)]
    BY <2>1, <2>2, <2>4 DEF Fills
  <2>6. codec.free \ {f} \in SUBSET Frames /\ Append(codec.filled, o) \in Seq(Outputs)
    BY FieldsAre DEF CodecFields
  <2>7. codec' \in CodecRecord /\ codec'.in = Tail(codec.in) /\ codec'.done = Append(codec.done, Head(codec.in).idx)
        /\ codec'.free = codec.free \ {f} /\ codec'.filled = Append(codec.filled, o)
    BY <1>5, <2>5, <2>6 DEF CodecRecord
  <2>8. o.frame = f /\ o.pkt = Head(codec.in).pkt
    BY <2>4
  <2>. QED  BY <1>1, <1>2, <1>3, <2>7, <2>8
<1>7. CASE codec' = [Consumed EXCEPT !.eos = TRUE]
  BY <1>1, <1>2, <1>3, <1>5, <1>7 DEF CodecRecord
<1>. QED  BY <1>6, <1>7 DEF CodecStep

LEMMA CodecTypes ==
    ASSUME V4l2Types
    PROVE  (CodecGoesOn => V4l2Types') /\ (CodecChanges => V4l2Types')
<1>1. ASSUME CodecGoesOn PROVE V4l2Types'
  BY <1>1, CodecStepIs DEF CodecGoesOn, V4l2Types
<1>2. ASSUME CodecChanges PROVE V4l2Types'
  <2>1. codec' \in CodecRecord
    BY <1>2 DEF CodecChanges, V4l2Types, CodecRecord
  <2>2. v4l2Seen.changes + 1 \in Nat
    BY FieldsAre DEF OtherFields
  <2>3. v4l2Seen' \in V4l2SeenRecord
    BY <1>2, <2>2 DEF CodecChanges, V4l2Types, V4l2SeenRecord
  <2>. QED  BY <1>2, <2>1, <2>3 DEF CodecChanges, V4l2Types
<1>. QED  BY <1>1, <1>2

LEMMA TypesStep ==
    ASSUME V4l2Types, v4l2Handler = "deferred" => dec.deferred # <<>>, V4l2Next
    PROVE  V4l2Types'
<1>1. CASE \E op \in V4l2Ops : V4l2Call(op)
  BY <1>1, CommandTypes
<1>2. CASE V4l2MessageThread
  <2>1. DeferredFlush \/ DeferredStop => dec.deferred # <<>>
    BY DEF DeferredFlush, DeferredStop
  <2>. QED  BY <1>2, <2>1, CommandTypes, StartTypes, InputTypes, OutputTypes, ScheduleTypes, ChangeTypes, FlushTypes, StopTypes
       DEF V4l2MessageThread
<1>3. CASE PollThread
  BY <1>3, PollTypes
<1>4. CASE CodecGoesOn \/ CodecChanges \/ ClientReleases
  BY <1>4, CodecTypes, ScheduleTypes
<1>. QED  BY <1>1, <1>2, <1>3, <1>4 DEF V4l2Next

-----------------------------------------------------------------------------
(* The order of things: the commands, where the handlers are, and whose the  *)
(* frames are before the start and after the stop.                         *)
Plain == {"in", "out", "schedule", "change"}
Starts == {"startInput", "startOutput"}
Kind(k) == msgs.queue[k].what
Queued == 1 .. Len(msgs.queue)

(* The pipeline's view: it prepares once, and while it has asked nothing     *)
(* after that the decoder is as prepare left it.                           *)
ModeInv ==
    /\ pipe.mode = "null" => dec.state = "null" /\ pipe.op \in {"none", "prepare"}
    /\ \A k \in Queued : Kind(k) = "prepare" => pipe.mode = "null" /\ pipe.op = "prepare"
    /\ \A j, k \in Queued : Kind(j) = "prepare" /\ Kind(k) = "prepare" => j = k
    /\ pipe.mode = "prepared" /\ pipe.op \in {"none", "flush"} =>
         dec.state = "prepared" /\ \A k \in Queued : Kind(k) \notin Starts
    /\ pipe.mode \in {"stopped", "error", "reset"} => pipe.op \in {"none", "reset"}

PlacesInv ==
    /\ dec.configured => dec.state \in {"playing", "paused", "stopping"}
    /\ v4l2Handler \in {"out", "deferred", "spins", "starves"} => dec.state \in Active
    /\ v4l2Handler = "deferred" => dec.deferred # <<>>
    /\ dec.state = "stopping" <=> v4l2Handler \in {"join", "joinReset"}

OwnersInv ==
    /\ dec.state \in {"null", "prepared"} => \A f \in Frames : owner[f] = "none"
    /\ dec.state = "stopped" => \A f \in Frames : owner[f] = "window"

(* A start is in the queue once, and then nothing is configured yet.        *)
StartsInv ==
    /\ \A k \in Queued : Kind(k) = "startInput" => dec.state = "prepared"
    /\ \A k \in Queued : Kind(k) = "startOutput" => dec.state \in Active
    /\ \A k \in Queued : Kind(k) \in Starts =>
         /\ \A f \in Frames : owner[f] = "none"
         /\ ~dec.configured /\ v4l2Handler \in {"idle", "out", "starves"}
    /\ \A j, k \in Queued : Kind(j) \in Starts /\ Kind(k) \in Starts => j = k

(* A stop comes only when it was asked for, and after it nothing that plays. *)
StopAsked == pipe.op \in {"stop", "reset"} \/ pipe.mode \in {"stopped", "error", "reset"}
StopDeferred == \E k \in 1 .. Len(dec.deferred) : dec.deferred[k] = "stop"
Joins == v4l2Handler \in {"join", "joinReset"}

StopsInv ==
    /\ \A k \in Queued : Kind(k) \in {"stop", "reset"} => StopAsked
    /\ StopDeferred \/ Joins => StopAsked
    /\ pipe.mode \in {"playing", "paused"} => dec.configured \/ StopAsked
    /\ \A k \in Queued : Kind(k) \in {"pause", "resume"} => dec.configured /\ ~Joins /\ ~StopDeferred
    /\ \A j, k \in Queued : j < k /\ Kind(j) \in {"stop", "reset"} => Kind(k) \notin {"pause", "resume"}

ControlInv == ModeInv /\ PlacesInv /\ OwnersInv /\ StartsInv /\ StopsInv

-----------------------------------------------------------------------------
(* The buffers.                                                            *)
Scheduled(f, g) == [what |-> "schedule", frame |-> f, gen |-> g]
Held(f, g) == IF [frame |-> f, gen |-> g] \in held THEN 1 ELSE 0
Way(f) == Held(f, dec.gen) + Hits(msgs.queue, {Scheduled(f, dec.gen)})

OutputsOf(f) == {o \in Outputs : o.frame = f}
InputsOf(i) == {r \in Inputs : r.idx = i}
Free(f) == IF f \in codec.free THEN 1 ELSE 0

GensBounded ==
    /\ \A b \in held : b.gen <= dec.gen
    /\ \A k \in Queued : msgs.queue[k].gen <= dec.gen

FramesInv ==
    \A f \in Frames :
        /\ Free(f) + Hits(codec.filled, OutputsOf(f)) = IF owner[f] = "codec" THEN 1 ELSE 0
        /\ owner[f] \in {"none", "codec", "window"} => Way(f) = 0
        /\ owner[f] = "client" => Way(f) = 1
        /\ owner[f] = "us" => Way(f) <= 1 /\ (~dec.changing => Way(f) = 1)

EachOnce == \A i \in Indices : Hits(indices, {i}) + Hits(codec.in, InputsOf(i)) + Hits(codec.done, {i}) = 1

InputsInv ==
    /\ dec.state \in Active => EachOnce
    /\ dec.state \in {"null", "prepared"} => indices = <<>> /\ codec.in = <<>> /\ codec.done = <<>>

V4l2Inv ==
    /\ V4l2Types /\ ControlInv /\ GensBounded /\ InputsInv
    /\ dec.over = "no" => FramesInv

-----------------------------------------------------------------------------
(* How the queue moves: d messages are taken, what comes is plain, but for   *)
(* one command w at the end.                                               *)
QueueMoves(d, w) ==
    \A k \in 1 .. Len(msgs'.queue) :
        \/ k + d \in Queued /\ msgs'.queue[k] = msgs.queue[k + d]
        \/ msgs'.queue[k].what \in Plain
        \/ k = Len(msgs'.queue) /\ msgs'.queue[k].what = w

Plains == {m \in Messages : m.what \in Plain}

LEMMA PlainsAre ==
    /\ \A w \in {"in", "out", "change"} : Message(w) \in Plains
    /\ \A f \in Frames, g \in Nat : [what |-> "schedule", frame |-> f, gen |-> g] \in Plains
  BY MessageIs DEF Plains, Plain, V4l2Whats, Message

LEMMA QueueTaken ==
    ASSUME V4l2Types, msgs.queue # <<>>
    PROVE  /\ Len(Rest) = Len(msgs.queue) - 1 /\ Len(msgs.queue) \in Nat \ {0} /\ Rest \in Seq(Messages)
           /\ \A k \in 1 .. Len(Rest) : k + 1 \in Queued /\ Rest[k] = msgs.queue[k + 1]
           /\ 1 \in Queued /\ Head(msgs.queue) = msgs.queue[1]
<1>1. PICK q \in Seq(Messages) : q = msgs.queue /\ q # <<>>
  BY FieldsAre DEF OtherFields
<1>2. Len(Tail(q)) = Len(q) - 1 /\ Len(q) \in Nat \ {0} /\ Tail(q) \in Seq(Messages)
  BY <1>1
<1>3. \A k \in 1 .. Len(Tail(q)) : k + 1 \in 1 .. Len(q) /\ Tail(q)[k] = q[k + 1]
  BY <1>1
<1>. QED  BY <1>1, <1>2, <1>3 DEF Rest, Queued

LEMMA MovesSame ==
    ASSUME V4l2Types, msgs'.queue = msgs.queue, NEW w
    PROVE  QueueMoves(0, w)
<1>1. \A k \in Queued : k + 0 = k
  BY DEF Queued
<1>. QED  BY <1>1 DEF QueueMoves, Queued

LEMMA MovesTaken ==
    ASSUME V4l2Types, msgs.queue # <<>>, msgs'.queue = Rest, NEW w
    PROVE  QueueMoves(1, w)
  BY QueueTaken DEF QueueMoves

(* What comes after what is left of the queue.                             *)
LEMMA MovesMore ==
    ASSUME V4l2Types, NEW d \in {0, 1}, d = 1 => msgs.queue # <<>>,
           NEW more \in Seq(Messages), NEW w,
           \A k \in 1 .. Len(more) : more[k].what \in Plain \/ (k = Len(more) /\ more[k].what = w),
           msgs'.queue = (IF d = 1 THEN Rest ELSE msgs.queue) \o more
    PROVE  QueueMoves(d, w)
<1>1. PICK b \in Seq(Messages) : /\ b = IF d = 1 THEN Rest ELSE msgs.queue
                                 /\ \A k \in 1 .. Len(b) : k + d \in Queued /\ b[k] = msgs.queue[k + d]
  <2>1. CASE d = 1
    BY <2>1, QueueTaken
  <2>2. CASE d = 0
    <3>1. \A k \in Queued : k + 0 = k
      BY DEF Queued
    <3>2. msgs.queue \in Seq(Messages)
      BY FieldsAre DEF OtherFields
    <3>. QED  BY <2>2, <3>1, <3>2 DEF Queued
  <2>. QED  BY <2>1, <2>2
<1>2. PICK m \in Nat, n \in Nat : m = Len(b) /\ n = Len(more)
  OBVIOUS
<1>3. Len(msgs'.queue) = m + n
  BY <1>1, <1>2
<1>4. SUFFICES ASSUME NEW k \in 1 .. m + n
               PROVE  \/ k + d \in Queued /\ msgs'.queue[k] = msgs.queue[k + d]
                      \/ msgs'.queue[k].what \in Plain
                      \/ k = m + n /\ msgs'.queue[k].what = w
  BY <1>3 DEF QueueMoves
<1>5. CASE k <= m
  <2>1. k \in 1 .. Len(b) /\ (b \o more)[k] = b[k]
    BY <1>2, <1>5
  <2>. QED  BY <1>1, <2>1
<1>6. CASE k > m
  <2>1. PICK j \in 1 .. n : k = m + j
    <3>1. k - m \in 1 .. n /\ k = m + (k - m)
      BY <1>6
    <3>. QED  BY <3>1
  <2>2. (b \o more)[Len(b) + j] = more[j]
    BY <1>2
  <2>3. msgs'.queue[k] = more[j]
    BY <1>1, <1>2, <2>1, <2>2
  <2>4. j = n => k = m + n
    BY <2>1
  <2>. QED  BY <1>2, <2>3, <2>4
<1>7. k <= m \/ k > m
  OBVIOUS
<1>. QED  BY <1>5, <1>6, <1>7, Zenon

LEMMA MovesPlain ==
    ASSUME V4l2Types, NEW d \in {0, 1}, d = 1 => msgs.queue # <<>>,
           NEW more \in Seq(Plains),
           msgs'.queue = (IF d = 1 THEN Rest ELSE msgs.queue) \o more
    PROVE  QueueMoves(d, "in")
<1>1. more \in Seq(Messages) /\ \A k \in 1 .. Len(more) : more[k].what \in Plain
  <2>1. \A k \in 1 .. Len(more) : more[k] \in Plains
    OBVIOUS
  <2>2. more \in Seq(Messages)
    BY DEF Plains
  <2>. QED  BY <2>1, <2>2 DEF Plains
<1>. QED  BY <1>1, MovesMore

LEMMA MovesAppended ==
    ASSUME V4l2Types, NEW m \in Messages, msgs'.queue = Append(msgs.queue, m)
    PROVE  QueueMoves(0, m.what)
<1>1. PICK more \in Seq(Messages) : more = <<m>>
  <2>1. <<m>> \in Seq(Messages)
    OBVIOUS
  <2>. QED  BY <2>1
<1>2. msgs'.queue = (IF 0 = 1 THEN Rest ELSE msgs.queue) \o more
  <2>1. PICK q \in Seq(Messages) : q = msgs.queue
    BY FieldsAre DEF OtherFields
  <2>2. Append(q, m) = q \o more
    BY <1>1
  <2>. QED  BY <2>1, <2>2
<1>3. \A k \in 1 .. Len(more) : k = Len(more) /\ more[k].what = m.what
  BY <1>1
<1>4. PICK w : w = m.what
  OBVIOUS
<1>5. \A k \in 1 .. Len(more) : more[k].what \in Plain \/ (k = Len(more) /\ more[k].what = w)
  BY <1>3, <1>4
<1>6. PICK d \in {0, 1} : d = 0
  OBVIOUS
<1>7. msgs'.queue = (IF d = 1 THEN Rest ELSE msgs.queue) \o more
  BY <1>2, <1>6
<1>8. QueueMoves(d, w)
  BY <1>5, <1>6, <1>7, MovesMore
<1>. QED  BY <1>4, <1>6, <1>8

(* What is known of the commands in the queue stays known of them.          *)
LEMMA KindsMove ==
    ASSUME V4l2Types, NEW d \in {0, 1}, NEW w, QueueMoves(d, w),
           NEW k \in Queued'
    PROVE  \/ /\ k + d \in Queued /\ Kind(k)' = Kind(k + d)
           \/ Kind(k)' \in Plain
           \/ k = Len(msgs'.queue) /\ Kind(k)' = w
  BY DEF QueueMoves, Kind, Queued

LEMMA AskedStays ==
    ASSUME ModeInv,
           \/ pipe' = pipe
           \/ Fails
           \/ \E op \in V4l2Ops : Notify(op)
    PROVE  /\ StopAsked => StopAsked'
           /\ StopAsked' /\ ~StopAsked => Fails
  BY DEF ModeInv, StopAsked, Notify, Fails, ModeAfter, V4l2Ops

(* Nothing but messages, answers and what is put off.                      *)
LEMMA QuietKeeps ==
    ASSUME V4l2Types, V4l2Types', ControlInv, NEW d \in {0, 1}, QueueMoves(d, "in"),
           dec'.state = dec.state, dec'.configured = dec.configured, UNCHANGED <<v4l2Handler, owner>>,
           v4l2Handler = "deferred" => dec'.deferred # <<>>,
           StopDeferred' => StopDeferred \/ (StopAsked /\ \A k \in Queued' : Kind(k)' \notin {"pause", "resume"}),
           pipe' = pipe \/ Notify("flush") \/ Notify("stop") \/ Notify("reset")
    PROVE  ControlInv'
<1> USE DEF ControlInv
<1>1. \A k \in Queued' : \/ k + d \in Queued /\ Kind(k)' = Kind(k + d)
                         \/ Kind(k)' \in Plain
  <2>1. \A k \in Queued' : \/ k + d \in Queued /\ Kind(k)' = Kind(k + d)
                           \/ Kind(k)' \in Plain
                           \/ Kind(k)' = "in"
    BY KindsMove
  <2>. QED  BY <2>1 DEF Plain
<1>2. \A k \in Queued' : Kind(k)' \notin Plain => k + d \in Queued /\ Kind(k)' = Kind(k + d)
  BY <1>1
<1>3. \A j, k \in Queued' : (j + d = k + d => j = k) /\ (j < k => j + d < k + d)
  BY DEF Queued
<1>4. (StopAsked => StopAsked') /\ (StopAsked' => StopAsked)
  <2>1. StopAsked => StopAsked'
    BY DEF ModeInv, StopAsked, Notify, ModeAfter
  <2>2. StopAsked' => StopAsked
    BY DEF ModeInv, StopAsked, Notify, ModeAfter
  <2>. QED  BY <2>1, <2>2
<1>5. ModeInv'
  <2>1. /\ pipe' # pipe => pipe.op \in {"flush", "stop", "reset"} /\ pipe'.op = "none"
        /\ pipe' # pipe => pipe'.mode = (IF pipe.op = "flush" THEN pipe.mode ELSE IF pipe.op = "stop" THEN "stopped" ELSE "reset")
    BY DEF Notify, ModeAfter
  <2>2. \A k \in Queued' : Kind(k)' = "prepare" => pipe'.mode = "null" /\ pipe'.op = "prepare"
    BY <1>2, <2>1 DEF ModeInv, Plain
  <2>3. \A j, k \in Queued' : Kind(j)' = "prepare" /\ Kind(k)' = "prepare" => j = k
    BY <1>2, <1>3 DEF ModeInv, Plain
  <2>4. (\A k \in Queued : Kind(k) \notin Starts) => \A k \in Queued' : Kind(k)' \notin Starts
    BY <1>2 DEF Starts, Plain
  <2>5. pipe'.mode = "null" => dec'.state = "null" /\ pipe'.op \in {"none", "prepare"}
    BY <2>1 DEF ModeInv
  <2>6. pipe'.mode = "prepared" /\ pipe'.op \in {"none", "flush"} =>
           dec'.state = "prepared" /\ \A k \in Queued' : Kind(k)' \notin Starts
    BY <2>1, <2>4 DEF ModeInv
  <2>7. pipe'.mode \in {"stopped", "error", "reset"} => pipe'.op \in {"none", "reset"}
    BY <2>1 DEF ModeInv
  <2>. QED  BY <2>2, <2>3, <2>5, <2>6, <2>7 DEF ModeInv
<1>6. PlacesInv' /\ OwnersInv'
  BY DEF PlacesInv, OwnersInv
<1>7. StartsInv'
  <2>1. \A k \in Queued' : Kind(k)' \in Starts => k + d \in Queued /\ Kind(k)' = Kind(k + d)
    BY <1>2 DEF Starts, Plain
  <2>2. \A k \in Queued' : Kind(k)' = "startInput" => dec'.state = "prepared"
    BY <2>1 DEF StartsInv, Starts
  <2>3. \A k \in Queued' : Kind(k)' = "startOutput" => dec'.state \in Active
    BY <2>1 DEF StartsInv, Starts
  <2>4. \A k \in Queued' : Kind(k)' \in Starts =>
           (\A f \in Frames : owner[f] = "none") /\ ~dec.configured /\ v4l2Handler \in {"idle", "out", "starves"}
    BY <2>1 DEF StartsInv
  <2>5. \A j, k \in Queued' : Kind(j)' \in Starts /\ Kind(k)' \in Starts => j = k
    BY <1>3, <2>1 DEF StartsInv
  <2>. QED  BY <2>2, <2>3, <2>4, <2>5 DEF StartsInv
<1>8. StopsInv'
  <2>1. \A k \in Queued' : Kind(k)' \in {"stop", "reset"} => StopAsked'
    BY <1>2, <1>4 DEF StopsInv, Plain
  <2>2. StopDeferred' \/ Joins' => StopAsked'
    BY <1>4 DEF StopsInv, Joins
  <2>3. pipe'.mode \in {"playing", "paused"} => dec'.configured \/ StopAsked'
    BY <1>4 DEF StopsInv, Notify, ModeAfter
  <2>4. \A k \in Queued' : Kind(k)' \in {"pause", "resume"} => dec'.configured /\ ~Joins' /\ ~StopDeferred'
    BY <1>2 DEF StopsInv, Plain, Joins
  <2>5. \A j, k \in Queued' : j < k /\ Kind(j)' \in {"stop", "reset"} => Kind(k)' \notin {"pause", "resume"}
    BY <1>2, <1>3 DEF StopsInv, Plain
  <2>. QED  BY <2>1, <2>2, <2>3, <2>4, <2>5 DEF StopsInv
<1>. QED  BY <1>5, <1>6, <1>7, <1>8

(* While the decoder plays or is paused, and goes on like that.             *)
LEMMA ActiveKeeps ==
    ASSUME V4l2Types, V4l2Types', ControlInv, NEW d \in {0, 1}, QueueMoves(d, "in"),
           dec.state \in Active, dec'.state \in Active, dec'.configured = dec.configured,
           dec.configured => dec'.state \in {"playing", "paused"},
           v4l2Handler' \in {"idle", "out", "deferred", "spins", "starves"},
           v4l2Handler' = "deferred" => dec'.deferred # <<>>,
           StopDeferred' => StopDeferred,
           \/ UNCHANGED owner /\ v4l2Handler' \in {"idle", "out", "starves"}
           \/ \A k \in Queued : Kind(k) \notin Starts,
           \/ pipe' = pipe
           \/ Fails
           \/ Notify("flush")
           \/ dec.configured /\ (Notify("start") \/ Notify("pause"))
    PROVE  ControlInv'
<1> USE DEF ControlInv
<1>1. \A k \in Queued' : \/ k + d \in Queued /\ Kind(k)' = Kind(k + d)
                         \/ Kind(k)' \in Plain
  <2>1. \A k \in Queued' : \/ k + d \in Queued /\ Kind(k)' = Kind(k + d)
                           \/ Kind(k)' \in Plain
                           \/ Kind(k)' = "in"
    BY KindsMove
  <2>. QED  BY <2>1 DEF Plain
<1>2. \A k \in Queued' : Kind(k)' \notin Plain => k + d \in Queued /\ Kind(k)' = Kind(k + d)
  BY <1>1
<1>3. \A j, k \in Queued' : (j + d = k + d => j = k) /\ (j < k => j + d < k + d)
  BY DEF Queued
<1>4. StopAsked => StopAsked'
  BY DEF ModeInv, StopAsked, Notify, Fails, ModeAfter
<1>5. pipe.mode # "null" /\ ~(pipe.mode = "prepared" /\ pipe.op \in {"none", "flush"})
  BY DEF ModeInv, Active
<1>6. ModeInv'
  <2>1. \/ pipe' = pipe
        \/ pipe'.mode = "error" /\ pipe'.op \in {"none", "reset"}
        \/ pipe'.op = "none" /\ pipe'.mode = "playing" /\ pipe.op = "start"
        \/ pipe'.op = "none" /\ pipe'.mode = "paused" /\ pipe.op = "pause"
        \/ pipe'.op = "none" /\ pipe'.mode = pipe.mode /\ pipe.op = "flush"
    BY DEF Notify, Fails, ModeAfter
  <2>2. \A k \in Queued' : Kind(k)' # "prepare"
    BY <1>2, <1>5 DEF ModeInv, Plain
  <2>3. pipe'.mode # "null" /\ ~(pipe'.mode = "prepared" /\ pipe'.op \in {"none", "flush"})
    BY <1>5, <2>1
  <2>4. pipe'.mode \in {"stopped", "error", "reset"} => pipe'.op \in {"none", "reset"}
    BY <2>1 DEF ModeInv
  <2>. QED  BY <2>2, <2>3, <2>4 DEF ModeInv
<1>7. PlacesInv' /\ OwnersInv'
  BY DEF PlacesInv, OwnersInv, Active
<1>8. StartsInv'
  <2>1. \A k \in Queued' : Kind(k)' \in Starts => k + d \in Queued /\ Kind(k)' = Kind(k + d)
    BY <1>2 DEF Starts, Plain
  <2>2. \A k \in Queued' : Kind(k)' # "startInput"
    BY <2>1 DEF StartsInv, Starts, Active
  <2>3. \A k \in Queued' : Kind(k)' \in Starts =>
           (\A f \in Frames : owner'[f] = "none") /\ ~dec'.configured /\ v4l2Handler' \in {"idle", "out", "starves"}
    BY <2>1 DEF StartsInv
  <2>4. \A j, k \in Queued' : Kind(j)' \in Starts /\ Kind(k)' \in Starts => j = k
    BY <1>3, <2>1 DEF StartsInv
  <2>. QED  BY <2>2, <2>3, <2>4 DEF StartsInv
<1>9. StopsInv'
  <2>1. \A k \in Queued' : Kind(k)' \in {"stop", "reset"} => StopAsked'
    BY <1>2, <1>4 DEF StopsInv, Plain
  <2>2. StopDeferred' \/ Joins' => StopAsked'
    BY <1>4 DEF StopsInv, Joins
  <2>3. pipe'.mode \in {"playing", "paused"} => dec'.configured \/ StopAsked'
    BY <1>4 DEF StopsInv, Notify, Fails, ModeAfter
  <2>4. \A k \in Queued' : Kind(k)' \in {"pause", "resume"} => dec'.configured /\ ~Joins' /\ ~StopDeferred'
    BY <1>2 DEF StopsInv, Plain, Joins
  <2>5. \A j, k \in Queued' : j < k /\ Kind(j)' \in {"stop", "reset"} => Kind(k)' \notin {"pause", "resume"}
    BY <1>2, <1>3 DEF StopsInv, Plain
  <2>. QED  BY <2>1, <2>2, <2>3, <2>4, <2>5 DEF StopsInv
<1>. QED  BY <1>6, <1>7, <1>8, <1>9

(* The commands.                                                           *)
LEMMA CallKeeps ==
    ASSUME V4l2Types, V4l2Types', ControlInv, NEW op \in V4l2Ops, V4l2Call(op)
    PROVE  ControlInv'
<1> USE DEF ControlInv
<1> DEFINE w == Called(op)
<1>1. w \in V4l2Whats \ {"schedule"} /\ w \notin Plain
  BY DEF Called, V4l2Ops, V4l2Whats, Plain
<1>2. QueueMoves(0, w)
  <2>1. Message(w) \in Messages /\ Message(w).what = w
    BY <1>1, MessageIs
  <2>2. msgs'.queue = Append(msgs.queue, Message(w))
    BY DEF V4l2Call, V4l2Types, V4l2MsgsRecord
  <2>. QED  BY <2>1, <2>2, MovesAppended
<1>3. \A k \in Queued' : \/ k \in Queued /\ Kind(k)' = Kind(k)
                         \/ Kind(k)' \in Plain
                         \/ k = Len(msgs'.queue) /\ Kind(k)' = w
  <2>1. \A k \in Queued' : k + 0 = k
    BY DEF Queued
  <2>. QED  BY <1>2, <2>1, KindsMove
<1>4. V4l2Legal(op) /\ (pipe.op = "none" \/ (op \in {"stop", "reset"} /\ pipe.op \notin {"prepare", "stop", "reset"}))
      /\ pipe' = [pipe EXCEPT !.op = op] /\ UNCHANGED <<dec, owner, v4l2Handler>>
  BY DEF V4l2Call
<1>5. pipe'.op = op /\ pipe'.mode = pipe.mode
  BY <1>4 DEF V4l2Types, PipeRecord
<1>6. /\ w = "prepare" => op = "prepare"
      /\ w \in {"stop", "reset"} => op \in {"stop", "reset"}
      /\ w \in {"pause", "resume"} => dec.configured \/ op = "pause"
      /\ w = "startInput" => op = "start" /\ ~dec.configured
      /\ w # "startOutput"
  BY DEF Called, V4l2Ops
<1>7. StopAsked => StopAsked'
  BY <1>4, <1>5 DEF StopAsked
<1>8. \A j, k \in Queued' : j < k => j # Len(msgs'.queue)
  BY FieldsAre DEF Queued, OtherFields
<1> HIDE DEF w
<1>9. ModeInv'
  <2>1. \A k \in Queued : Kind(k) # "prepare"
    BY <1>4 DEF ModeInv
  <2>2. pipe'.mode = "null" => dec'.state = "null" /\ pipe'.op \in {"none", "prepare"}
    BY <1>4, <1>5 DEF ModeInv, V4l2Legal
  <2>3. \A k \in Queued' : Kind(k)' = "prepare" => k = Len(msgs'.queue) /\ w = "prepare"
    BY <1>3, <2>1 DEF Plain
  <2>4. op = "prepare" => pipe.mode = "null"
    BY <1>4 DEF V4l2Legal
  <2>5. pipe'.mode = "prepared" /\ pipe'.op \in {"none", "flush"} =>
          dec'.state = "prepared" /\ \A k \in Queued' : Kind(k)' \notin Starts
    <3>1. SUFFICES ASSUME pipe.mode = "prepared", op = "flush"
                   PROVE  dec.state = "prepared" /\ \A k \in Queued' : Kind(k)' \notin Starts
      BY <1>4, <1>5 DEF V4l2Ops
    <3>2. pipe.op = "none" /\ w = "flush"
      BY <1>4, <3>1 DEF w, Called
    <3>3. dec.state = "prepared" /\ \A k \in Queued : Kind(k) \notin Starts
      BY <3>1, <3>2 DEF ModeInv
    <3>. QED  BY <1>3, <3>2, <3>3 DEF Starts, Plain
  <2>6. pipe'.mode \in {"stopped", "error", "reset"} => pipe'.op \in {"none", "reset"}
    BY <1>4, <1>5 DEF V4l2Legal
  <2>. QED  BY <1>5, <1>6, <2>2, <2>3, <2>4, <2>5, <2>6 DEF ModeInv
<1>10. PlacesInv' /\ OwnersInv'
  BY <1>4 DEF PlacesInv, OwnersInv
<1>11. StartsInv'
  <2>1. w = "startInput" => /\ dec.state = "prepared" /\ \A k \in Queued : Kind(k) \notin Starts
                            /\ \A f \in Frames : owner[f] = "none"
                            /\ ~dec.configured /\ v4l2Handler = "idle"
    <3>1. SUFFICES ASSUME w = "startInput"
                   PROVE  /\ dec.state = "prepared" /\ \A k \in Queued : Kind(k) \notin Starts
                          /\ \A f \in Frames : owner[f] = "none"
                          /\ ~dec.configured /\ v4l2Handler = "idle"
      OBVIOUS
    <3>2. pipe.op = "none" /\ pipe.mode \in {"prepared", "paused"} /\ ~dec.configured
      BY <1>4, <1>6, <3>1 DEF V4l2Legal
    <3>3. pipe.mode = "prepared"
      BY <3>2 DEF StopsInv, StopAsked
    <3>4. dec.state = "prepared" /\ \A k \in Queued : Kind(k) \notin Starts
      BY <3>2, <3>3 DEF ModeInv
    <3>5. \A f \in Frames : owner[f] = "none"
      BY <3>4 DEF OwnersInv
    <3>6. v4l2Handler = "idle"
      BY <3>4 DEF PlacesInv, V4l2Types, V4l2Places, Active
    <3>. QED  BY <3>2, <3>4, <3>5, <3>6
  <2>2. \A k \in Queued' : Kind(k)' \in Starts =>
            \/ k \in Queued /\ Kind(k)' = Kind(k) /\ w # "startInput"
            \/ k = Len(msgs'.queue) /\ Kind(k)' = "startInput" /\ w = "startInput"
    BY <1>3, <1>6, <2>1 DEF Starts, Plain
  <2>3. \A k \in Queued' : Kind(k)' = "startInput" => dec'.state = "prepared"
    BY <1>4, <2>1, <2>2 DEF StartsInv, Starts
  <2>4. \A k \in Queued' : Kind(k)' = "startOutput" => dec'.state \in Active
    BY <1>4, <2>2 DEF StartsInv, Starts
  <2>5. \A k \in Queued' : Kind(k)' \in Starts =>
           (\A f \in Frames : owner'[f] = "none") /\ ~dec'.configured /\ v4l2Handler' \in {"idle", "out", "starves"}
    BY <1>4, <2>1, <2>2 DEF StartsInv
  <2>6. \A j, k \in Queued' : Kind(j)' \in Starts /\ Kind(k)' \in Starts => j = k
    BY <2>2 DEF StartsInv
  <2>. QED  BY <2>3, <2>4, <2>5, <2>6 DEF StartsInv
<1>12. StopsInv'
  <2>1. w \in {"pause", "resume"} => ~StopAsked /\ dec.configured
    <3>1. SUFFICES ASSUME w \in {"pause", "resume"} PROVE ~StopAsked /\ dec.configured
      OBVIOUS
    <3>2. op \in {"start", "pause"}
      BY <3>1 DEF w, Called, V4l2Ops
    <3>3. pipe.op = "none" /\ pipe.mode \in {"prepared", "paused", "playing"}
      BY <1>4, <3>2 DEF V4l2Legal
    <3>4. ~StopAsked
      BY <3>3 DEF StopAsked
    <3>5. op = "pause" => pipe.mode = "playing"
      BY <1>4 DEF V4l2Legal
    <3>. QED  BY <1>6, <3>1, <3>4, <3>5 DEF StopsInv
  <2>2. \A k \in Queued' : Kind(k)' \in {"stop", "reset"} => StopAsked'
    <3>1. op \in {"stop", "reset"} => StopAsked'
      BY <1>5 DEF StopAsked
    <3>. QED  BY <1>3, <1>6, <1>7, <3>1 DEF StopsInv, Plain
  <2>3. StopDeferred' \/ Joins' => StopAsked'
    BY <1>4, <1>7 DEF StopsInv, Joins, StopDeferred
  <2>4. pipe'.mode \in {"playing", "paused"} => dec'.configured \/ StopAsked'
    BY <1>4, <1>5, <1>7 DEF StopsInv
  <2>5. \A k \in Queued' : Kind(k)' \in {"pause", "resume"} => dec'.configured /\ ~Joins' /\ ~StopDeferred'
    <3>1. ~StopAsked => ~Joins /\ ~StopDeferred
      BY DEF StopsInv
    <3>2. Joins' = Joins /\ StopDeferred' = StopDeferred
      BY <1>4 DEF Joins, StopDeferred
    <3>. QED  BY <1>3, <1>4, <2>1, <3>1, <3>2 DEF StopsInv, Plain
  <2>6. \A j, k \in Queued' : j < k /\ Kind(j)' \in {"stop", "reset"} => Kind(k)' \notin {"pause", "resume"}
    BY <1>3, <1>8, <2>1 DEF StopsInv, Plain
  <2>. QED  BY <2>2, <2>3, <2>4, <2>5, <2>6 DEF StopsInv
<1>. QED  BY <1>9, <1>10, <1>11, <1>12

LEMMA PrepareKeeps ==
    ASSUME V4l2Types, V4l2Types', ControlInv, OnV4l2Prepare
    PROVE  ControlInv'
<1> USE DEF ControlInv
<1>1. /\ msgs.queue # <<>> /\ msgs'.queue = Rest /\ Kind(1) = "prepare" /\ 1 \in Queued
      /\ Notify("prepare") /\ UNCHANGED <<owner, v4l2Handler>>
  BY TakenType, QueueTaken DEF OnV4l2Prepare, NextIs, Kind
<1>2. dec'.state = "prepared" /\ dec'.configured = dec.configured /\ dec'.deferred = dec.deferred
  BY DEF OnV4l2Prepare, V4l2Types, DecRecord
<1>3. \A k \in Queued' : \/ k + 1 \in Queued /\ Kind(k)' = Kind(k + 1)
                         \/ Kind(k)' \in Plain
  <2>1. QueueMoves(1, "in")
    BY <1>1, MovesTaken
  <2>2. \A k \in Queued' : \/ k + 1 \in Queued /\ Kind(k)' = Kind(k + 1)
                           \/ Kind(k)' \in Plain
                           \/ Kind(k)' = "in"
    BY <2>1, KindsMove
  <2>. QED  BY <2>2 DEF Plain
<1>4. pipe.mode = "null" /\ pipe.op = "prepare" /\ dec.state = "null" /\ pipe'.mode = "prepared" /\ pipe'.op = "none"
  BY <1>1 DEF ModeInv, Notify, ModeAfter
<1>5. ~StopAsked /\ ~dec.configured /\ v4l2Handler = "idle" /\ \A f \in Frames : owner[f] = "none"
  BY <1>1, <1>4 DEF StopAsked, PlacesInv, OwnersInv, V4l2Types, V4l2Places, Active, OnV4l2Prepare, NextIs
<1>6. \A k \in Queued : Kind(k) \notin Starts \cup {"stop", "reset", "pause", "resume"}
  BY <1>4, <1>5 DEF StartsInv, StopsInv, Starts, Active
<1>7. \A k \in Queued' : Kind(k)' \notin Starts \cup {"stop", "reset", "pause", "resume", "prepare"}
  <2>1. \A k \in Queued' : k + 1 # 1
    BY DEF Queued
  <2>2. \A k \in Queued : k # 1 => Kind(k) # "prepare"
    BY <1>1 DEF ModeInv
  <2>. QED  BY <1>3, <1>6, <2>1, <2>2 DEF Starts, Plain
<1>8. ModeInv' /\ StartsInv'
  BY <1>2, <1>4, <1>7 DEF ModeInv, StartsInv, Starts
<1>9. PlacesInv' /\ OwnersInv'
  BY <1>1, <1>2, <1>5 DEF PlacesInv, OwnersInv, Active
<1>10. StopsInv'
  BY <1>1, <1>2, <1>4, <1>5, <1>7 DEF StopsInv, Joins, StopDeferred
<1>. QED  BY <1>8, <1>9, <1>10

LEMMA StartInputKeeps ==
    ASSUME V4l2Types, V4l2Types', ControlInv, OnStartInput
    PROVE  ControlInv'
<1> USE DEF ControlInv
<1>1. /\ msgs.queue # <<>> /\ Kind(1) = "startInput" /\ 1 \in Queued
      /\ msgs'.queue = Rest \o <<Message("in"), Message("startOutput")>> /\ UNCHANGED <<owner, v4l2Handler, pipe>>
  BY QueueTaken DEF OnStartInput, NextIs, Kind, V4l2Types, V4l2MsgsRecord
<1>2. dec'.state = "play" /\ dec'.configured = dec.configured /\ dec'.deferred = <<>>
  BY DEF OnStartInput, V4l2Types, DecRecord
<1>3. QueueMoves(1, "startOutput")
  <2>1. Message("in") \in Messages /\ Message("startOutput") \in Messages /\ Message("in").what = "in" /\ Message("startOutput").what = "startOutput"
    BY MessageIs DEF V4l2Whats
  <2>2. <<Message("in"), Message("startOutput")>> \in Seq(Messages)
    BY <2>1
  <2>3. PICK more \in Seq(Messages) : more = <<Message("in"), Message("startOutput")>>
    BY <2>2
  <2>4. \A k \in 1 .. Len(more) : more[k].what \in Plain \/ (k = Len(more) /\ more[k].what = "startOutput")
    <3>1. Len(more) = 2 /\ more[1] = Message("in") /\ more[2] = Message("startOutput")
      BY <2>3
    <3>. QED  BY <2>1, <3>1 DEF Plain
  <2>5. PICK d \in {0, 1} : d = 1
    OBVIOUS
  <2>6. msgs'.queue = (IF d = 1 THEN Rest ELSE msgs.queue) \o more
    BY <1>1, <2>3, <2>5
  <2>7. QueueMoves(d, "startOutput")
    BY <1>1, <2>4, <2>6, MovesMore
  <2>. QED  BY <2>5, <2>7
<1>4. \A k \in Queued' : \/ k + 1 \in Queued /\ k + 1 # 1 /\ Kind(k)' = Kind(k + 1)
                         \/ Kind(k)' \in Plain
                         \/ k = Len(msgs'.queue) /\ Kind(k)' = "startOutput"
  <2>1. \A k \in Queued' : k + 1 # 1
    BY DEF Queued
  <2>. QED  BY <1>3, <2>1, KindsMove
<1>5. /\ dec.state = "prepared" /\ ~dec.configured /\ v4l2Handler \in {"idle", "out", "starves"}
      /\ \A f \in Frames : owner[f] = "none"
      /\ \A k \in Queued : k # 1 => Kind(k) \notin Starts
  BY <1>1 DEF StartsInv, Starts
<1>6. v4l2Handler = "idle"
  BY <1>5 DEF PlacesInv, Active
<1>7. pipe.mode # "null" /\ ~(pipe.mode = "prepared" /\ pipe.op \in {"none", "flush"})
  BY <1>1, <1>5 DEF ModeInv, Starts
<1>8. \A k \in Queued : Kind(k) \notin {"pause", "resume", "prepare"}
  BY <1>5, <1>7 DEF StopsInv, ModeInv
<1>9. \A k \in Queued' : /\ Kind(k)' \notin {"pause", "resume", "prepare", "startInput"}
                         /\ Kind(k)' = "startOutput" => k = Len(msgs'.queue)
  BY <1>4, <1>5, <1>8 DEF Starts, Plain
<1>10. ModeInv'
  BY <1>1, <1>7, <1>9 DEF ModeInv
<1>11. PlacesInv' /\ OwnersInv'
  BY <1>1, <1>2, <1>5, <1>6 DEF PlacesInv, OwnersInv, Active
<1>12. StartsInv'
  BY <1>1, <1>2, <1>5, <1>6, <1>9 DEF StartsInv, Starts, Active
<1>13. StopsInv'
  <2>1. StopAsked' = StopAsked /\ Joins' = Joins /\ ~StopDeferred'
    BY <1>1, <1>2 DEF StopAsked, Joins, StopDeferred
  <2>2. \A k \in Queued' : Kind(k)' \in {"stop", "reset"} => StopAsked
    BY <1>4 DEF StopsInv, Plain
  <2>. QED  BY <1>1, <1>2, <1>9, <2>1, <2>2 DEF StopsInv
<1>. QED  BY <1>10, <1>11, <1>12, <1>13

LEMMA StartOutputKeeps ==
    ASSUME V4l2Types, V4l2Types', ControlInv, OnStartOutput
    PROVE  ControlInv'
<1> USE DEF ControlInv
<1>1. /\ msgs.queue # <<>> /\ Kind(1) = "startOutput" /\ 1 \in Queued /\ v4l2Handler = "idle"
      /\ msgs'.queue = Rest /\ UNCHANGED v4l2Handler
  BY TakenType, QueueTaken DEF OnStartOutput, NextIs, Kind
<1>2. QueueMoves(1, "in")
  BY <1>1, MovesTaken
<1>3. \A k \in Queued' : \/ k + 1 \in Queued /\ k + 1 # 1 /\ Kind(k)' = Kind(k + 1)
                         \/ Kind(k)' \in Plain
  <2>1. \A k \in Queued' : k + 1 # 1
    BY DEF Queued
  <2>2. \A k \in Queued' : \/ k + 1 \in Queued /\ Kind(k)' = Kind(k + 1)
                           \/ Kind(k)' \in Plain
                           \/ Kind(k)' = "in"
    BY <1>2, KindsMove
  <2>. QED  BY <2>1, <2>2 DEF Plain
<1>4. /\ dec.state \in Active /\ ~dec.configured
      /\ \A k \in Queued : k # 1 => Kind(k) \notin Starts
  BY <1>1 DEF StartsInv, Starts
<1>5. CASE Fails /\ UNCHANGED <<owner, dec>>
  <2>1. StopDeferred' => StopDeferred
    BY <1>5 DEF StopDeferred
  <2>2. v4l2Handler' = "idle" /\ dec'.state = dec.state /\ dec'.configured = dec.configured
    BY <1>1, <1>5
  <2>3. PICK d \in {0, 1} : d = 1
    OBVIOUS
  <2>. QED  BY <1>2, <1>4, <1>5, <2>1, <2>2, <2>3, ActiveKeeps
<1>6. CASE Notify("start") /\ dec' = [dec EXCEPT !.state = "playing", !.configured = TRUE]
  <2>1. dec'.state = "playing" /\ dec'.configured /\ dec'.deferred = dec.deferred
    BY <1>6 DEF V4l2Types, DecRecord
  <2>2. \A k \in Queued : Kind(k) \notin {"pause", "resume", "prepare"}
    BY <1>4 DEF StopsInv, ModeInv, Active
  <2>3. \A k \in Queued' : Kind(k)' \notin {"pause", "resume", "prepare"} \cup Starts
    BY <1>3, <1>4, <2>2 DEF Starts, Plain
  <2>4. StopAsked => StopAsked'
    BY <1>6 DEF ModeInv, StopAsked, Notify, ModeAfter
  <2>5. ModeInv'
    <3>1. pipe.mode # "null" /\ ~(pipe.mode = "prepared" /\ pipe.op \in {"none", "flush"})
      BY <1>4 DEF ModeInv, Active
    <3>2. pipe' = pipe \/ (pipe'.mode = "playing" /\ pipe'.op = "none")
      BY <1>6 DEF Notify, ModeAfter
    <3>3. pipe'.mode # "null" /\ ~(pipe'.mode = "prepared" /\ pipe'.op \in {"none", "flush"})
      BY <3>1, <3>2
    <3>4. pipe'.mode \in {"stopped", "error", "reset"} => pipe'.op \in {"none", "reset"}
      BY <3>2 DEF ModeInv
    <3>. QED  BY <2>3, <3>3, <3>4 DEF ModeInv
  <2>6. PlacesInv' /\ OwnersInv'
    BY <1>1, <2>1 DEF PlacesInv, OwnersInv
  <2>7. StartsInv'
    BY <2>3 DEF StartsInv, Starts
  <2>8. StopsInv'
    <3>1. \A k \in Queued' : Kind(k)' \in {"stop", "reset"} => StopAsked'
      BY <1>3, <2>4 DEF StopsInv, Plain
    <3>2. StopDeferred' \/ Joins' => StopAsked'
      BY <1>1, <2>1, <2>4 DEF StopsInv, StopDeferred, Joins
    <3>. QED  BY <2>1, <2>3, <3>1, <3>2 DEF StopsInv
  <2>. QED  BY <2>5, <2>6, <2>7, <2>8
<1>. QED  BY <1>5, <1>6 DEF OnStartOutput

(* A stop: the poll thread is told ...                                     *)
LEMMA TellsKeeps ==
    ASSUME V4l2Types, V4l2Types', ControlInv, NEW d \in {0, 1}, QueueMoves(d, "in"),
           dec'.state = "stopping", dec'.configured = dec.configured, StopDeferred' => StopDeferred,
           v4l2Handler' \in {"join", "joinReset"}, UNCHANGED <<owner, pipe>>, StopAsked,
           \A k \in Queued : Kind(k) \notin Starts, \A k \in Queued' : Kind(k)' \notin {"pause", "resume"}
    PROVE  ControlInv'
<1> USE DEF ControlInv
<1>1. \A k \in Queued' : Kind(k)' \notin Plain => k + d \in Queued /\ Kind(k)' = Kind(k + d)
  <2>1. \A k \in Queued' : \/ k + d \in Queued /\ Kind(k)' = Kind(k + d)
                           \/ Kind(k)' \in Plain
                           \/ Kind(k)' = "in"
    BY KindsMove
  <2>. QED  BY <2>1 DEF Plain
<1>2. pipe.mode # "null" /\ ~(pipe.mode = "prepared" /\ pipe.op \in {"none", "flush"}) /\ StopAsked'
  BY DEF ModeInv, StopAsked
<1>3. \A k \in Queued' : Kind(k)' \notin {"prepare"} \cup Starts
  BY <1>1, <1>2 DEF ModeInv, Starts, Plain
<1>4. ModeInv' /\ PlacesInv' /\ OwnersInv' /\ StartsInv'
  BY <1>2, <1>3 DEF ModeInv, PlacesInv, OwnersInv, StartsInv, Starts
<1>5. StopsInv'
  BY <1>2 DEF StopsInv
<1>. QED  BY <1>4, <1>5

(* ... and has ended.                                                      *)
LEMMA JoinedKeeps ==
    ASSUME V4l2Types, V4l2Types', ControlInv, Joins,
           dec'.state = "stopped", ~dec'.configured, dec'.deferred = dec.deferred,
           v4l2Handler' = "idle", UNCHANGED msgs, \A f \in Frames : owner'[f] = "window",
           Notify("stop") \/ Notify("reset")
    PROVE  ControlInv'
<1> USE DEF ControlInv
<1>1. Queued' = Queued /\ \A k \in Queued : Kind(k)' = Kind(k)
  BY DEF Queued, Kind
<1>2. StopAsked /\ StopAsked'
  BY DEF StopsInv, ModeInv, StopAsked, Notify, ModeAfter
<1>3. pipe.mode # "null" /\ pipe'.mode # "null"
  BY <1>2 DEF ModeInv, StopAsked, Notify, ModeAfter
<1>4. \A k \in Queued : Kind(k) \notin {"prepare", "pause", "resume"} \cup Starts
  BY <1>3 DEF ModeInv, StopsInv, StartsInv, Joins
<1>5. ModeInv'
  BY <1>1, <1>2, <1>3, <1>4 DEF ModeInv, StopAsked, Notify, ModeAfter
<1>6. PlacesInv' /\ OwnersInv' /\ StartsInv'
  BY <1>1, <1>4 DEF PlacesInv, OwnersInv, StartsInv, Active, Starts
<1>7. StopsInv'
  BY <1>1, <1>2, <1>4 DEF StopsInv
<1>. QED  BY <1>5, <1>6, <1>7

-----------------------------------------------------------------------------
(* What comes into the queue: messages that are no buffers, or the like.     *)
Calls == {Message("in"), Message("out"), Message("change")}
Quiets == {m \in Messages : m.what # "schedule" /\ m.gen = 0}

QueueGets(d, more) ==
    /\ d = 1 => msgs.queue # <<>>
    /\ msgs'.queue = (IF d = 1 THEN Rest ELSE msgs.queue) \o more

(* No buffer is taken.                                                     *)
QuietGets(S) ==
    \E d \in {0, 1}, more \in Seq(S) :
        QueueGets(d, more) /\ (d = 1 => Head(msgs.queue).what # "schedule" \/ Head(msgs.queue).gen # dec.gen)

LEMMA CallsAre == Calls \subseteq Plains /\ Calls \subseteq Quiets /\ Quiets \subseteq Messages
<1>1. \A w \in {"in", "out", "change"} : w \in V4l2Whats \ {"schedule"} /\ w \in Plain
  BY DEF V4l2Whats, Plain
<1>. QED  BY <1>1, MessageIs DEF Calls, Plains, Quiets

LEMMA CallsMove ==
    ASSUME V4l2Types, QuietGets(Calls)
    PROVE  \E d \in {0, 1} : QueueMoves(d, "in")
<1>1. PICK d \in {0, 1}, more \in Seq(Calls) : QueueGets(d, more)
  BY DEF QuietGets
<1>2. more \in Seq(Plains)
  BY CallsAre
<1>. QED  BY <1>1, <1>2, MovesPlain DEF QueueGets

LEMMA QuietsMore ==
    ASSUME QuietGets(Calls)
    PROVE  QuietGets(Quiets)
<1>1. \A more \in Seq(Calls) : more \in Seq(Quiets)
  BY CallsAre
<1>. QED  BY <1>1 DEF QuietGets

(* The message that is taken, and what is left.                            *)
LEMMA OneTaken ==
    ASSUME V4l2Types, msgs.queue # <<>>, msgs'.queue = Rest
    PROVE  \A S : <<>> \in Seq(S) /\ QueueGets(1, <<>>)
<1>1. Rest \in Seq(Messages)
  BY TakenType
<1>2. PICK r \in Seq(Messages) : r = Rest
  BY <1>1
<1>3. r \o <<>> = r
  OBVIOUS
<1>. QED  BY <1>2, <1>3 DEF QueueGets

LEMMA NoneTaken ==
    ASSUME V4l2Types, msgs'.queue = msgs.queue
    PROVE  QuietGets(Calls)
<1>1. PICK q \in Seq(Messages) : q = msgs.queue
  BY FieldsAre DEF OtherFields
<1>2. q \o <<>> = q /\ <<>> \in Seq(Calls)
  OBVIOUS
<1>3. PICK d \in {0, 1} : d = 0
  OBVIOUS
<1>4. QueueGets(d, <<>>)
  BY <1>1, <1>2, <1>3 DEF QueueGets
<1>5. d # 1
  BY <1>3
<1>. QED  BY <1>2, <1>4, <1>5, Zenon DEF QuietGets

LEMMA TakenQuietly ==
    ASSUME V4l2Types, msgs.queue # <<>>, msgs'.queue = Rest,
           Head(msgs.queue).what # "schedule" \/ Head(msgs.queue).gen # dec.gen
    PROVE  QuietGets(Calls)
<1>1. <<>> \in Seq(Calls) /\ QueueGets(1, <<>>)
  BY OneTaken
<1>. QED  BY <1>1 DEF QuietGets

LEMMA MoreComes ==
    ASSUME V4l2Types, NEW d \in {0, 1}, NEW S, NEW more \in Seq(S), QueueGets(d, more),
           d = 1 => Head(msgs.queue).what # "schedule"
    PROVE  QuietGets(S)
  BY Zenon DEF QuietGets

(* Every action but those that take or send a buffer.                      *)
LEMMA TakersGet ==
    ASSUME V4l2Types,
           \/ OnV4l2Pause \/ OnV4l2Resume \/ OnV4l2Prepare \/ OnStartOutput
           \/ OnInputIgnored \/ InputStarves \/ OnHandleInputBuffer \/ OnOutputIgnored \/ OnHandleResolutionChange
           \/ OnV4l2Flush \/ OnV4l2Stop \/ OnV4l2Reset
    PROVE  QuietGets(Calls)
<1>1. msgs.queue # <<>> /\ Head(msgs.queue).what # "schedule"
  BY DEF OnV4l2Pause, OnV4l2Resume, OnV4l2Prepare, OnStartOutput, OnInputIgnored, InputStarves, OnHandleInputBuffer,
         OnOutputIgnored, OnHandleResolutionChange, OnV4l2Flush, OnV4l2Stop, OnV4l2Reset, NextIs
<1>2. CASE OnV4l2Resume
  <2>1. msgs'.queue = Append(Rest, Message("in"))
    BY <1>2 DEF OnV4l2Resume, V4l2Types, V4l2MsgsRecord
  <2>2. PICK r \in Seq(Messages) : r = Rest
    BY <1>1, TakenType
  <2>3. Append(r, Message("in")) = r \o <<Message("in")>>
    OBVIOUS
  <2>4. <<Message("in")>> \in Seq(Calls)
    BY DEF Calls
  <2>5. PICK d \in {0, 1} : d = 1
    OBVIOUS
  <2>6. QueueGets(d, <<Message("in")>>)
    BY <1>1, <2>1, <2>2, <2>3, <2>5 DEF QueueGets
  <2>. QED  BY <1>1, <2>4, <2>6, MoreComes
<1>3. CASE OnHandleInputBuffer
  <2>1. \E b : msgs' = [queue |-> Rest, retry |-> b]
    BY <1>3, Zenon DEF OnHandleInputBuffer
  <2>2. msgs'.queue = Rest
    BY <2>1
  <2>. QED  BY <1>1, <2>2, TakenQuietly
<1>4. CASE Taken
  <2>1. msgs'.queue = Rest
    BY <1>1, <1>4, TakenType
  <2>. QED  BY <1>1, <2>1, TakenQuietly
<1>. QED  BY <1>2, <1>3, <1>4
     DEF OnV4l2Pause, OnV4l2Prepare, OnStartOutput, OnInputIgnored, InputStarves,
         OnOutputIgnored, OnHandleResolutionChange, OnV4l2Flush, OnV4l2Stop, OnV4l2Reset

LEMMA OthersGet ==
    ASSUME V4l2Types,
           \/ OnInputUnlinked \/ ReallocateRefused \/ RetryDue \/ OutputOver \/ OutputKept \/ StopJoined \/ ResetJoined
           \/ DeferredFlush \/ DeferredStop \/ PollThread \/ CodecGoesOn \/ CodecChanges
    PROVE  QuietGets(Calls)
<1>1. PICK q \in Seq(Messages) : q = msgs.queue
  BY FieldsAre DEF OtherFields
<1>2. CASE RetryDue
  <2>1. msgs'.queue = Append(q, Message("in"))
    BY <1>1, <1>2 DEF RetryDue
  <2>2. Append(q, Message("in")) = q \o <<Message("in")>>
    OBVIOUS
  <2>3. <<Message("in")>> \in Seq(Calls)
    BY DEF Calls
  <2>4. PICK d \in {0, 1} : d = 0
    OBVIOUS
  <2>5. QueueGets(d, <<Message("in")>>) /\ d # 1
    BY <1>1, <2>1, <2>2, <2>4 DEF QueueGets
  <2>. QED  BY <2>3, <2>5, MoreComes
<1>3. CASE OutputOver \/ OutputKept
  <2>1. PICK more \in Seq(Calls) : OutputPosts(more)
    <3>1. <<>> \in Seq(Calls) /\ <<Message("out")>> \in Seq(Calls)
      BY DEF Calls
    <3>. QED  BY <1>3, <3>1 DEF OutputOver, OutputKept
  <2>2. v4l2Handler = "out" \/ NextIs("out")
    BY <1>3 DEF OutputOver, OutputKept, HandlesOutput
  <2>3. PICK d \in {0, 1} : d = IF v4l2Handler = "out" THEN 0 ELSE 1
    OBVIOUS
  <2>4. d = 1 => msgs.queue # <<>> /\ Head(msgs.queue).what = "out"
    BY <2>2, <2>3 DEF NextIs
  <2>5. msgs'.queue = (IF v4l2Handler = "out" THEN msgs.queue ELSE Tail(msgs.queue)) \o more
    BY <2>1 DEF OutputPosts, V4l2Types, V4l2MsgsRecord
  <2>a. (v4l2Handler = "out" => d # 1) /\ (v4l2Handler # "out" => d = 1)
    BY <2>3
  <2>6. QueueGets(d, more)
    <3>1. CASE v4l2Handler = "out"
      BY <2>a, <2>5, <3>1, Zenon DEF QueueGets
    <3>2. CASE v4l2Handler # "out"
      BY <2>a, <2>4, <2>5, <3>2, Zenon DEF QueueGets, Rest
    <3>. QED  BY <3>1, <3>2
  <2>. QED  BY <2>4, <2>6, MoreComes
<1>4. CASE PollPosts
  <2>1. PICK more \in Seq(Calls) : msgs'.queue = msgs.queue \o more
    <3>1. /\ <<>> \in Seq(Calls) /\ <<Message("change")>> \in Seq(Calls)
          /\ <<Message("in"), Message("out")>> \in Seq(Calls)
      BY DEF Calls
    <3>2. PICK a \in Seq(Calls) : a = IF HasEvent THEN <<Message("change")>> ELSE <<>>
      BY <3>1
    <3>3. PICK b \in Seq(Calls) : b = <<Message("in"), Message("out")>>
      BY <3>1
    <3>4. msgs'.queue = (q \o a) \o b
      BY <1>1, <1>4, <3>2, <3>3 DEF PollPosts, V4l2Types, V4l2MsgsRecord
    <3>5. q \o (a \o b) = (q \o a) \o b /\ a \o b \in Seq(Calls)
      <4>1. a \in Seq(Messages) /\ b \in Seq(Messages)
        BY CallsAre
      <4>. QED  BY <4>1
    <3>. QED  BY <1>1, <3>4, <3>5
  <2>2. PICK d \in {0, 1} : d = 0
    OBVIOUS
  <2>3. QueueGets(d, more) /\ d # 1
    BY <2>1, <2>2 DEF QueueGets
  <2>. QED  BY <2>3, MoreComes
<1>5. CASE UNCHANGED msgs
  BY <1>5, NoneTaken
<1>. QED  BY <1>2, <1>3, <1>4, <1>5
     DEF OnInputUnlinked, ReallocateRefused, StopJoined, ResetJoined, DeferredFlush, DeferredStop, PollThread, PollEnds, PollSleeps,
         CodecGoesOn, CodecChanges

(* What the counts say of a buffer that comes back, and of a filled one.    *)
LEMMA V4l2CountsAre ==
    ASSUME V4l2Types, NEW f \in Frames
    PROVE  /\ Held(f, dec.gen) \in {0, 1} /\ Hits(msgs.queue, {Scheduled(f, dec.gen)}) \in Nat
           /\ Way(f) \in Nat
           /\ Free(f) \in {0, 1} /\ Hits(codec.filled, OutputsOf(f)) \in Nat
<1>1. msgs.queue \in Seq(Messages) /\ codec.filled \in Seq(Outputs)
  BY FieldsAre DEF OtherFields, CodecFields
<1>2. Hits(msgs.queue, {Scheduled(f, dec.gen)}) \in Nat /\ Hits(codec.filled, OutputsOf(f)) \in Nat
  BY <1>1, HitsNat
<1>3. Held(f, dec.gen) \in {0, 1} /\ Free(f) \in {0, 1}
  BY DEF Held, Free
<1>. QED  BY <1>2, <1>3 DEF Way

LEMMA ReturnedIs ==
    ASSUME V4l2Types, ControlInv, FramesInv, NextIs("schedule"), Returned.gen = dec.gen
    PROVE  /\ Returned.frame \in Frames /\ Returned = Scheduled(Returned.frame, dec.gen)
           /\ owner[Returned.frame] \in {"us", "client"} /\ Way(Returned.frame) = 1
           /\ dec.state \in Active \cup {"stopping"}
           /\ \A k \in Queued : Kind(k) \notin Starts
<1>1. msgs.queue # <<>> /\ Returned \in Messages /\ Returned.what = "schedule" /\ v4l2Handler = "idle"
  BY TakenType DEF NextIs, Returned
<1>2. Returned.frame \in Frames /\ Returned = [what |-> "schedule", frame |-> Returned.frame, gen |-> dec.gen]
  BY <1>1 DEF Messages, AnyMessages
<1>3. PICK f \in Frames : f = Returned.frame /\ Returned = Scheduled(f, dec.gen)
  BY <1>2 DEF Scheduled
<1>4. Hits(msgs.queue, {Scheduled(f, dec.gen)}) \in Nat /\ Hits(msgs.queue, {Scheduled(f, dec.gen)}) >= 1
  <2>1. PICK q \in Seq(Messages) : q = msgs.queue /\ q # <<>>
    BY <1>1, FieldsAre DEF OtherFields
  <2>2. 1 \in 1 .. Len(q) /\ q[1] = Head(q)
    BY <2>1
  <2>3. q[1] \in {Scheduled(f, dec.gen)}
    BY <1>3, <2>1, <2>2 DEF Returned
  <2>4. Hits(q, {Scheduled(f, dec.gen)}) \in Nat /\ Hits(q, {Scheduled(f, dec.gen)}) >= 1
    BY <2>2, <2>3, HitsSome
  <2>. QED  BY <2>1, <2>4
<1>5. Way(f) >= 1 /\ Way(f) \in Nat
  BY <1>4, V4l2CountsAre DEF Way
<1>6. owner[f] \in {"us", "client"} /\ Way(f) = 1
  <2>1. owner[f] \in Owners
    BY DEF V4l2Types
  <2>2. Way(f) # 0
    BY <1>5
  <2>3. owner[f] \in {"us", "client"} /\ Way(f) <= 1
    BY <1>5, <2>1, <2>2 DEF FramesInv, Owners
  <2>. QED  BY <1>5, <2>3
<1>7. dec.state \in Active \cup {"stopping"}
  BY <1>6, FieldsAre DEF ControlInv, OwnersInv, DecFields, DecStates
<1>8. \A k \in Queued : Kind(k) \notin Starts
  BY <1>6 DEF ControlInv, StartsInv
<1>. QED  BY <1>2, <1>3, <1>6, <1>7, <1>8

LEMMA FilledIs ==
    ASSUME V4l2Types, ControlInv, FramesInv, codec.filled # <<>>
    PROVE  /\ Frame \in Outputs /\ Frame.frame \in Frames /\ owner[Frame.frame] = "codec" /\ Frame.frame \notin codec.free
           /\ Hits(Tail(codec.filled), OutputsOf(Frame.frame)) = 0
           /\ \A f \in Frames \ {Frame.frame} : Hits(Tail(codec.filled), OutputsOf(f)) = Hits(codec.filled, OutputsOf(f))
           /\ \A k \in Queued : Kind(k) \notin Starts
<1>1. PICK s \in Seq(Outputs) : s = codec.filled /\ s # <<>>
  BY FieldsAre DEF CodecFields
<1>2. Head(s) \in Outputs /\ Tail(s) \in Seq(Outputs) /\ Frame = Head(s)
  BY <1>1 DEF Frame
<1>3. PICK f \in Frames : f = Frame.frame
  BY <1>2 DEF Outputs
<1>4. \A g \in Frames : Hits(s, OutputsOf(g)) = Hits(Tail(s), OutputsOf(g)) + IF g = f THEN 1 ELSE 0
  <2>1. \A g \in Frames : Head(s) \in OutputsOf(g) <=> g = f
    BY <1>2, <1>3 DEF OutputsOf
  <2>2. \A g \in Frames : Hits(s, OutputsOf(g)) = Hits(Tail(s), OutputsOf(g)) + IF Head(s) \in OutputsOf(g) THEN 1 ELSE 0
    BY <1>1, HitsTail
  <2>. QED  BY <2>1, <2>2
<1>5. \A g \in Frames : Hits(Tail(s), OutputsOf(g)) \in Nat /\ Free(g) \in {0, 1}
  BY <1>2, HitsNat DEF Free
<1>6. Free(f) + (Hits(Tail(s), OutputsOf(f)) + 1) = IF owner[f] = "codec" THEN 1 ELSE 0
  BY <1>1, <1>4 DEF FramesInv
<1>7. owner[f] = "codec" /\ Hits(Tail(s), OutputsOf(f)) = 0 /\ Free(f) = 0
  BY <1>5, <1>6
<1>8. \A g \in Frames \ {f} : Hits(Tail(s), OutputsOf(g)) = Hits(s, OutputsOf(g))
  BY <1>4, <1>5
<1>9. \A k \in Queued : Kind(k) \notin Starts
  BY <1>7 DEF ControlInv, StartsInv
<1>. QED  BY <1>1, <1>2, <1>3, <1>7, <1>8, <1>9 DEF Free

-----------------------------------------------------------------------------
(* Each action keeps the order of things.                                  *)
LEMMA OnlyTheQueue ==
    ASSUME V4l2Types, V4l2Types', ControlInv, \E d \in {0, 1} : QueueMoves(d, "in"),
           dec'.state = dec.state, dec'.configured = dec.configured, dec'.deferred = dec.deferred,
           UNCHANGED <<v4l2Handler, owner, pipe>>
    PROVE  ControlInv'
<1>1. PICK d \in {0, 1} : QueueMoves(d, "in")
  OBVIOUS
<1>2. v4l2Handler = "deferred" => dec'.deferred # <<>>
  BY DEF ControlInv, PlacesInv
<1>3. StopDeferred' => StopDeferred
  BY DEF StopDeferred
<1>. QED  BY <1>1, <1>2, <1>3, QuietKeeps

LEMMA AppendIsConcat ==
    ASSUME NEW S, NEW s \in Seq(S), NEW x \in S
    PROVE  Append(s, x) = s \o <<x>>
  OBVIOUS

LEMMA ReleasedMove ==
    ASSUME V4l2Types, NEW f \in Frames, NEW g \in Nat, msgs'.queue = Append(msgs.queue, Scheduled(f, g))
    PROVE  /\ <<Scheduled(f, g)>> \in Seq(Plains)
           /\ msgs'.queue = msgs.queue \o <<Scheduled(f, g)>>
           /\ \E d \in {0, 1} : QueueMoves(d, "in")
<1>1. Scheduled(f, g) \in Plains /\ Scheduled(f, g) \in Messages
  BY PlainsAre, MessageIs DEF Scheduled
<1>2. PICK m \in Messages : m = Scheduled(f, g)
  BY <1>1
<1>3. PICK q \in Seq(Messages) : q = msgs.queue
  BY FieldsAre DEF OtherFields
<1>4. Append(q, m) = q \o <<m>>
  BY AppendIsConcat
<1>5. <<m>> \in Seq(Plains)
  BY <1>1, <1>2
<1>6. PICK d \in {0, 1} : d = 0
  OBVIOUS
<1>7. d # 1
  BY <1>6
<1>8. msgs'.queue = (IF d = 1 THEN Rest ELSE msgs.queue) \o <<m>>
  BY <1>2, <1>3, <1>4, <1>7
<1>9. QueueMoves(d, "in")
  BY <1>5, <1>7, <1>8, MovesPlain
<1>. QED  BY <1>2, <1>3, <1>4, <1>5, <1>9

LEMMA ReleaseIs ==
    ASSUME V4l2Types, ClientReleases
    PROVE  \E f \in Frames, g \in Nat : /\ [frame |-> f, gen |-> g] \in held
                                        /\ held' = held \ {[frame |-> f, gen |-> g]}
                                        /\ msgs'.queue = Append(msgs.queue, Scheduled(f, g))
<1>1. PICK b \in held : /\ held' = held \ {b}
                        /\ msgs' = [msgs EXCEPT !.queue = Append(@, [what |-> "schedule", frame |-> b.frame, gen |-> b.gen])]
  BY DEF ClientReleases
<1>2. b \in Buffers
  BY DEF V4l2Types
<1>3. PICK f \in Frames, g \in Nat : b = [frame |-> f, gen |-> g] /\ b.frame = f /\ b.gen = g
  BY <1>2 DEF Buffers
<1>4. msgs'.queue = Append(msgs.queue, Scheduled(f, g))
  BY <1>1, <1>3 DEF Scheduled, V4l2Types, V4l2MsgsRecord
<1>. QED  BY <1>1, <1>3, <1>4

LEMMA InputControl ==
    ASSUME V4l2Types, V4l2Types', ControlInv,
           \/ OnInputIgnored \/ OnHandleInputBuffer \/ OnInputUnlinked \/ ReallocateRefused \/ RetryDue \/ OnOutputIgnored
           \/ OnScheduleIgnored \/ OnHandleResolutionChange \/ PollThread \/ CodecGoesOn \/ CodecChanges \/ ClientReleases
    PROVE  ControlInv'
<1>1. dec'.state = dec.state /\ dec'.configured = dec.configured /\ dec'.deferred = dec.deferred
  <2>1. CASE OnHandleInputBuffer
    <3>1. \E e, t : dec' = [dec EXCEPT !.eos = e, !.target = t]
      BY <2>1, Zenon DEF OnHandleInputBuffer
    <3>. QED  BY <3>1 DEF V4l2Types, DecRecord
  <2>2. CASE OnInputUnlinked \/ ReallocateRefused
    BY <2>2 DEF OnInputUnlinked, ReallocateRefused, V4l2Types, DecRecord
  <2>3. CASE OnHandleResolutionChange
    BY <2>3 DEF OnHandleResolutionChange, V4l2Types, DecRecord
  <2>4. CASE UNCHANGED dec
    BY <2>4
  <2>. QED  BY <2>1, <2>2, <2>3, <2>4
       DEF OnInputIgnored, RetryDue, OnOutputIgnored, OnScheduleIgnored, PollThread, PollEnds, PollSleeps, PollPosts,
           CodecGoesOn, CodecChanges, ClientReleases
<1>2. UNCHANGED <<v4l2Handler, owner, pipe>>
  BY DEF OnInputIgnored, OnHandleInputBuffer, OnInputUnlinked, ReallocateRefused, RetryDue, OnOutputIgnored,
         OnScheduleIgnored, OnHandleResolutionChange, PollThread, PollEnds, PollSleeps, PollPosts,
         CodecGoesOn, CodecChanges, ClientReleases
<1>3. \E d \in {0, 1} : QueueMoves(d, "in")
  <2>1. CASE ClientReleases
    BY <2>1, ReleaseIs, ReleasedMove
  <2>2. CASE OnScheduleIgnored
    <3>1. msgs.queue # <<>> /\ msgs'.queue = Rest
      BY <2>2, TakenType DEF OnScheduleIgnored, NextIs
    <3>. QED  BY <3>1, MovesTaken
  <2>. QED  BY <2>1, <2>2, TakersGet, OthersGet, CallsMove
<1>. QED  BY <1>1, <1>2, <1>3, OnlyTheQueue

LEMMA StarvesControl ==
    ASSUME V4l2Types, V4l2Types', ControlInv, InputStarves
    PROVE  ControlInv'
<1>1. UNCHANGED <<dec, owner, pipe>> /\ v4l2Handler' = "starves" /\ dec.state = "play"
  BY DEF InputStarves
<1>2. dec.state \in Active /\ ~dec.configured
  BY <1>1 DEF ControlInv, PlacesInv, Active
<1>3. StopDeferred' => StopDeferred
  BY <1>1 DEF StopDeferred
<1>4. PICK d \in {0, 1} : QueueMoves(d, "in")
  BY TakersGet, CallsMove
<1>. QED  BY <1>1, <1>2, <1>3, <1>4, ActiveKeeps

LEMMA PauseControl ==
    ASSUME V4l2Types, V4l2Types', ControlInv, OnV4l2Pause \/ OnV4l2Resume
    PROVE  ControlInv'
<1>1. /\ msgs.queue # <<>> /\ Kind(1) \in {"pause", "resume"} /\ 1 \in Queued
      /\ v4l2Handler = "idle" /\ v4l2Handler' = "idle" /\ UNCHANGED owner
      /\ Notify("start") \/ Notify("pause")
  BY QueueTaken DEF OnV4l2Pause, OnV4l2Resume, NextIs, Kind
<1>2. dec.configured /\ dec.state \in {"playing", "paused"}
  BY <1>1 DEF ControlInv, StopsInv, PlacesInv, Joins
<1>3. dec'.state \in {"playing", "paused"} /\ dec'.configured = dec.configured /\ dec'.deferred = dec.deferred
  BY DEF OnV4l2Pause, OnV4l2Resume, V4l2Types, DecRecord
<1>4. StopDeferred' => StopDeferred
  BY <1>3 DEF StopDeferred
<1>5. \E d \in {0, 1} : QueueMoves(d, "in")
  BY TakersGet, CallsMove
<1>6. PICK d \in {0, 1} : QueueMoves(d, "in")
  BY <1>5
<1>7. dec.state \in Active /\ dec'.state \in Active
  BY <1>2, <1>3 DEF Active
<1>. QED  BY <1>1, <1>2, <1>3, <1>4, <1>6, <1>7, ActiveKeeps

(* The message thread handles output while the decoder plays, or has to go  *)
(* on with it.                                                             *)
LEMMA HandlesOutputIs ==
    ASSUME V4l2Types, ControlInv, HandlesOutput
    PROVE  /\ dec.state \in Active /\ v4l2Handler \in {"out", "idle"}
           /\ dec.configured => dec.state \in {"playing", "paused"}
           /\ v4l2Handler # "out" => msgs.queue # <<>> /\ Head(msgs.queue).what = "out"
<1>1. dec.state \in Active /\ v4l2Handler \in {"out", "idle"}
  BY DEF HandlesOutput, NextIs, ControlInv, PlacesInv, Runs, Active
<1>2. dec.configured => dec.state \in {"playing", "paused"}
  BY <1>1 DEF ControlInv, PlacesInv, Active
<1>. QED  BY <1>1, <1>2 DEF HandlesOutput, NextIs

LEMMA OutputGets ==
    ASSUME V4l2Types, ControlInv, FramesInv, OutputFrame
    PROVE  \E d \in {0, 1}, more \in Seq(Plains) :
              /\ QueueGets(d, more) /\ (d = 1 => Head(msgs.queue).what = "out")
              /\ more = IF Skipped THEN <<Scheduled(Frame.frame, dec.gen)>> ELSE <<>>
<1>1. Frame.frame \in Frames /\ dec.gen \in Nat
  BY FilledIs, FieldsAre DEF OutputFrame, DecFields
<1>2. PICK more \in Seq(Plains) : more = IF Skipped THEN <<Scheduled(Frame.frame, dec.gen)>> ELSE <<>>
  <2>1. Scheduled(Frame.frame, dec.gen) \in Plains
    BY <1>1, PlainsAre DEF Scheduled
  <2>2. <<Scheduled(Frame.frame, dec.gen)>> \in Seq(Plains) /\ <<>> \in Seq(Plains)
    BY <2>1
  <2>. QED  BY <2>2
<1>3. OutputPosts(more)
  BY <1>2, Zenon DEF OutputFrame, Scheduled
<1>4. msgs'.queue = (IF v4l2Handler = "out" THEN msgs.queue ELSE Tail(msgs.queue)) \o more
  BY <1>3 DEF OutputPosts, V4l2Types, V4l2MsgsRecord
<1>5. v4l2Handler # "out" => msgs.queue # <<>> /\ Head(msgs.queue).what = "out"
  BY HandlesOutputIs DEF OutputFrame
<1>6. PICK d \in {0, 1} : d = IF v4l2Handler = "out" THEN 0 ELSE 1
  OBVIOUS
<1>7. (v4l2Handler = "out" => d # 1) /\ (v4l2Handler # "out" => d = 1)
  BY <1>6
<1>8. QueueGets(d, more) /\ (d = 1 => Head(msgs.queue).what = "out")
  <2>1. CASE v4l2Handler = "out"
    BY <1>7, <1>4, <2>1, Zenon DEF QueueGets
  <2>2. CASE v4l2Handler # "out"
    BY <1>7, <1>4, <1>5, <2>2, Zenon DEF QueueGets, Rest
  <2>. QED  BY <2>1, <2>2
<1>. QED  BY <1>2, <1>8, Zenon

(* How they move the decoder's record and the codec's.                      *)
LEMMA OutputState ==
    ASSUME V4l2Types, OutputFrame \/ OutputOver \/ OutputKept
    PROVE  dec'.state \in {dec.state, "paused"} /\ dec'.configured = dec.configured /\ dec'.deferred = dec.deferred
<1>1. CASE OutputFrame
  <2>1. PICK d : /\ d = IF Ends THEN [dec EXCEPT !.eos = "output", !.state = "paused"] ELSE dec
                 /\ dec' = d \/ dec' = [d EXCEPT !.target = -1]
    BY <1>1, Zenon DEF OutputFrame
  <2>2. d \in DecRecord /\ d.state \in {dec.state, "paused"} /\ d.configured = dec.configured /\ d.deferred = dec.deferred
    BY <2>1 DEF V4l2Types, DecRecord, DecStates, Active
  <2>. QED  BY <2>1, <2>2 DEF DecRecord
<1>2. CASE OutputOver
  BY <1>2 DEF OutputOver, V4l2Types, DecRecord
<1>3. CASE OutputKept
  <2>1. \/ dec' = dec
        \/ \E c : dec' = [NextGen(dec) EXCEPT !.changing = c]
    BY <1>3, Zenon DEF OutputKept, Reallocates, ReallocateFails
  <2>. QED  BY <2>1 DEF NextGen, V4l2Types, DecRecord
<1>. QED  BY <1>1, <1>2, <1>3

LEMMA ScheduleState ==
    ASSUME V4l2Types, OnSchedule \/ RenderFails
    PROVE  dec'.state \in {dec.state, "paused"} /\ dec'.configured = dec.configured /\ dec'.deferred = dec.deferred
<1>1. CASE OnSchedule
  <2>1. \/ dec' = dec
        \/ dec' = [NextGen(dec) EXCEPT !.changing = FALSE]
        \/ dec' = [NextGen(dec) EXCEPT !.changing = FALSE, !.state = "paused"]
        \/ dec' = [dec EXCEPT !.over = "start"]
    BY <1>1, Zenon DEF OnSchedule, Reallocates, ReallocateFails
  <2>. QED  BY <2>1 DEF NextGen, V4l2Types, DecRecord
<1>2. CASE RenderFails
  BY <1>2 DEF RenderFails, V4l2Types, DecRecord
<1>. QED  BY <1>1, <1>2

LEMMA OutputKeptCodec ==
    ASSUME OutputKept
    PROVE  codec' = Dequeued \/ codec' = CodecWithFrames \/ codec' = [codec EXCEPT !.free = {}, !.filled = <<>>]
  BY Zenon DEF OutputKept, Reallocates, ReallocateFails

LEMMA OnScheduleCodec ==
    ASSUME OnSchedule
    PROVE  \/ codec' = codec
           \/ \E g : codec' = [codec EXCEPT !.free = @ \cup {g}]
           \/ codec' = CodecWithFrames
           \/ codec' = [codec EXCEPT !.free = {}, !.filled = <<>>]
  BY Zenon DEF OnSchedule, Reallocates, ReallocateFails

LEMMA OutputControl ==
    ASSUME V4l2Types, V4l2Types', ControlInv, FramesInv, OutputFrame \/ OutputOver \/ OutputKept
    PROVE  ControlInv'
<1>1. HandlesOutput
  BY DEF OutputFrame, OutputOver, OutputKept
<1>2. /\ dec.state \in Active /\ v4l2Handler \in {"out", "idle"}
      /\ dec.configured => dec.state \in {"playing", "paused"}
  BY <1>1, HandlesOutputIs
<1>3. dec'.state \in {dec.state, "paused"} /\ dec'.configured = dec.configured /\ dec'.deferred = dec.deferred
  BY OutputState
<1>4. StopDeferred' => StopDeferred
  BY <1>3 DEF StopDeferred
<1>5. v4l2Handler' \in {"idle", "out", "spins"}
  <2>1. CASE OutputKept
    BY <2>1, Zenon DEF OutputKept
  <2>2. CASE OutputFrame \/ OutputOver
    BY <2>2 DEF OutputFrame, OutputOver
  <2>. QED  BY <2>1, <2>2
<1>6. \/ UNCHANGED owner /\ v4l2Handler' \in {"idle", "out"}
      \/ \A k \in Queued : Kind(k) \notin Starts
  <2>1. CASE OutputOver
    BY <2>1 DEF OutputOver
  <2>2. CASE OutputFrame \/ OutputKept
    <3>1. codec.filled # <<>>
      BY <2>2 DEF OutputFrame, OutputKept
    <3>. QED  BY <3>1, FilledIs
  <2>. QED  BY <2>1, <2>2
<1>7. pipe' = pipe \/ Fails
  <2>1. CASE OutputKept
    BY <2>1, Zenon DEF OutputKept, Reallocates, ReallocateFails
  <2>2. CASE OutputFrame \/ OutputOver
    BY <2>2 DEF OutputFrame, OutputOver
  <2>. QED  BY <2>1, <2>2
<1>8. \E d \in {0, 1} : QueueMoves(d, "in")
  <2>1. CASE OutputFrame
    <3>1. PICK d \in {0, 1}, more \in Seq(Plains) : QueueGets(d, more)
      BY <2>1, OutputGets
    <3>. QED  BY <3>1, MovesPlain DEF QueueGets
  <2>2. CASE OutputOver \/ OutputKept
    BY <2>2, OthersGet, CallsMove
  <2>. QED  BY <2>1, <2>2
<1>9. PICK d \in {0, 1} : QueueMoves(d, "in")
  BY <1>8
<1>10. dec'.state \in Active /\ (dec.configured => dec'.state \in {"playing", "paused"})
  BY <1>2, <1>3 DEF Active
<1>11. v4l2Handler' \in {"idle", "out", "deferred", "spins"} /\ v4l2Handler' # "deferred"
  BY <1>5
<1>. QED  BY <1>2, <1>3, <1>4, <1>6, <1>7, <1>9, <1>10, <1>11, ActiveKeeps

LEMMA ScheduleControl ==
    ASSUME V4l2Types, V4l2Types', ControlInv, FramesInv, OnSchedule \/ RenderFails
    PROVE  ControlInv'
<1>1. NextIs("schedule") /\ ~Stale(Returned) /\ msgs'.queue = Rest /\ msgs.queue # <<>>
  <2>1. NextIs("schedule") /\ ~Stale(Returned) /\ Taken
    BY DEF OnSchedule, RenderFails
  <2>2. msgs.queue # <<>>
    BY <2>1 DEF NextIs
  <2>. QED  BY <2>1, <2>2, TakenType
<1>2. v4l2Handler = "idle" /\ dec.state \in Active /\ \A k \in Queued : Kind(k) \notin Starts
  BY <1>1, ReturnedIs DEF Stale, NextIs
<1>3. dec.configured => dec.state \in {"playing", "paused"}
  BY <1>2 DEF ControlInv, PlacesInv, Active
<1>4. dec'.state \in {dec.state, "paused"} /\ dec'.configured = dec.configured /\ dec'.deferred = dec.deferred
  BY ScheduleState
<1>5. StopDeferred' => StopDeferred
  BY <1>4 DEF StopDeferred
<1>6. v4l2Handler' = "idle" \/ (v4l2Handler' = "deferred" /\ dec.deferred # <<>>)
  <2>1. CASE OnSchedule
    BY <1>2, <2>1, Zenon DEF OnSchedule
  <2>2. CASE RenderFails
    BY <1>2, <2>2 DEF RenderFails
  <2>. QED  BY <2>1, <2>2
<1>7. pipe' = pipe \/ Fails
  <2>1. CASE OnSchedule
    BY <2>1, Zenon DEF OnSchedule, Reallocates, ReallocateFails
  <2>2. CASE RenderFails
    BY <2>2 DEF RenderFails
  <2>. QED  BY <2>1, <2>2
<1>8. PICK d \in {0, 1} : QueueMoves(d, "in")
  BY <1>1, MovesTaken
<1>9. dec'.state \in Active /\ (dec.configured => dec'.state \in {"playing", "paused"})
  BY <1>2, <1>3, <1>4 DEF Active
<1>10. v4l2Handler' \in {"idle", "out", "deferred", "spins"} /\ (v4l2Handler' = "deferred" => dec'.deferred # <<>>)
  BY <1>4, <1>6
<1>. QED  BY <1>2, <1>4, <1>5, <1>7, <1>8, <1>9, <1>10, ActiveKeeps

LEMMA FlushControl ==
    ASSUME V4l2Types, V4l2Types', ControlInv, OnV4l2Flush
    PROVE  ControlInv'
<1>1. v4l2Handler = "idle" /\ UNCHANGED v4l2Handler
  BY DEF OnV4l2Flush, NextIs
<1>2. PICK d \in {0, 1} : QueueMoves(d, "in")
  <2>1. \E d \in {0, 1} : QueueMoves(d, "in")
    BY TakersGet, CallsMove
  <2>. QED  BY <2>1
<1>3. CASE dec.changing /\ dec' = [dec EXCEPT !.deferred = Append(@, "flush")] /\ UNCHANGED <<owner, pipe>>
  <2>1. dec'.state = dec.state /\ dec'.configured = dec.configured /\ dec'.deferred = Append(dec.deferred, "flush")
    BY <1>3 DEF V4l2Types, DecRecord
  <2>2. StopDeferred' => StopDeferred
    BY <2>1, FieldsAre DEF StopDeferred, DecFields
  <2>. QED  BY <1>1, <1>2, <1>3, <2>1, <2>2, QuietKeeps
<1>4. CASE Notify("flush") /\ UNCHANGED <<dec, owner>>
  <2>1. StopDeferred' => StopDeferred
    BY <1>4 DEF StopDeferred
  <2>. QED  BY <1>1, <1>2, <1>4, <2>1, QuietKeeps
<1>5. CASE dec.configured /\ Flushes(dec) /\ Notify("flush")
  <2>1. dec'.state = dec.state /\ dec'.configured = dec.configured /\ dec'.deferred = dec.deferred
    BY <1>5 DEF Flushes, NextGen, V4l2Types, DecRecord
  <2>2. StopDeferred' => StopDeferred
    BY <2>1 DEF StopDeferred
  <2>3. dec.state \in {"playing", "paused"}
    BY <1>1, <1>5 DEF ControlInv, PlacesInv
  <2>4. \A k \in Queued : Kind(k) \notin Starts
    BY <1>5 DEF ControlInv, StartsInv
  <2>5. dec.state \in Active /\ dec'.state \in Active
    BY <2>1, <2>3 DEF Active
  <2>6. v4l2Handler' \in {"idle", "out", "deferred", "spins"} /\ v4l2Handler' # "deferred"
    BY <1>1
  <2>. QED  BY <1>2, <1>5, <2>1, <2>2, <2>3, <2>4, <2>5, <2>6, ActiveKeeps
<1>. QED  BY <1>3, <1>4, <1>5 DEF OnV4l2Flush

LEMMA DeferredIs ==
    ASSUME V4l2Types, ControlInv, v4l2Handler = "deferred"
    PROVE  /\ dec.deferred # <<>> /\ Tail(dec.deferred) \in Seq({"flush", "stop"})
           /\ \A k \in 1 .. Len(Tail(dec.deferred)) : k + 1 \in 1 .. Len(dec.deferred) /\ Tail(dec.deferred)[k] = dec.deferred[k + 1]
           /\ Len(dec.deferred) # 1 => Tail(dec.deferred) # <<>>
           /\ 1 \in 1 .. Len(dec.deferred) /\ Head(dec.deferred) = dec.deferred[1]
           /\ dec.state \in Active /\ \A k \in Queued : Kind(k) \notin Starts
<1>1. PICK s \in Seq({"flush", "stop"}) : s = dec.deferred /\ s # <<>>
  BY FieldsAre DEF ControlInv, PlacesInv, DecFields
<1>2. /\ Tail(s) \in Seq({"flush", "stop"}) /\ 1 \in 1 .. Len(s) /\ Head(s) = s[1]
      /\ \A k \in 1 .. Len(Tail(s)) : k + 1 \in 1 .. Len(s) /\ Tail(s)[k] = s[k + 1]
  BY <1>1
<1>3. Len(s) # 1 => Tail(s) # <<>>
  <2>1. Len(Tail(s)) = Len(s) - 1 /\ Len(<<>>) = 0 /\ Len(s) \in Nat
    BY <1>1
  <2>2. ASSUME Tail(s) = <<>> PROVE Len(s) = 1
    <3>1. Len(Tail(s)) = 0
      BY <2>1, <2>2, Zenon
    <3>. QED  BY <2>1, <3>1
  <2>. QED  BY <2>2
<1>4. dec.state \in Active /\ \A k \in Queued : Kind(k) \notin Starts
  BY DEF ControlInv, PlacesInv, StartsInv
<1>. QED  BY <1>1, <1>2, <1>3, <1>4

LEMMA DeferredFlushControl ==
    ASSUME V4l2Types, V4l2Types', ControlInv, DeferredFlush
    PROVE  ControlInv'
<1>1. v4l2Handler = "deferred" /\ Flushes([dec EXCEPT !.deferred = Tail(@)]) /\ Notify("flush") /\ UNCHANGED msgs
  BY DEF DeferredFlush
<1>2. dec'.state = dec.state /\ dec'.configured = dec.configured /\ dec'.deferred = Tail(dec.deferred)
  BY <1>1 DEF Flushes, NextGen, V4l2Types, DecRecord
<1>3. StopDeferred' => StopDeferred
  BY <1>1, <1>2, DeferredIs DEF StopDeferred
<1>4. v4l2Handler' \in {"idle", "deferred"} /\ (v4l2Handler' = "deferred" => Tail(dec.deferred) # <<>>)
  BY <1>1, DeferredIs DEF DeferredFlush
<1>5. PICK d \in {0, 1} : QueueMoves(d, "in")
  <2>1. \E d \in {0, 1} : QueueMoves(d, "in")
    BY OthersGet, CallsMove
  <2>. QED  BY <2>1
<1>6. dec.state \in Active /\ \A k \in Queued : Kind(k) \notin Starts
  BY <1>1, DeferredIs
<1>7. dec'.state \in Active /\ (dec.configured => dec'.state \in {"playing", "paused"})
  BY <1>2, <1>6 DEF ControlInv, PlacesInv, Active
<1>8. v4l2Handler' \in {"idle", "out", "deferred", "spins"}
  BY <1>4
<1>. QED  BY <1>1, <1>2, <1>3, <1>4, <1>5, <1>6, <1>7, <1>8, ActiveKeeps

LEMMA StopIs ==
    ASSUME V4l2Types, ControlInv, NextIs("stop") \/ NextIs("reset"), Taken
    PROVE  /\ StopAsked /\ msgs.queue # <<>> /\ msgs'.queue = Rest /\ v4l2Handler = "idle"
           /\ \A k \in Queued' : Kind(k)' \notin {"pause", "resume"}
<1>1. /\ msgs.queue # <<>> /\ msgs'.queue = Rest /\ v4l2Handler = "idle"
      /\ 1 \in Queued /\ Kind(1) \in {"stop", "reset"}
  BY TakenType, QueueTaken DEF NextIs, Kind
<1>2. StopAsked
  BY <1>1 DEF ControlInv, StopsInv
<1>3. \A k \in Queued' : 1 < k + 1 /\ k + 1 \in Queued /\ Kind(k)' = Kind(k + 1)
  BY <1>1, QueueTaken DEF Queued, Kind
<1>4. \A k \in Queued' : Kind(k)' \notin {"pause", "resume"}
  BY <1>1, <1>3 DEF ControlInv, StopsInv
<1>. QED  BY <1>1, <1>2, <1>4

(* A stop that waits for the poll thread.                                  *)
LEMMA TellsControl ==
    ASSUME V4l2Types, V4l2Types', ControlInv, NextIs("stop") \/ NextIs("reset"), Taken, ~V4l2Idle,
           TellsThread(dec), v4l2Handler' \in {"join", "joinReset"}, UNCHANGED <<owner, pipe>>
    PROVE  ControlInv'
<1>1. PICK d \in {0, 1} : QueueMoves(d, "in")
  BY StopIs, MovesTaken
<1>2. dec'.state = "stopping" /\ dec'.configured = dec.configured /\ dec'.deferred = dec.deferred
  BY DEF TellsThread, V4l2Types, DecRecord
<1>3. StopDeferred' => StopDeferred
  BY <1>2 DEF StopDeferred
<1>4. \A k \in Queued : Kind(k) \notin Starts
  BY DEF V4l2Idle, ControlInv, StartsInv
<1>. QED  BY <1>1, <1>2, <1>3, <1>4, StopIs, TellsKeeps

LEMMA PutOffControl ==
    ASSUME V4l2Types, V4l2Types', ControlInv, NextIs("stop") \/ NextIs("reset"), Taken,
           dec'.state = dec.state, dec'.configured = dec.configured,
           dec'.deferred \in {dec.deferred, Append(dec.deferred, "stop")},
           UNCHANGED <<v4l2Handler, owner>>, pipe' = pipe \/ Notify("stop") \/ Notify("reset")
    PROVE  ControlInv'
<1>1. PICK d \in {0, 1} : QueueMoves(d, "in")
  BY StopIs, MovesTaken
<1>2. v4l2Handler # "deferred"
  BY StopIs
<1>. QED  BY <1>1, <1>2, StopIs, QuietKeeps

LEMMA StopControl ==
    ASSUME V4l2Types, V4l2Types', ControlInv, OnV4l2Stop \/ OnV4l2Reset
    PROVE  ControlInv'
<1>1. (NextIs("stop") \/ NextIs("reset")) /\ Taken /\ UNCHANGED owner
  BY DEF OnV4l2Stop, OnV4l2Reset
<1>2. CASE /\ dec' = [dec EXCEPT !.deferred = Append(@, "stop")]
           /\ UNCHANGED <<v4l2Handler, pipe>>
  BY <1>1, <1>2, PutOffControl DEF V4l2Types, DecRecord
<1>3. CASE /\ dec' = [dec EXCEPT !.linked = FALSE]
           /\ Notify("stop") /\ UNCHANGED v4l2Handler
  BY <1>1, <1>3, PutOffControl DEF V4l2Types, DecRecord
<1>4. CASE /\ dec' = [Closed(dec) EXCEPT !.deferred = IF dec.changing THEN Append(@, "stop") ELSE @]
           /\ Notify("reset") /\ UNCHANGED v4l2Handler
  <2>1. dec'.state = dec.state /\ dec'.configured = dec.configured
        /\ dec'.deferred \in {dec.deferred, Append(dec.deferred, "stop")}
    BY <1>4 DEF Closed, V4l2Types, DecRecord
  <2>. QED  BY <1>1, <1>4, <2>1, PutOffControl
<1>5. CASE ~V4l2Idle /\ TellsThread(dec) /\ v4l2Handler' \in {"join", "joinReset"} /\ UNCHANGED pipe
  BY <1>1, <1>5, TellsControl
<1>6. OnV4l2Stop => <1>2!1 \/ <1>3!1 \/ <1>5!1
  BY DEF OnV4l2Stop
<1>7. OnV4l2Reset => <1>4!1 \/ <1>5!1
  BY DEF OnV4l2Reset
<1>. QED  BY <1>2, <1>3, <1>4, <1>5, <1>6, <1>7

LEMMA DeferredStopControl ==
    ASSUME V4l2Types, V4l2Types', ControlInv, DeferredStop
    PROVE  ControlInv'
<1>1. /\ v4l2Handler = "deferred" /\ Head(dec.deferred) = "stop" /\ TellsThread([dec EXCEPT !.deferred = Tail(@)])
      /\ v4l2Handler' = "join" /\ UNCHANGED <<owner, msgs, pipe>>
  BY DEF DeferredStop
<1>2. dec'.state = "stopping" /\ dec'.configured = dec.configured /\ dec'.deferred = Tail(dec.deferred)
  BY <1>1 DEF TellsThread, V4l2Types, DecRecord
<1>3. StopDeferred /\ StopAsked /\ \A k \in Queued : Kind(k) \notin {"pause", "resume"}
  BY <1>1, DeferredIs DEF StopDeferred, ControlInv, StopsInv
<1>4. PICK d \in {0, 1} : QueueMoves(d, "in")
  <2>1. \E d \in {0, 1} : QueueMoves(d, "in")
    BY OthersGet, CallsMove
  <2>. QED  BY <2>1
<1>5. \A k \in Queued' : Kind(k)' \notin {"pause", "resume"}
  BY <1>1, <1>3 DEF Queued, Kind
<1>6. \A k \in Queued : Kind(k) \notin Starts
  BY <1>1, DeferredIs
<1>7. v4l2Handler' \in {"join", "joinReset"}
  BY <1>1
<1>. QED  BY <1>1, <1>2, <1>3, <1>4, <1>5, <1>6, <1>7, TellsKeeps

LEMMA StoppedDecoder ==
    ASSUME V4l2Types
    PROVE  /\ Stopped(dec) \in DecRecord
           /\ Stopped(dec).gen = dec.gen + 1 /\ Stopped(dec).state = "stopped"
           /\ Stopped(dec).changing = dec.changing /\ Stopped(dec).over = dec.over
           /\ ~Stopped(dec).configured /\ Stopped(dec).deferred = dec.deferred
<1>1. PICK n : n = NextGen(dec)
  OBVIOUS
<1>2. dec \in DecRecord /\ dec.gen + 1 \in Nat \ {0}
  BY FieldsAre DEF V4l2Types, DecFields
<1>3. /\ n \in DecRecord /\ n.gen = dec.gen + 1 /\ n.changing = dec.changing /\ n.over = dec.over
      /\ n.deferred = dec.deferred
  BY <1>1, <1>2 DEF NextGen, DecRecord
<1>4. PICK s : s = [n EXCEPT !.state = "stopped", !.configured = FALSE, !.linked = FALSE, !.target = -1]
  OBVIOUS
<1>5. /\ s \in DecRecord /\ s.gen = n.gen /\ s.changing = n.changing /\ s.over = n.over
      /\ s.deferred = n.deferred /\ s.state = "stopped" /\ ~s.configured
  BY <1>3, <1>4 DEF DecRecord, DecStates
<1>. QED  BY <1>1, <1>3, <1>4, <1>5 DEF Stopped

LEMMA JoinedControl ==
    ASSUME V4l2Types, V4l2Types', ControlInv, StopJoined \/ ResetJoined
    PROVE  ControlInv'
<1>1. Joins /\ v4l2Handler' = "idle" /\ UNCHANGED msgs /\ (Notify("stop") \/ Notify("reset"))
  BY DEF StopJoined, ResetJoined, Joins
<1>2. \A f \in Frames : owner'[f] = "window"
  BY DEF StopJoined, ResetJoined
<1>3. dec' = Stopped(dec) \/ dec' = Closed(Stopped(dec))
  BY DEF StopJoined, ResetJoined
<1>4. dec'.state = "stopped" /\ ~dec'.configured /\ dec'.deferred = dec.deferred
  <2>1. PICK s : s = Stopped(dec)
    OBVIOUS
  <2>2. s.state = "stopped" /\ ~s.configured /\ s.deferred = dec.deferred /\ s \in DecRecord
    BY <2>1, StoppedDecoder
  <2>3. CASE dec' = Stopped(dec)
    BY <2>1, <2>2, <2>3
  <2>4. CASE dec' = Closed(Stopped(dec))
    <3>1. dec' = [s EXCEPT !.open = FALSE, !.linked = FALSE, !.over = "reset"]
      BY <2>1, <2>4 DEF Closed
    <3>. QED  BY <2>2, <3>1 DEF DecRecord
  <2>. QED  BY <1>3, <2>3, <2>4
<1>. QED  BY <1>1, <1>2, <1>4, JoinedKeeps

LEMMA ControlStep ==
    ASSUME V4l2Types, V4l2Types', ControlInv, FramesInv, V4l2Next
    PROVE  ControlInv'
<1>1. CASE \E op \in V4l2Ops : V4l2Call(op)
  BY <1>1, CallKeeps
<1>2. CASE V4l2MessageThread
  BY <1>2, PrepareKeeps, StartInputKeeps, StartOutputKeeps, PauseControl, InputControl, StarvesControl, OutputControl, ScheduleControl,
     FlushControl, DeferredFlushControl, StopControl, DeferredStopControl, JoinedControl, Zenon DEF V4l2MessageThread
<1>3. CASE PollThread \/ CodecGoesOn \/ CodecChanges \/ ClientReleases
  BY <1>3, InputControl
<1>. QED  BY <1>1, <1>2, <1>3 DEF V4l2Next

-----------------------------------------------------------------------------
(* The buffers on their way, as the queue moves.                           *)
LEMMA GetsHits ==
    ASSUME V4l2Types, NEW d \in {0, 1}, NEW more \in Seq(Messages), QueueGets(d, more), NEW f \in Frames, NEW g \in Nat
    PROVE  /\ d = 1 => 1 \in Queued /\ Head(msgs.queue) = msgs.queue[1]
           /\ Hits(msgs'.queue, {Scheduled(f, g)}) + (IF d = 1 /\ Head(msgs.queue) = Scheduled(f, g) THEN 1 ELSE 0)
                = Hits(msgs.queue, {Scheduled(f, g)}) + Hits(more, {Scheduled(f, g)})
           /\ Hits(msgs'.queue, {Scheduled(f, g)}) \in Nat /\ Hits(msgs.queue, {Scheduled(f, g)}) \in Nat
           /\ Hits(more, {Scheduled(f, g)}) \in Nat
<1> DEFINE T == {Scheduled(f, g)}
<1>1. PICK q \in Seq(Messages) : q = msgs.queue
  BY FieldsAre DEF OtherFields
<1>2. PICK b \in Seq(Messages) : b = IF d = 1 THEN Rest ELSE msgs.queue
  <2>1. CASE d = 1
    BY <2>1, TakenType DEF QueueGets
  <2>2. CASE d # 1
    BY <1>1, <2>2
  <2>. QED  BY <2>1, <2>2
<1>3. msgs'.queue = b \o more
  BY <1>2 DEF QueueGets
<1>4. Hits(b \o more, T) = Hits(b, T) + Hits(more, T) /\ b \o more \in Seq(Messages)
  BY HitsConcat
<1>5. Hits(b, T) \in Nat /\ Hits(more, T) \in Nat /\ Hits(q, T) \in Nat /\ Hits(b \o more, T) \in Nat
  BY <1>4, HitsNat
<1>6. Hits(q, T) = Hits(b, T) + IF d = 1 /\ Head(q) = Scheduled(f, g) THEN 1 ELSE 0
  <2>1. CASE d = 1
    <3>1. q # <<>> /\ b = Tail(q)
      BY <1>1, <1>2, <2>1 DEF QueueGets, Rest
    <3>2. Hits(q, T) = Hits(Tail(q), T) + IF Head(q) \in T THEN 1 ELSE 0
      BY <3>1, HitsTail
    <3>. QED  BY <2>1, <3>1, <3>2
  <2>2. CASE d # 1
    BY <1>1, <1>2, <1>5, <2>2
  <2>. QED  BY <2>1, <2>2
<1>7. d = 1 => 1 \in Queued /\ Head(msgs.queue) = msgs.queue[1]
  BY QueueTaken DEF QueueGets
<1> HIDE DEF T
<1>8. Hits(msgs'.queue, T) + (IF d = 1 /\ Head(q) = Scheduled(f, g) THEN 1 ELSE 0) = Hits(q, T) + Hits(more, T)
  BY <1>3, <1>4, <1>5, <1>6
<1>9. Hits(msgs'.queue, T) \in Nat
  BY <1>3, <1>5
<1>. QED  BY <1>1, <1>5, <1>7, <1>8, <1>9 DEF T

LEMMA QuietHits ==
    ASSUME NEW more \in Seq(Quiets), NEW f \in Frames, NEW g \in Nat
    PROVE  more \in Seq(Messages) /\ Hits(more, {Scheduled(f, g)}) = 0
<1>1. more \in Seq(Messages)
  BY CallsAre
<1>2. \A k \in 1 .. Len(more) : more[k] \notin {Scheduled(f, g)}
  BY DEF Quiets, Scheduled
<1>. QED  BY <1>1, <1>2, HitsNone

(* The generations in the queue come from before or with the new messages.  *)
LEMMA GetsGens ==
    ASSUME V4l2Types, NEW d \in {0, 1}, NEW more \in Seq(Messages), QueueGets(d, more),
           GensBounded, dec'.gen \in Nat, dec'.gen >= dec.gen,
           \A k \in 1 .. Len(more) : more[k].gen <= dec'.gen,
           \A b \in held' : b.gen <= dec'.gen
    PROVE  GensBounded'
<1>1. PICK b \in Seq(Messages) : /\ b = IF d = 1 THEN Rest ELSE msgs.queue
                                 /\ \A k \in 1 .. Len(b) : b[k].gen <= dec.gen
  <2>1. CASE d = 1
    <3>1. Rest \in Seq(Messages) /\ \A k \in 1 .. Len(Rest) : k + 1 \in Queued /\ Rest[k] = msgs.queue[k + 1]
      BY <2>1, QueueTaken DEF QueueGets
    <3>. QED  BY <2>1, <3>1 DEF GensBounded
  <2>2. CASE d # 1
    <3>1. msgs.queue \in Seq(Messages)
      BY FieldsAre DEF OtherFields
    <3>. QED  BY <2>2, <3>1 DEF GensBounded, Queued
  <2>. QED  BY <2>1, <2>2
<1>2. \A k \in 1 .. Len(b) : b[k].gen <= dec'.gen
  <2>1. dec.gen \in Nat
    BY FieldsAre DEF DecFields
  <2>2. \A k \in 1 .. Len(b) : b[k].gen \in Nat
    BY MessageFields
  <2>. QED  BY <1>1, <2>1, <2>2
<1>3. PICK q \in Seq(Messages) : q = msgs'.queue /\ q = b \o more
  <2>1. b \o more \in Seq(Messages)
    OBVIOUS
  <2>. QED  BY <1>1, <2>1 DEF QueueGets
<1>4. PICK m \in Nat, n \in Nat : m = Len(b) /\ n = Len(more)
  OBVIOUS
<1>5. Len(q) = m + n
  BY <1>3, <1>4
<1>6. ASSUME NEW k \in 1 .. m + n PROVE q[k].gen <= dec'.gen
  <2>1. CASE k <= m
    <3>1. k \in 1 .. Len(b) /\ (b \o more)[k] = b[k]
      BY <1>4, <2>1
    <3>. QED  BY <1>2, <1>3, <3>1
  <2>2. CASE k > m
    <3>1. PICK j \in 1 .. n : k = m + j
      <4>1. k - m \in 1 .. n /\ k = m + (k - m)
        BY <2>2
      <4>. QED  BY <4>1
    <3>2. (b \o more)[Len(b) + j] = more[j]
      BY <1>4
    <3>. QED  BY <1>3, <1>4, <3>1, <3>2
  <2>3. k <= m \/ k > m
    OBVIOUS
  <2>. QED  BY <2>1, <2>2, <2>3, Zenon
<1>7. \A k \in Queued' : msgs'.queue[k].gen <= dec'.gen
  BY <1>3, <1>5, <1>6 DEF Queued
<1>. QED  BY <1>7 DEF GensBounded

LEMMA CommandGets ==
    ASSUME V4l2Types, (\E op \in V4l2Ops : V4l2Call(op)) \/ OnStartInput
    PROVE  QuietGets(Quiets)
<1>1. CASE \E op \in V4l2Ops : V4l2Call(op)
  <2>1. PICK op \in V4l2Ops : V4l2Call(op)
    BY <1>1
  <2>2. Called(op) \in V4l2Whats \ {"schedule"}
    BY DEF Called, V4l2Ops, V4l2Whats
  <2>3. PICK m \in Quiets : m = Message(Called(op))
    BY <2>2, MessageIs DEF Quiets
  <2>4. msgs'.queue = Append(msgs.queue, m)
    BY <2>1, <2>3 DEF V4l2Call, V4l2Types, V4l2MsgsRecord
  <2>5. msgs.queue \in Seq(Messages) /\ m \in Messages
    BY FieldsAre DEF OtherFields, Quiets
  <2>6. msgs'.queue = msgs.queue \o <<m>>
    BY <2>4, <2>5, AppendIsConcat
  <2>7. <<m>> \in Seq(Quiets)
    OBVIOUS
  <2>8. PICK d \in {0, 1} : d # 1
    OBVIOUS
  <2>9. QueueGets(d, <<m>>)
    BY <2>6, <2>8, Zenon DEF QueueGets
  <2>. QED  BY <2>7, <2>8, <2>9, MoreComes
<1>2. CASE OnStartInput
  <2>1. /\ msgs.queue # <<>> /\ Head(msgs.queue).what # "schedule"
        /\ msgs'.queue = Rest \o <<Message("in"), Message("startOutput")>>
    BY <1>2 DEF OnStartInput, NextIs, V4l2Types, V4l2MsgsRecord
  <2>2. Message("in") \in Quiets /\ Message("startOutput") \in Quiets
    BY MessageIs DEF Quiets, V4l2Whats
  <2>3. <<Message("in"), Message("startOutput")>> \in Seq(Quiets)
    BY <2>2
  <2>4. PICK d \in {0, 1} : d = 1
    OBVIOUS
  <2>5. QueueGets(d, <<Message("in"), Message("startOutput")>>)
    BY <2>1, <2>4, Zenon DEF QueueGets
  <2>. QED  BY <2>1, <2>3, <2>5, MoreComes
<1>. QED  BY <1>1, <1>2

LEMMA BuffersGet ==
    ASSUME V4l2Types, OnSchedule \/ RenderFails \/ OnScheduleIgnored
    PROVE  NextIs("schedule") /\ msgs.queue # <<>> /\ msgs'.queue = Rest /\ <<>> \in Seq(Messages) /\ QueueGets(1, <<>>)
<1>1. NextIs("schedule") /\ msgs.queue # <<>> /\ Taken
  BY DEF OnSchedule, RenderFails, OnScheduleIgnored, NextIs
<1>2. msgs'.queue = Rest
  BY <1>1, TakenType
<1>. QED  BY <1>1, <1>2, OneTaken

(* Every step: what comes is of this generation or older.                   *)
LEMMA AllGet ==
    ASSUME V4l2Types, ControlInv, FramesInv, GensBounded, V4l2Next
    PROVE  \E d \in {0, 1}, more \in Seq(Messages) : QueueGets(d, more) /\ \A k \in 1 .. Len(more) : more[k].gen <= dec.gen
<1>0. dec.gen \in Nat
  BY FieldsAre DEF DecFields
<1>1. CASE QuietGets(Quiets)
  <2>1. PICK d \in {0, 1}, more \in Seq(Quiets) : QueueGets(d, more)
    BY <1>1 DEF QuietGets
  <2>2. more \in Seq(Messages)
    BY CallsAre
  <2>3. \A k \in 1 .. Len(more) : more[k].gen <= dec.gen
    BY <1>0 DEF Quiets
  <2>. QED  BY <2>1, <2>2, <2>3
<1>2. CASE OnSchedule \/ RenderFails \/ OnScheduleIgnored
  <2>1. QueueGets(1, <<>>) /\ <<>> \in Seq(Messages)
    BY <1>2, BuffersGet
  <2>2. Len(<<>>) = 0
    OBVIOUS
  <2>3. \A k \in 1 .. Len(<<>>) : <<>>[k].gen <= dec.gen
    BY <2>2
  <2>. QED  BY <2>1, <2>3
<1>3. CASE OutputFrame
  <2>1. PICK d \in {0, 1}, more \in Seq(Plains) : QueueGets(d, more) /\ more = IF Skipped THEN <<Scheduled(Frame.frame, dec.gen)>> ELSE <<>>
    BY <1>3, OutputGets
  <2>2. more \in Seq(Messages)
    BY DEF Plains
  <2>3. \A k \in 1 .. Len(more) : more[k].gen <= dec.gen
    <3>1. CASE more = <<>>
      BY <3>1
    <3>2. CASE more = <<Scheduled(Frame.frame, dec.gen)>>
      <4>1. Len(more) = 1 /\ more[1].gen = dec.gen
        BY <3>2 DEF Scheduled
      <4>. QED  BY <1>0, <4>1
    <3>. QED  BY <2>1, <3>1, <3>2
  <2>. QED  BY <2>1, <2>2, <2>3
<1>4. CASE ClientReleases
  <2>1. PICK f \in Frames, g \in Nat : [frame |-> f, gen |-> g] \in held /\ msgs'.queue = Append(msgs.queue, Scheduled(f, g))
    BY <1>4, ReleaseIs
  <2>2. PICK more \in Seq(Messages) : more = <<Scheduled(f, g)>>
    <3>1. Scheduled(f, g) \in Messages
      BY MessageIs DEF Scheduled
    <3>2. <<Scheduled(f, g)>> \in Seq(Messages)
      BY <3>1
    <3>. QED  BY <3>2
  <2>3. PICK d \in {0, 1} : d # 1
    OBVIOUS
  <2>4. QueueGets(d, more)
    BY <2>1, <2>2, <2>3, ReleasedMove DEF QueueGets
  <2>5. [frame |-> f, gen |-> g].gen <= dec.gen
    BY <2>1 DEF GensBounded
  <2>6. Len(more) = 1 /\ more[1].gen = g /\ g <= dec.gen
    BY <2>2, <2>5 DEF Scheduled
  <2>7. \A k \in 1 .. Len(more) : more[k].gen <= dec.gen
    BY <2>6
  <2>. QED  BY <2>4, <2>7
<1>5. QuietGets(Calls) => QuietGets(Quiets)
  BY QuietsMore
<1>6. CASE V4l2MessageThread
  BY <1>1, <1>2, <1>3, <1>5, <1>6, CommandGets, TakersGet, OthersGet, Zenon DEF V4l2MessageThread
<1>. QED  BY <1>1, <1>4, <1>5, <1>6, CommandGets, OthersGet DEF V4l2Next

LEMMA StoppedIs ==
    ASSUME V4l2Types, dec' = Stopped(dec) \/ dec' = Closed(Stopped(dec))
    PROVE  /\ dec'.gen = dec.gen + 1 /\ dec'.state = "stopped" /\ dec'.changing = dec.changing
           /\ dec'.over = dec.over \/ dec'.over = "reset"
<1>1. PICK s : s = Stopped(dec)
  OBVIOUS
<1>2. /\ s.gen = dec.gen + 1 /\ s.state = "stopped" /\ s.changing = dec.changing /\ s.over = dec.over
      /\ s \in DecRecord
  BY <1>1, StoppedDecoder
<1>3. CASE dec' = Stopped(dec)
  BY <1>1, <1>2, <1>3
<1>4. CASE dec' = Closed(Stopped(dec))
  <2>1. dec' = [s EXCEPT !.open = FALSE, !.linked = FALSE, !.over = "reset"]
    BY <1>1, <1>4 DEF Closed
  <2>. QED  BY <1>2, <2>1 DEF DecRecord
<1>. QED  BY <1>3, <1>4

LEMMA InputDec ==
    ASSUME OnHandleInputBuffer
    PROVE  \E e, t : dec' = [dec EXCEPT !.eos = e, !.target = t]
  BY Zenon DEF OnHandleInputBuffer

LEMMA SameGen ==
    ASSUME V4l2Types,
           \/ \E op \in V4l2Ops : V4l2Call(op)
           \/ OnV4l2Prepare \/ OnStartInput \/ OnStartOutput \/ OnV4l2Pause \/ OnV4l2Resume
           \/ OnInputIgnored \/ OnHandleInputBuffer \/ OnInputUnlinked \/ ReallocateRefused \/ InputStarves \/ RetryDue
           \/ OnOutputIgnored \/ OutputFrame \/ OutputOver \/ OnScheduleIgnored \/ RenderFails \/ OnHandleResolutionChange
           \/ OnV4l2Stop \/ DeferredStop \/ OnV4l2Reset
           \/ PollThread \/ CodecGoesOn \/ CodecChanges \/ ClientReleases
    PROVE  dec'.gen = dec.gen /\ (dec.changing => dec'.changing)
<1> USE DEF V4l2Types, DecRecord
<1>1. CASE OnV4l2Prepare \/ OnStartInput \/ OnStartOutput \/ OnV4l2Pause \/ OnV4l2Resume
  BY <1>1 DEF OnV4l2Prepare, OnStartInput, OnStartOutput, OnV4l2Pause, OnV4l2Resume
<1>2. CASE OnHandleInputBuffer
  <2>1. \E e, t : dec' = [dec EXCEPT !.eos = e, !.target = t]
    BY <1>2, InputDec
  <2>. QED  BY <2>1
<1>3. CASE OutputFrame
  <2>1. PICK d : /\ d = IF Ends THEN [dec EXCEPT !.eos = "output", !.state = "paused"] ELSE dec
                 /\ dec' = d \/ dec' = [d EXCEPT !.target = -1]
    BY <1>3, Zenon DEF OutputFrame
  <2>2. d \in DecRecord /\ d.gen = dec.gen /\ d.changing = dec.changing
    BY <2>1 DEF DecStates, Active
  <2>. QED  BY <2>1, <2>2
<1>4. CASE OutputOver \/ RenderFails \/ OnHandleResolutionChange \/ OnInputUnlinked \/ ReallocateRefused
  BY <1>4 DEF OutputOver, RenderFails, OnHandleResolutionChange, OnInputUnlinked, ReallocateRefused
<1>5. CASE OnV4l2Stop \/ OnV4l2Reset
  BY <1>5 DEF OnV4l2Stop, OnV4l2Reset, TellsThread, Closed
<1>6. CASE DeferredStop
  BY <1>6 DEF DeferredStop, TellsThread
<1>7. CASE UNCHANGED dec
  BY <1>7
<1>. QED  BY <1>1, <1>2, <1>3, <1>4, <1>5, <1>6, <1>7
     DEF V4l2Call, OnInputIgnored, InputStarves, RetryDue, OnOutputIgnored, OnScheduleIgnored, PollThread, PollEnds, PollSleeps, PollPosts,
         CodecGoesOn, CodecChanges, ClientReleases

LEMMA GenMoves ==
    ASSUME V4l2Types, V4l2Next
    PROVE  dec'.gen \in {dec.gen, dec.gen + 1}
<1>1. CASE OutputKept
  <2>1. \/ dec' = dec
        \/ \E c : dec' = [NextGen(dec) EXCEPT !.changing = c]
    BY <1>1, Zenon DEF OutputKept, Reallocates, ReallocateFails
  <2>. QED  BY <2>1 DEF NextGen, V4l2Types, DecRecord
<1>2. CASE OnSchedule
  <2>1. \/ dec' = dec
        \/ dec' = [NextGen(dec) EXCEPT !.changing = FALSE]
        \/ dec' = [NextGen(dec) EXCEPT !.changing = FALSE, !.state = "paused"]
        \/ dec' = [dec EXCEPT !.over = "start"]
    BY <1>2, Zenon DEF OnSchedule, Reallocates, ReallocateFails
  <2>. QED  BY <2>1 DEF NextGen, V4l2Types, DecRecord
<1>3. CASE OnV4l2Flush
  BY <1>3 DEF OnV4l2Flush, Flushes, NextGen, V4l2Types, DecRecord
<1>4. CASE DeferredFlush
  BY <1>4 DEF DeferredFlush, Flushes, NextGen, V4l2Types, DecRecord
<1>5. CASE StopJoined \/ ResetJoined
  BY <1>5, StoppedIs DEF StopJoined, ResetJoined
<1>6. CASE V4l2MessageThread
  BY <1>1, <1>2, <1>3, <1>4, <1>5, <1>6, SameGen DEF V4l2MessageThread
<1>. QED  BY <1>6, SameGen DEF V4l2Next

LEMMA HeldMoves ==
    ASSUME V4l2Types, V4l2Next
    PROVE  \A b \in held' : b \in held \/ b.gen = dec.gen
<1>1. CASE OutputFrame
  <2>1. held' = held \/ held' = held \cup {[frame |-> Frame.frame, gen |-> dec.gen]}
    BY <1>1, Zenon DEF OutputFrame
  <2>. QED  BY <2>1
<1>2. CASE ClientReleases
  <2>1. \E b : held' = held \ {b}
    BY <1>2, Zenon DEF ClientReleases
  <2>. QED  BY <2>1
<1>3. CASE UNCHANGED held
  BY <1>3
<1>4. CASE V4l2MessageThread /\ ~OutputFrame
  BY <1>3, <1>4, Zenon
     DEF V4l2MessageThread, OnV4l2Prepare, OnStartInput, OnStartOutput, OnV4l2Pause, OnV4l2Resume,
         OnInputIgnored, OnHandleInputBuffer, OnInputUnlinked, ReallocateRefused, InputStarves, RetryDue, OnOutputIgnored, OutputOver, OutputKept,
         OnScheduleIgnored, OnSchedule, RenderFails, OnHandleResolutionChange, OnV4l2Flush, OnV4l2Stop,
         StopJoined, DeferredFlush, DeferredStop, OnV4l2Reset, ResetJoined
<1>. QED  BY <1>1, <1>2, <1>3, <1>4 DEF V4l2Next, V4l2Call, PollThread, PollEnds, PollSleeps, PollPosts, CodecGoesOn, CodecChanges

LEMMA GensStep ==
    ASSUME V4l2Types, V4l2Types', ControlInv, FramesInv, GensBounded, V4l2Next
    PROVE  GensBounded'
<1>1. PICK d \in {0, 1}, more \in Seq(Messages) : QueueGets(d, more) /\ \A k \in 1 .. Len(more) : more[k].gen <= dec.gen
  BY AllGet
<1>2. dec'.gen \in Nat /\ dec.gen \in Nat /\ dec'.gen >= dec.gen
  <2>1. dec.gen \in Nat
    BY FieldsAre DEF DecFields
  <2>. QED  BY <2>1, GenMoves
<1>3. \A k \in 1 .. Len(more) : more[k].gen <= dec'.gen
  <2>1. \A k \in 1 .. Len(more) : more[k].gen \in Nat
    BY MessageFields
  <2>. QED  BY <1>1, <1>2, <2>1
<1>4. \A b \in held' : b.gen <= dec'.gen
  <2>1. \A b \in held' : b.gen <= dec.gen /\ b.gen \in Nat
    BY <1>2, HeldMoves DEF GensBounded, V4l2Types, Buffers
  <2>. QED  BY <1>2, <2>1
<1>. QED  BY <1>1, <1>2, <1>3, <1>4, GetsGens

-----------------------------------------------------------------------------
(* Each action keeps the account of the input buffers.                     *)
LEMMA InputsSame ==
    ASSUME InputsInv, UNCHANGED indices, codec'.in = codec.in, codec'.done = codec.done,
           dec'.state \in Active => dec.state \in Active,
           dec'.state \in {"null", "prepared"} => dec.state \in {"null", "prepared"}
    PROVE  InputsInv'
<1>1. EachOnce => EachOnce'
  BY DEF EachOnce
<1>. QED  BY <1>1 DEF InputsInv

LEMMA AllIndicesOnce ==
    ASSUME NEW i \in Indices
    PROVE  Hits(AllIndices, {i}) = 1
<1>1. Len(AllIndices) = InputCount /\ \A k \in 1 .. InputCount : AllIndices[k] = k
  BY V4l2Assumption DEF AllIndices, Indices
<1>2. {k \in 1 .. Len(AllIndices) : AllIndices[k] \in {i}} = {i}
  BY <1>1 DEF Indices
<1>3. Cardinality({i}) = 1
  BY FS_Singleton
<1>. QED  BY <1>2, <1>3 DEF Hits

LEMMA InputsAnew ==
    ASSUME indices' = AllIndices, codec'.in = <<>>, codec'.done = <<>>,
           dec'.state \notin {"null", "prepared"}
    PROVE  InputsInv'
<1>1. \A i \in Indices : Hits(indices', {i}) + Hits(codec'.in, InputsOf(i)) + Hits(codec'.done, {i}) = 1
  BY AllIndicesOnce, HitsEmpty
<1>. QED  BY <1>1 DEF InputsInv, EachOnce, InputsOf

LEMMA InputsFilled ==
    ASSUME V4l2Types, ControlInv, InputsInv, OnHandleInputBuffer
    PROVE  InputsInv'
<1>1. dec.state \in Active /\ dec'.state \in Active
  <2>1. Runs
    BY DEF OnHandleInputBuffer, HandlesInput
  <2>2. dec'.state = dec.state
    BY InputDec DEF V4l2Types, DecRecord
  <2>. QED  BY <2>1, <2>2 DEF Runs, Active
<1>2. Usable \in Seq(Indices) /\ codec.in \in Seq(Inputs) /\ codec.done \in Seq(Indices) /\ indices \in Seq(Indices)
  BY InputBufferIs, FieldsAre DEF CodecFields, V4l2Types
<1>3. PICK k \in 0 .. Len(Usable), t \in Seq(Inputs) :
         /\ Len(t) = k /\ \A i \in 1 .. k : t[i].idx = Usable[i]
         /\ codec'.in = codec.in \o t /\ codec'.done = <<>>
         /\ indices' = SubSeq(Usable, k + 1, Len(Usable))
  BY InputBufferIs
<1>4. ASSUME NEW i \in Indices, Hits(indices, {i}) + Hits(codec.in, InputsOf(i)) + Hits(codec.done, {i}) = 1
      PROVE  Hits(indices', {i}) + Hits(codec'.in, InputsOf(i)) + Hits(codec'.done, {i}) = 1
  <2>1. Hits(Usable, {i}) = Hits(indices, {i}) + Hits(codec.done, {i})
    BY <1>2, HitsConcat DEF Usable
  <2>a. PICK u \in Seq(Indices) : u = Usable
    BY <1>2
  <2>b. k \in 0 .. Len(u)
    BY <2>a
  <2>c. /\ SubSeq(u, 1, k) \in Seq(Indices) /\ Len(SubSeq(u, 1, k)) = k /\ \A j \in 1 .. k : SubSeq(u, 1, k)[j] = u[j]
        /\ SubSeq(u, k + 1, Len(u)) \in Seq(Indices)
        /\ Hits(u, {i}) = Hits(SubSeq(u, 1, k), {i}) + Hits(SubSeq(u, k + 1, Len(u)), {i})
    BY <2>b, HitsSplit
  <2>2. PICK a \in Seq(Indices) : a = SubSeq(u, 1, k) /\ Len(a) = k /\ \A j \in 1 .. k : a[j] = u[j]
    BY <2>c
  <2>3. Hits(Usable, {i}) = Hits(a, {i}) + Hits(indices', {i}) /\ indices' \in Seq(Indices)
    BY <1>3, <2>a, <2>2, <2>c
  <2>4. Hits(a, {i}) = Hits(t, InputsOf(i))
    <3>1. Len(a) = Len(t)
      BY <1>3, <2>2
    <3>2. \A j \in 1 .. Len(a) : a[j] \in {i} <=> t[j] \in InputsOf(i)
      <4>1. \A j \in 1 .. k : t[j] \in Inputs /\ t[j].idx = a[j]
        BY <1>3, <2>a, <2>2
      <4>. QED  BY <2>2, <4>1 DEF InputsOf
    <3>. QED  BY <3>1, <3>2, HitsSame
  <2>5. Hits(codec'.in, InputsOf(i)) = Hits(codec.in, InputsOf(i)) + Hits(t, InputsOf(i))
    BY <1>2, <1>3, HitsConcat
  <2>6. Hits(codec'.done, {i}) = 0
    BY <1>3, HitsEmpty
  <2>7. /\ Hits(indices, {i}) \in Nat /\ Hits(codec.in, InputsOf(i)) \in Nat /\ Hits(codec.done, {i}) \in Nat
        /\ Hits(t, InputsOf(i)) \in Nat /\ Hits(indices', {i}) \in Nat
    BY <1>2, <2>3, HitsNat
  <2>. QED  BY SMTT(60), <1>4, <2>1, <2>3, <2>4, <2>5, <2>6, <2>7
<1>5. EachOnce'
  <2>1. \A i \in Indices : Hits(indices', {i}) + Hits(codec'.in, InputsOf(i)) + Hits(codec'.done, {i}) = 1
    BY <1>1, <1>4 DEF InputsInv, EachOnce
  <2>. QED  BY <2>1 DEF EachOnce, InputsOf
<1>. QED  BY <1>1, <1>5 DEF InputsInv, Active

LEMMA InputsConsumed ==
    ASSUME V4l2Types, InputsInv, CodecGoesOn
    PROVE  InputsInv'
<1>1. /\ codec.in # <<>> /\ Head(codec.in) \in Inputs /\ Head(codec.in).idx \in Indices
      /\ codec'.in = Tail(codec.in) /\ codec'.done = Append(codec.done, Head(codec.in).idx)
      /\ UNCHANGED <<dec, indices>>
  BY CodecStepIs DEF CodecGoesOn
<1>2. codec.in \in Seq(Inputs) /\ codec.done \in Seq(Indices)
  BY FieldsAre DEF CodecFields
<1>3. ASSUME NEW i \in Indices
      PROVE  Hits(codec'.in, InputsOf(i)) + Hits(codec'.done, {i}) = Hits(codec.in, InputsOf(i)) + Hits(codec.done, {i})
  <2>1. Hits(codec.in, InputsOf(i)) = Hits(Tail(codec.in), InputsOf(i)) + IF Head(codec.in) \in InputsOf(i) THEN 1 ELSE 0
    BY <1>1, <1>2, HitsTail
  <2>2. Hits(codec'.done, {i}) = Hits(codec.done, {i}) + IF Head(codec.in).idx \in {i} THEN 1 ELSE 0
    BY <1>1, <1>2, HitsAppend
  <2>3. Head(codec.in) \in InputsOf(i) <=> Head(codec.in).idx \in {i}
    BY <1>1 DEF InputsOf
  <2>4. Hits(codec'.in, InputsOf(i)) \in Nat /\ Hits(codec.done, {i}) \in Nat
    <3>1. Tail(codec.in) \in Seq(Inputs)
      BY <1>1, <1>2
    <3>. QED  BY <1>1, <1>2, <3>1, HitsNat
  <2>. QED  BY <1>1, <2>1, <2>2, <2>3, <2>4
<1>4. EachOnce => EachOnce'
  <2>1. ASSUME EachOnce, NEW i \in Indices
        PROVE  Hits(indices', {i}) + Hits(codec'.in, InputsOf(i)) + Hits(codec'.done, {i}) = 1
    <3>1. /\ Hits(codec.in, InputsOf(i)) \in Nat /\ Hits(codec.done, {i}) \in Nat /\ Hits(indices, {i}) \in Nat
      BY <1>2, HitsNat DEF V4l2Types
    <3>2. /\ Hits(codec'.in, InputsOf(i)) \in Nat /\ Hits(codec'.done, {i}) \in Nat
      <4>1. Tail(codec.in) \in Seq(Inputs) /\ Append(codec.done, Head(codec.in).idx) \in Seq(Indices)
        BY <1>1, <1>2
      <4>. QED  BY <1>1, <4>1, HitsNat
    <3>3. Hits(indices, {i}) + Hits(codec.in, InputsOf(i)) + Hits(codec.done, {i}) = 1
      BY <2>1 DEF EachOnce
    <3>4. Hits(indices', {i}) = Hits(indices, {i})
      BY <1>1
    <3>5. PICK a \in Nat, b \in Nat, c \in Nat, x \in Nat, y \in Nat :
             /\ a = Hits(indices, {i}) /\ b = Hits(codec.in, InputsOf(i)) /\ c = Hits(codec.done, {i})
             /\ x = Hits(codec'.in, InputsOf(i)) /\ y = Hits(codec'.done, {i})
      BY <3>1, <3>2
    <3>6. x + y = b + c /\ a + b + c = 1
      BY <1>3, <3>3, <3>5
    <3>7. a + x + y = 1
      BY <3>6
    <3>. QED  BY <3>4, <3>5, <3>7
  <2>. QED  BY <2>1 DEF EachOnce, InputsOf
<1>. QED  BY <1>1, <1>4 DEF InputsInv, Active

LEMMA InputsStarted ==
    ASSUME V4l2Types, ControlInv, InputsInv, OnStartInput
    PROVE  InputsInv'
<1>1. NextIs("startInput") /\ indices' = indices \o AllIndices /\ UNCHANGED codec /\ dec'.state = "play"
  BY DEF OnStartInput, V4l2Types, DecRecord
<1>2. 1 \in Queued /\ Kind(1) = "startInput"
  BY <1>1, QueueTaken DEF NextIs, Kind
<1>3. dec.state = "prepared"
  BY <1>2 DEF ControlInv, StartsInv
<1>4. indices = <<>> /\ codec.in = <<>> /\ codec.done = <<>>
  BY <1>3 DEF InputsInv
<1>5. indices' = AllIndices
  <2>1. PICK s \in Seq(Indices) : s = AllIndices
    BY FrameSets
  <2>2. <<>> \o s = s
    OBVIOUS
  <2>. QED  BY <1>1, <1>4, <2>1, <2>2
<1>. QED  BY <1>1, <1>4, <1>5, InputsAnew

(* What handles frames leaves the input port alone.                        *)
LEMMA InputsAlone ==
    ASSUME V4l2Types,
           \/ OutputFrame \/ OutputOver \/ OutputKept \/ OnSchedule \/ RenderFails \/ OnHandleResolutionChange
           \/ OnStartOutput \/ CodecChanges \/ OnV4l2Resume \/ OnV4l2Stop \/ OnV4l2Reset \/ DeferredStop
    PROVE  UNCHANGED indices /\ codec'.in = codec.in /\ codec'.done = codec.done
<1> USE DEF V4l2Types, CodecRecord
<1>1. CASE OutputFrame \/ OutputOver
  BY <1>1 DEF OutputFrame, OutputOver, Dequeued
<1>2. CASE OutputKept
  <2>1. UNCHANGED indices /\ (codec' = Dequeued \/ codec' = CodecWithFrames \/ codec' = [codec EXCEPT !.free = {}, !.filled = <<>>])
    BY <1>2, OutputKeptCodec DEF OutputKept
  <2>. QED  BY <2>1 DEF Dequeued, CodecWithFrames
<1>3. CASE OnSchedule
  <2>1. UNCHANGED indices
    BY <1>3 DEF OnSchedule
  <2>2. \/ codec' = codec
        \/ \E g : codec' = [codec EXCEPT !.free = @ \cup {g}]
        \/ codec' = CodecWithFrames
        \/ codec' = [codec EXCEPT !.free = {}, !.filled = <<>>]
    BY <1>3, OnScheduleCodec
  <2>. QED  BY <2>1, <2>2 DEF CodecWithFrames
<1>4. CASE RenderFails \/ OnHandleResolutionChange \/ CodecChanges
  BY <1>4 DEF RenderFails, OnHandleResolutionChange, CodecChanges
<1>5. CASE OnStartOutput \/ OnV4l2Resume
  BY <1>5 DEF OnStartOutput, OnV4l2Resume, CodecWithFrames
<1>6. CASE OnV4l2Stop \/ OnV4l2Reset \/ DeferredStop
  BY <1>6 DEF OnV4l2Stop, OnV4l2Reset, DeferredStop, TellsThread
<1>. QED  BY <1>1, <1>2, <1>3, <1>4, <1>5, <1>6

(* How the decoder's state moves, when it is not flushed, stopped or fed.    *)
LEMMA StatesMove ==
    ASSUME V4l2Types, ControlInv, FramesInv,
           \/ \E op \in V4l2Ops : V4l2Call(op)
           \/ OnV4l2Prepare \/ OnStartOutput \/ OnV4l2Pause \/ OnV4l2Resume
           \/ OnInputIgnored \/ OnInputUnlinked \/ ReallocateRefused \/ InputStarves \/ RetryDue
           \/ OnOutputIgnored \/ OutputFrame \/ OutputOver \/ OutputKept
           \/ OnScheduleIgnored \/ OnSchedule \/ RenderFails \/ OnHandleResolutionChange
           \/ OnV4l2Stop \/ DeferredStop \/ OnV4l2Reset
           \/ PollThread \/ CodecChanges \/ ClientReleases
    PROVE  /\ dec'.state \in Active => dec.state \in Active
           /\ dec'.state \in {"null", "prepared"} => dec.state \in {"null", "prepared"}
<1>1. CASE OnV4l2Prepare
  <2>1. 1 \in Queued /\ Kind(1) = "prepare" /\ dec'.state = "prepared"
    BY <1>1, QueueTaken DEF OnV4l2Prepare, NextIs, Kind, V4l2Types, DecRecord
  <2>2. dec.state = "null"
    BY <2>1 DEF ControlInv, ModeInv
  <2>. QED  BY <2>1, <2>2 DEF Active
<1>2. CASE OnStartOutput \/ OnV4l2Pause \/ OnV4l2Resume
  <2>1. 1 \in Queued /\ Kind(1) \in {"startOutput", "pause", "resume"} /\ v4l2Handler = "idle"
    BY <1>2, QueueTaken DEF OnStartOutput, OnV4l2Pause, OnV4l2Resume, NextIs, Kind
  <2>2. dec.state \in Active
    BY <2>1 DEF ControlInv, StartsInv, StopsInv, PlacesInv, Joins, Active
  <2>3. dec'.state \in {dec.state, "playing", "paused"}
    BY <1>2 DEF OnStartOutput, OnV4l2Pause, OnV4l2Resume, V4l2Types, DecRecord
  <2>. QED  BY <2>2, <2>3 DEF Active
<1>3. CASE OutputFrame \/ OutputOver \/ OutputKept
  <2>1. dec.state \in Active
    BY <1>3, HandlesOutputIs DEF OutputFrame, OutputOver, OutputKept
  <2>2. dec'.state \in {dec.state, "paused"}
    BY <1>3, OutputState
  <2>. QED  BY <2>1, <2>2 DEF Active
<1>4. CASE OnSchedule \/ RenderFails
  <2>1. dec.state \in Active
    BY <1>4, ReturnedIs DEF OnSchedule, RenderFails, Stale
  <2>2. dec'.state \in {dec.state, "paused"}
    BY <1>4, ScheduleState
  <2>. QED  BY <2>1, <2>2 DEF Active
<1>5. CASE OnV4l2Stop \/ DeferredStop \/ OnV4l2Reset
  <2>1. dec'.state \in {dec.state, "stopping"}
    BY <1>5 DEF OnV4l2Stop, DeferredStop, OnV4l2Reset, TellsThread, Closed, V4l2Types, DecRecord
  <2>. QED  BY <2>1 DEF Active
<1>6. CASE dec'.state = dec.state
  BY <1>6
<1>7. OnInputUnlinked \/ ReallocateRefused \/ InputStarves \/ OnHandleResolutionChange => dec'.state = dec.state
  BY DEF OnInputUnlinked, ReallocateRefused, InputStarves, OnHandleResolutionChange, V4l2Types, DecRecord
<1>. QED  BY <1>1, <1>2, <1>3, <1>4, <1>5, <1>6, <1>7
     DEF V4l2Call, OnInputIgnored, RetryDue, OnOutputIgnored, OnScheduleIgnored, PollThread, PollEnds, PollSleeps, PollPosts,
         CodecChanges, ClientReleases

LEMMA InputsStep ==
    ASSUME V4l2Types, ControlInv, FramesInv, InputsInv, V4l2Next
    PROVE  InputsInv'
<1>1. CASE StopJoined \/ ResetJoined
  <2>1. dec'.state = "stopped"
    BY <1>1, StoppedIs DEF StopJoined, ResetJoined
  <2>. QED  BY <2>1 DEF InputsInv, Active
<1>2. CASE OnV4l2Flush
  <2>1. CASE UNCHANGED <<codec, indices>> /\ dec'.state = dec.state
    BY <2>1, InputsSame
  <2>2. CASE dec.configured /\ Flushes(dec)
    <3>1. dec'.state = dec.state /\ dec.state \notin {"null", "prepared"}
      BY <2>2 DEF Flushes, NextGen, V4l2Types, DecRecord, ControlInv, PlacesInv
    <3>2. indices' = AllIndices /\ codec'.in = <<>> /\ codec'.done = <<>>
      BY <2>2 DEF Flushes, V4l2Types, CodecRecord
    <3>. QED  BY <3>1, <3>2, InputsAnew
  <2>. QED  BY <1>2, <2>1, <2>2 DEF OnV4l2Flush, V4l2Types, DecRecord
<1>3. CASE DeferredFlush
  <2>1. dec'.state = dec.state /\ dec.state \in Active
    BY <1>3, DeferredIs DEF DeferredFlush, Flushes, NextGen, V4l2Types, DecRecord
  <2>2. indices' = AllIndices /\ codec'.in = <<>> /\ codec'.done = <<>>
    BY <1>3 DEF DeferredFlush, Flushes, V4l2Types, CodecRecord
  <2>. QED  BY <2>1, <2>2, InputsAnew DEF Active
<1>4. CASE OnStartInput \/ OnHandleInputBuffer \/ CodecGoesOn
  BY <1>4, InputsStarted, InputsFilled, InputsConsumed
<1>5. (\E op \in V4l2Ops : V4l2Call(op)) \/ OnV4l2Prepare \/ OnV4l2Pause \/ OnInputIgnored \/ OnInputUnlinked \/ ReallocateRefused \/ InputStarves \/ RetryDue
         \/ OnOutputIgnored \/ OnScheduleIgnored \/ PollThread \/ ClientReleases
       => UNCHANGED <<indices, codec>>
  BY DEF V4l2Call, OnV4l2Prepare, OnV4l2Pause, OnInputIgnored, OnInputUnlinked, ReallocateRefused, InputStarves, RetryDue, OnOutputIgnored, OnScheduleIgnored,
         PollThread, PollEnds, PollSleeps, PollPosts, ClientReleases
<1>6. CASE V4l2MessageThread
  BY <1>1, <1>2, <1>3, <1>4, <1>5, <1>6, InputsAlone, StatesMove, InputsSame DEF V4l2MessageThread
<1>. QED  BY <1>4, <1>5, <1>6, InputsAlone, StatesMove, InputsSame DEF V4l2Next

-----------------------------------------------------------------------------
(* Each action keeps the account of the frames.                            *)
LEMMA WaySame ==
    ASSUME V4l2Types, V4l2Types', QuietGets(Quiets), UNCHANGED held, dec'.gen = dec.gen, NEW f \in Frames
    PROVE  Way(f)' = Way(f)
<1>1. PICK d \in {0, 1}, more \in Seq(Quiets) :
          QueueGets(d, more) /\ (d = 1 => Head(msgs.queue).what # "schedule" \/ Head(msgs.queue).gen # dec.gen)
  BY DEF QuietGets
<1>2. dec.gen \in Nat
  BY FieldsAre DEF DecFields
<1>3. more \in Seq(Messages) /\ Hits(more, {Scheduled(f, dec.gen)}) = 0
  BY <1>2, QuietHits
<1>4. ~(d = 1 /\ Head(msgs.queue) = Scheduled(f, dec.gen))
  BY <1>1 DEF Scheduled
<1>5. Hits(msgs'.queue, {Scheduled(f, dec.gen)}) = Hits(msgs.queue, {Scheduled(f, dec.gen)})
  <2>1. /\ Hits(msgs'.queue, {Scheduled(f, dec.gen)}) + (IF d = 1 /\ Head(msgs.queue) = Scheduled(f, dec.gen) THEN 1 ELSE 0)
             = Hits(msgs.queue, {Scheduled(f, dec.gen)}) + Hits(more, {Scheduled(f, dec.gen)})
        /\ Hits(msgs'.queue, {Scheduled(f, dec.gen)}) \in Nat /\ Hits(msgs.queue, {Scheduled(f, dec.gen)}) \in Nat
    BY <1>1, <1>2, <1>3, GetsHits
  <2>. QED  BY <1>3, <1>4, <2>1
<1>. QED  BY <1>5 DEF Way, Held, Scheduled

(* In what is counted for a frame nothing changes.                         *)
FrameKept(f) ==
    /\ owner'[f] = owner[f] /\ Way(f)' = Way(f)
    /\ f \in codec'.free <=> f \in codec.free
    /\ Hits(codec'.filled, OutputsOf(f)) = Hits(codec.filled, OutputsOf(f))

FrameInv(f) ==
    /\ Free(f) + Hits(codec.filled, OutputsOf(f)) = IF owner[f] = "codec" THEN 1 ELSE 0
    /\ owner[f] \in {"none", "codec", "window"} => Way(f) = 0
    /\ owner[f] = "client" => Way(f) = 1
    /\ owner[f] = "us" => Way(f) <= 1 /\ (~dec.changing => Way(f) = 1)

LEMMA FrameStays ==
    ASSUME NEW f \in Frames, FrameInv(f), FrameKept(f), dec.changing => dec'.changing
    PROVE  FrameInv(f)'
<1>1. Free(f)' = Free(f)
  BY DEF FrameKept, Free
<1>2. Hits(codec.filled, OutputsOf(f))' = Hits(codec.filled, OutputsOf(f))
  BY DEF FrameKept, OutputsOf
<1>. QED  BY <1>1, <1>2 DEF FrameKept, FrameInv

LEMMA FramesKeep ==
    ASSUME V4l2Types, V4l2Types', FramesInv, QuietGets(Quiets), UNCHANGED <<held, owner>>, dec'.gen = dec.gen,
           dec.changing => dec'.changing, codec'.free = codec.free, codec'.filled = codec.filled
    PROVE  FramesInv'
<1>1. ASSUME NEW f \in Frames PROVE FrameInv(f)'
  <2>1. FrameInv(f)
    BY DEF FramesInv, FrameInv
  <2>2. FrameKept(f)
    BY WaySame DEF FrameKept
  <2>. QED  BY <2>1, <2>2, FrameStays
<1>. QED  BY <1>1 DEF FramesInv, FrameInv

(* A new generation: nothing is on its way.                                *)
LEMMA WayAnew ==
    ASSUME V4l2Types, V4l2Types', GensBounded, UNCHANGED held, dec'.gen = dec.gen + 1,
           NEW d \in {0, 1}, NEW more \in Seq(Messages), QueueGets(d, more), \A k \in 1 .. Len(more) : more[k].gen <= dec.gen,
           NEW f \in Frames
    PROVE  Way(f)' = 0
<1>1. PICK g \in Nat : g = dec.gen
  BY FieldsAre DEF DecFields
<1>2. [frame |-> f, gen |-> g + 1] \notin held
  <2>1. [frame |-> f, gen |-> g + 1].gen = g + 1
    OBVIOUS
  <2>. QED  BY <1>1, <2>1 DEF GensBounded
<1>3. Hits(msgs.queue, {Scheduled(f, g + 1)}) = 0
  <2>1. PICK q \in Seq(Messages) : q = msgs.queue
    BY FieldsAre DEF OtherFields
  <2>2. \A k \in 1 .. Len(q) : q[k].gen <= g
    BY <1>1, <2>1 DEF GensBounded, Queued
  <2>3. \A k \in 1 .. Len(q) : q[k] \notin {Scheduled(f, g + 1)}
    BY <2>2 DEF Scheduled
  <2>. QED  BY <2>1, <2>3, HitsNone
<1>4. Hits(more, {Scheduled(f, g + 1)}) = 0
  <2>1. \A k \in 1 .. Len(more) : more[k] \notin {Scheduled(f, g + 1)}
    BY <1>1 DEF Scheduled
  <2>. QED  BY <2>1, HitsNone
<1>5. Hits(msgs'.queue, {Scheduled(f, g + 1)}) = 0
  <2>1. PICK h \in Nat : h = g + 1
    OBVIOUS
  <2>2. /\ Hits(msgs'.queue, {Scheduled(f, h)}) + (IF d = 1 /\ Head(msgs.queue) = Scheduled(f, h) THEN 1 ELSE 0)
             = Hits(msgs.queue, {Scheduled(f, h)}) + Hits(more, {Scheduled(f, h)})
        /\ Hits(msgs'.queue, {Scheduled(f, h)}) \in Nat
    BY GetsHits, ZenonT(60)
  <2>3. Hits(msgs.queue, {Scheduled(f, h)}) = 0 /\ Hits(more, {Scheduled(f, h)}) = 0
    BY <1>3, <1>4, <2>1
  <2>. QED  BY <2>1, <2>2, <2>3
<1>. QED  BY <1>1, <1>2, <1>5 DEF Way, Held, Scheduled

LEMMA FramesAnew ==
    ASSUME V4l2Types, V4l2Types', \A f \in Frames : Way(f)' = 0,
           \A f \in Frames : owner'[f] \in {"none", "codec", "window"},
           codec'.free = {f \in Frames : owner'[f] = "codec"}, codec'.filled = <<>>
    PROVE  FramesInv'
<1>1. ASSUME NEW f \in Frames PROVE FrameInv(f)'
  <2>1. Hits(codec.filled, OutputsOf(f))' = 0
    BY HitsEmpty DEF OutputsOf
  <2>2. Free(f)' = IF owner'[f] = "codec" THEN 1 ELSE 0
    BY DEF Free
  <2>. QED  BY <2>1, <2>2 DEF FrameInv
<1>. QED  BY <1>1 DEF FramesInv, FrameInv

LEMMA GivenAnew ==
    ASSUME V4l2Types, V4l2Types', \A f \in Frames : Way(f)' = 0,
           \/ \E d : Reallocates(d)
           \/ \E d : ReallocateFails(d)
           \/ \E d : Flushes(d)
           \/ StopJoined
           \/ ResetJoined
           \/ /\ owner' = AllocatedFrames
              /\ codec' = [CodecWithFrames EXCEPT !.interrupt = FALSE]
    PROVE  FramesInv'
<1> USE DEF V4l2Types, CodecRecord
<1>0. CodecWithFrames.free = Undequeued + 1 .. NumFrames /\ CodecWithFrames.filled = <<>> /\ CodecWithFrames \in CodecRecord
  BY ReallocatesType DEF CodecWithFrames
<1>1. CASE owner' = AllocatedFrames /\ codec'.free = Undequeued + 1 .. NumFrames /\ codec'.filled = <<>>
  <2>1. \A f \in Frames : owner'[f] = IF f <= Undequeued THEN "window" ELSE "codec"
    BY <1>1 DEF AllocatedFrames
  <2>2. codec'.free = {f \in Frames : owner'[f] = "codec"}
    <3>1. \A f \in Frames : owner'[f] = "codec" <=> f \in Undequeued + 1 .. NumFrames
      BY <2>1, GivenFrames
    <3>2. Undequeued + 1 .. NumFrames \subseteq Frames
      BY FrameSets
    <3>. QED  BY <1>1, <3>1, <3>2
  <2>. QED  BY <1>1, <2>1, <2>2, FramesAnew
<1>2. CASE owner' = [f \in Frames |-> "window"] /\ codec'.free = {} /\ codec'.filled = <<>>
  <2>1. \A f \in Frames : owner'[f] = "window"
    BY <1>2
  <2>2. codec'.free = {f \in Frames : owner'[f] = "codec"}
    BY <1>2, <2>1
  <2>. QED  BY <1>2, <2>1, <2>2, FramesAnew
<1>3. CASE \E d : Flushes(d)
  <2>1. /\ owner' = [f \in Frames |-> IF owner[f] = "window" THEN "window" ELSE "codec"]
        /\ codec'.free = {f \in Frames : owner[f] # "window"} /\ codec'.filled = <<>>
    BY <1>3 DEF Flushes
  <2>2. \A f \in Frames : owner'[f] = IF owner[f] = "window" THEN "window" ELSE "codec"
    BY <2>1
  <2>3. codec'.free = {f \in Frames : owner'[f] = "codec"}
    BY <2>1, <2>2
  <2>. QED  BY <2>1, <2>2, <2>3, FramesAnew
<1>4. (\E d : ReallocateFails(d)) \/ StopJoined \/ ResetJoined =>
         owner' = [f \in Frames |-> "window"] /\ codec'.free = {} /\ codec'.filled = <<>>
  BY DEF ReallocateFails, StopJoined, ResetJoined
<1>5. (\E d : Reallocates(d)) \/ (owner' = AllocatedFrames /\ codec' = [CodecWithFrames EXCEPT !.interrupt = FALSE]) =>
         owner' = AllocatedFrames /\ codec'.free = Undequeued + 1 .. NumFrames /\ codec'.filled = <<>>
  BY <1>0 DEF Reallocates
<1>. QED  BY <1>1, <1>2, <1>3, <1>4, <1>5

(* A buffer that comes back is no longer on its way.                       *)
LEMMA WayBack ==
    ASSUME V4l2Types, V4l2Types', ControlInv, FramesInv, NextIs("schedule"), Returned.gen = dec.gen,
           QueueGets(1, <<>>), UNCHANGED held, dec'.gen = dec.gen, NEW r \in Frames, r = Returned.frame
    PROVE  /\ Way(r)' = 0
           /\ \A f \in Frames \ {r} : Way(f)' = Way(f)
<1>1. PICK g \in Nat : g = dec.gen /\ Returned = Scheduled(r, g) /\ Way(r) = 1
  BY ReturnedIs, FieldsAre DEF DecFields
<1>2. ASSUME NEW f \in Frames
      PROVE  /\ Hits(msgs'.queue, {Scheduled(f, g)}) + (IF f = r THEN 1 ELSE 0) = Hits(msgs.queue, {Scheduled(f, g)})
             /\ Hits(msgs'.queue, {Scheduled(f, g)}) \in Nat /\ Hits(msgs.queue, {Scheduled(f, g)}) \in Nat
  <2>1. PICK d \in {0, 1}, more \in Seq(Messages) : d = 1 /\ more = <<>>
    <3>1. <<>> \in Seq(Messages)
      OBVIOUS
    <3>. QED  BY <3>1
  <2>2. QueueGets(d, more)
    BY <2>1
  <2>3. /\ Hits(msgs'.queue, {Scheduled(f, g)}) + (IF d = 1 /\ Head(msgs.queue) = Scheduled(f, g) THEN 1 ELSE 0)
             = Hits(msgs.queue, {Scheduled(f, g)}) + Hits(more, {Scheduled(f, g)})
        /\ Hits(msgs'.queue, {Scheduled(f, g)}) \in Nat /\ Hits(msgs.queue, {Scheduled(f, g)}) \in Nat
    BY <2>2, GetsHits
  <2>4. Hits(more, {Scheduled(f, g)}) = 0
    BY <2>1, HitsEmpty
  <2>5. d = 1 /\ Head(msgs.queue) = Scheduled(f, g) <=> f = r
    BY <1>1, <2>1 DEF Scheduled, Returned
  <2>. QED  BY <2>3, <2>4, <2>5
<1>3. \A f \in Frames : Way(f)' = Held(f, g) + Hits(msgs'.queue, {Scheduled(f, g)})
  BY <1>1 DEF Way, Held, Scheduled
<1>4. \A f \in Frames : Way(f) = Held(f, g) + Hits(msgs.queue, {Scheduled(f, g)}) /\ Held(f, g) \in {0, 1}
  BY <1>1 DEF Way, Held
<1>5. ASSUME NEW f \in Frames PROVE Way(f)' + (IF f = r THEN 1 ELSE 0) = Way(f) /\ Way(f)' \in Nat
  <2>1. PICK x \in Nat, y \in Nat, h \in {0, 1} :
           x = Hits(msgs'.queue, {Scheduled(f, g)}) /\ y = Hits(msgs.queue, {Scheduled(f, g)}) /\ h = Held(f, g)
    BY <1>2, <1>4
  <2>2. x + (IF f = r THEN 1 ELSE 0) = y
    BY <1>2, <2>1
  <2>3. Way(f)' = h + x /\ Way(f) = h + y
    BY <1>3, <1>4, <2>1
  <2>. QED  BY <2>2, <2>3
<1>6. ASSUME NEW f \in Frames, f # r PROVE Way(f)' = Way(f)
  BY <1>5, <1>6
<1>7. Way(r)' = 0
  BY <1>1, <1>5
<1>. QED  BY <1>6, <1>7

LEMMA FramesRendered ==
    ASSUME V4l2Types, V4l2Types', ControlInv, FramesInv, RenderFails
    PROVE  FramesInv'
<1>1. NextIs("schedule") /\ Returned.gen = dec.gen /\ QueueGets(1, <<>>) /\ UNCHANGED <<held, codec>>
  BY BuffersGet DEF RenderFails, Stale
<1>2. PICK r \in Frames : r = Returned.frame /\ owner[r] \in {"us", "client"}
  BY <1>1, ReturnedIs
<1>3. dec'.gen = dec.gen /\ (dec.changing => dec'.changing)
  BY SameGen
<1>4. Way(r)' = 0 /\ \A f \in Frames \ {r} : Way(f)' = Way(f)
  BY <1>1, <1>2, <1>3, WayBack
<1>5. owner'[r] = "window" /\ \A f \in Frames \ {r} : owner'[f] = owner[f]
  BY <1>2 DEF RenderFails, V4l2Types
<1>6. ASSUME NEW f \in Frames PROVE FrameInv(f)'
  <2>1. FrameInv(f)
    BY DEF FramesInv, FrameInv
  <2>2. CASE f # r
    <3>1. FrameKept(f)
      BY <1>1, <1>4, <1>5, <2>2 DEF FrameKept
    <3>. QED  BY <1>3, <2>1, <3>1, FrameStays
  <2>3. CASE f = r
    <3>1. Free(f)' = Free(f) /\ Hits(codec.filled, OutputsOf(f))' = Hits(codec.filled, OutputsOf(f))
      BY <1>1 DEF Free, OutputsOf
    <3>2. Free(f) + Hits(codec.filled, OutputsOf(f)) = 0
      BY <1>2, <2>1, <2>3 DEF FrameInv
    <3>. QED  BY <1>4, <1>5, <2>3, <3>1, <3>2 DEF FrameInv
  <2>. QED  BY <2>2, <2>3
<1>. QED  BY <1>6 DEF FramesInv, FrameInv

LEMMA FramesScheduled ==
    ASSUME V4l2Types, V4l2Types', ControlInv, FramesInv, GensBounded, V4l2Next, OnSchedule, dec'.over = "no"
    PROVE  FramesInv'
<1>1. NextIs("schedule") /\ Returned.gen = dec.gen /\ QueueGets(1, <<>>) /\ UNCHANGED held
  BY BuffersGet DEF OnSchedule, Stale
<1>2. PICK r \in Frames : r = Returned.frame /\ owner[r] \in {"us", "client"}
  BY <1>1, ReturnedIs
<1>3. PICK g \in Exchanges(r) :
        LET own == [owner EXCEPT ![r] = "window", ![g] = "us"]
        IN \/ /\ ~dec.changing /\ owner' = [own EXCEPT ![g] = "codec"] /\ codec' = [codec EXCEPT !.free = @ \cup {g}]
              /\ UNCHANGED dec
           \/ /\ dec.changing /\ owner' = own /\ UNCHANGED <<dec, codec>>
           \/ Reallocates([NextGen(dec) EXCEPT !.changing = FALSE])
           \/ ReallocateFails([NextGen(dec) EXCEPT !.changing = FALSE, !.state = "paused"])
           \/ dec' = [dec EXCEPT !.over = "start"]
  BY <1>2, Zenon DEF OnSchedule
<1>4. g \in Frames /\ (g = r \/ owner[g] = "window")
  BY <1>2, <1>3 DEF Exchanges
<1>5. CASE (\E d : Reallocates(d) /\ d.gen = dec.gen + 1) \/ (\E d : ReallocateFails(d) /\ d.gen = dec.gen + 1)
  <2>1. dec'.gen = dec.gen + 1
    BY <1>5, Zenon DEF Reallocates, ReallocateFails
  <2>2. \A f \in Frames : Way(f)' = 0
    BY <1>1, <2>1, AllGet, WayAnew
  <2>. QED  BY <1>5, <2>2, GivenAnew
<1>6. CASE /\ owner' = [owner EXCEPT ![r] = "window", ![g] = IF dec.changing THEN "us" ELSE "codec"]
           /\ codec' = IF dec.changing THEN codec ELSE [codec EXCEPT !.free = @ \cup {g}]
           /\ UNCHANGED dec
  <2>1. Way(r)' = 0 /\ \A f \in Frames \ {r} : Way(f)' = Way(f)
    BY <1>1, <1>2, <1>6, WayBack
  <2>2. \A f \in Frames : owner'[f] = IF f = g THEN (IF dec.changing THEN "us" ELSE "codec") ELSE IF f = r THEN "window" ELSE owner[f]
    BY <1>2, <1>4, <1>6 DEF V4l2Types
  <2>3. codec'.filled = codec.filled /\ codec'.free = IF dec.changing THEN codec.free ELSE codec.free \cup {g}
    BY <1>6 DEF V4l2Types, CodecRecord
  <2>4. ASSUME NEW f \in Frames PROVE FrameInv(f)'
    <3>1. FrameInv(f)
      BY DEF FramesInv, FrameInv
    <3>2. CASE f # r /\ f # g
      <4>1. FrameKept(f)
        BY <2>1, <2>2, <2>3, <3>2 DEF FrameKept
      <4>. QED  BY <1>6, <3>1, <4>1, FrameStays
    <3>3. CASE f = r \/ f = g
      <4>1. Free(f) = 0 /\ Hits(codec.filled, OutputsOf(f)) = 0
        <5>1. owner[f] # "codec"
          BY <1>2, <1>4, <3>3
        <5>2. Free(f) \in {0, 1} /\ Hits(codec.filled, OutputsOf(f)) \in Nat
          BY V4l2CountsAre
        <5>. QED  BY <3>1, <5>1, <5>2 DEF FrameInv
      <4>2. Hits(codec.filled, OutputsOf(f))' = 0
        BY <2>3, <4>1 DEF OutputsOf
      <4>3. Free(f)' = IF ~dec.changing /\ f = g THEN 1 ELSE 0
        BY <2>3, <4>1 DEF Free
      <4>4. Way(f)' = 0
        BY <1>4, <2>1, <3>1, <3>3 DEF FrameInv
      <4>5. owner'[f] = IF f = g THEN (IF dec.changing THEN "us" ELSE "codec") ELSE "window"
        BY <2>2, <3>3
      <4>6. dec'.changing = dec.changing /\ dec.changing \in BOOLEAN
        BY <1>6, FieldsAre DEF DecFields
      <4>7. CASE f = g /\ ~dec.changing
        BY <4>2, <4>3, <4>4, <4>5, <4>7 DEF FrameInv
      <4>8. CASE f = g /\ dec.changing
        BY <4>2, <4>3, <4>4, <4>5, <4>6, <4>8 DEF FrameInv
      <4>9. CASE f # g
        BY <4>2, <4>3, <4>4, <4>5, <4>9 DEF FrameInv
      <4>. QED  BY <4>7, <4>8, <4>9
    <3>. QED  BY <3>2, <3>3
  <2>. QED  BY <2>4 DEF FramesInv, FrameInv
<1>7. \A c : [[owner EXCEPT ![r] = "window", ![g] = "us"] EXCEPT ![g] = c] = [owner EXCEPT ![r] = "window", ![g] = c]
  BY <1>2, <1>4 DEF V4l2Types
<1>8. dec' # [dec EXCEPT !.over = "start"]
  BY DEF V4l2Types, DecRecord
<1>9. /\ [NextGen(dec) EXCEPT !.changing = FALSE].gen = dec.gen + 1
      /\ [NextGen(dec) EXCEPT !.changing = FALSE, !.state = "paused"].gen = dec.gen + 1
  BY DEF NextGen, V4l2Types, DecRecord
<1>10. CASE ~dec.changing /\ owner' = [owner EXCEPT ![r] = "window", ![g] = "codec"] /\ codec' = [codec EXCEPT !.free = @ \cup {g}]
            /\ UNCHANGED dec
  BY <1>6, <1>10
<1>11. CASE dec.changing /\ owner' = [owner EXCEPT ![r] = "window", ![g] = "us"] /\ UNCHANGED <<dec, codec>>
  BY <1>6, <1>11
<1>. QED  BY <1>3, <1>5, <1>7, <1>8, <1>9, <1>10, <1>11, Zenon

(* A frame goes to the sink, or back to ourselves.                         *)
LEMMA FramesOut ==
    ASSUME V4l2Types, V4l2Types', ControlInv, FramesInv, OutputFrame
    PROVE  FramesInv'
<1>1. codec.filled # <<>> /\ ~dec.changing
  BY DEF OutputFrame
<1>2. PICK r \in Frames : r = Frame.frame /\ owner[r] = "codec" /\ r \notin codec.free
         /\ Hits(Tail(codec.filled), OutputsOf(r)) = 0
         /\ \A f \in Frames \ {r} : Hits(Tail(codec.filled), OutputsOf(f)) = Hits(codec.filled, OutputsOf(f))
  BY <1>1, FilledIs
<1>3. PICK g \in Nat : g = dec.gen
  BY FieldsAre DEF DecFields
<1>4. dec'.gen = g
  BY <1>3, SameGen
<1>5. codec'.filled = Tail(codec.filled) /\ codec'.free = codec.free
  BY DEF OutputFrame, Dequeued, V4l2Types, CodecRecord
<1>6. PICK d \in {0, 1}, more \in Seq(Messages) :
         QueueGets(d, more) /\ (d = 1 => Head(msgs.queue).what = "out")
         /\ more = IF Skipped THEN <<Scheduled(r, g)>> ELSE <<>>
  <2>1. PICK d \in {0, 1}, more \in Seq(Plains) :
         QueueGets(d, more) /\ (d = 1 => Head(msgs.queue).what = "out")
         /\ more = IF Skipped THEN <<Scheduled(r, g)>> ELSE <<>>
    BY <1>2, <1>3, OutputGets
  <2>2. more \in Seq(Messages)
    BY DEF Plains
  <2>. QED  BY <2>1, <2>2
<1>7. /\ Skipped => owner' = [owner EXCEPT ![r] = "us"] /\ held' = held
      /\ ~Skipped => owner' = [owner EXCEPT ![r] = "client"] /\ held' = held \cup {[frame |-> r, gen |-> g]}
  BY <1>2, <1>3, Zenon DEF OutputFrame
<1>8. ASSUME NEW f \in Frames
      PROVE  /\ Hits(msgs'.queue, {Scheduled(f, g)}) = Hits(msgs.queue, {Scheduled(f, g)}) + IF Skipped /\ f = r THEN 1 ELSE 0
             /\ Hits(msgs'.queue, {Scheduled(f, g)}) \in Nat
  <2>1. /\ Hits(msgs'.queue, {Scheduled(f, g)}) + (IF d = 1 /\ Head(msgs.queue) = Scheduled(f, g) THEN 1 ELSE 0)
             = Hits(msgs.queue, {Scheduled(f, g)}) + Hits(more, {Scheduled(f, g)})
        /\ Hits(msgs'.queue, {Scheduled(f, g)}) \in Nat /\ Hits(msgs.queue, {Scheduled(f, g)}) \in Nat
    <3>1. QueueGets(d, more)
      BY <1>6
    <3>. QED  BY <3>1, GetsHits
  <2>2. ~(d = 1 /\ Head(msgs.queue) = Scheduled(f, g))
    BY <1>6 DEF Scheduled
  <2>3. Hits(more, {Scheduled(f, g)}) = IF Skipped /\ f = r THEN 1 ELSE 0
    <3>1. Scheduled(r, g) \in {Scheduled(f, g)} <=> f = r
      BY DEF Scheduled
    <3>2. CASE Skipped
      BY <1>6, <3>1, <3>2, HitsOne
    <3>3. CASE ~Skipped
      BY <1>6, <3>3, HitsEmpty
    <3>. QED  BY <3>2, <3>3
  <2>. QED  BY <2>1, <2>2, <2>3
<1>9. ASSUME NEW f \in Frames
      PROVE  Held(f, g)' = IF ~Skipped /\ f = r THEN 1 ELSE Held(f, g)
  <2>1. [frame |-> f, gen |-> g] = [frame |-> r, gen |-> g] <=> f = r
    <3>1. [frame |-> f, gen |-> g].frame = f /\ [frame |-> r, gen |-> g].frame = r
      OBVIOUS
    <3>. QED  BY <3>1
  <2>2. [frame |-> f, gen |-> g] \in held' <=> [frame |-> f, gen |-> g] \in held \/ (~Skipped /\ f = r)
    BY <1>7, <2>1
  <2>. QED  BY <2>2 DEF Held
<1>10. \A f \in Frames : Way(f)' = Held(f, g)' + Hits(msgs'.queue, {Scheduled(f, g)})
  BY <1>4 DEF Way, Held, Scheduled
<1>11. \A f \in Frames : Way(f) = Held(f, g) + Hits(msgs.queue, {Scheduled(f, g)}) /\ Held(f, g) \in {0, 1}
            /\ Hits(msgs.queue, {Scheduled(f, g)}) \in Nat
  BY <1>3, V4l2CountsAre DEF Way
<1>12. ASSUME NEW f \in Frames PROVE FrameInv(f)'
  <2>1. FrameInv(f)
    BY DEF FramesInv, FrameInv
  <2>a. PICK x \in Nat, y \in Nat, h \in {0, 1}, k \in {0, 1} :
           /\ x = Hits(msgs'.queue, {Scheduled(f, g)}) /\ y = Hits(msgs.queue, {Scheduled(f, g)})
           /\ h = Held(f, g) /\ k = Held(f, g)'
    <3>1. Held(f, g)' \in {0, 1} /\ Held(f, g) \in {0, 1}
      BY <1>9, <1>11
    <3>. QED  BY <1>8, <1>11, <3>1
  <2>b. Way(f)' = k + x /\ Way(f) = h + y
    BY <1>10, <1>11, <2>a
  <2>c. x = y + (IF Skipped /\ f = r THEN 1 ELSE 0) /\ k = IF ~Skipped /\ f = r THEN 1 ELSE h
    BY <1>8, <1>9, <2>a
  <2>2. CASE f # r
    <3>1. Way(f)' = Way(f)
      BY <2>b, <2>c, <2>2
    <3>2. owner'[f] = owner[f]
      BY <1>7, <2>2 DEF V4l2Types
    <3>3. FrameKept(f)
      BY <1>2, <1>5, <2>2, <3>1, <3>2 DEF FrameKept
    <3>. QED  BY <1>1, <2>1, <3>3, FrameStays
  <2>3. CASE f = r
    <3>1. h = 0 /\ y = 0
      <4>1. Way(f) = 0
        BY <1>2, <2>1, <2>3 DEF FrameInv
      <4>. QED  BY <2>b, <4>1
    <3>2. Way(f)' = 1
      BY <2>b, <2>c, <2>3, <3>1
    <3>3. owner'[f] = IF Skipped THEN "us" ELSE "client"
      BY <1>7, <2>3 DEF V4l2Types
    <3>4. Free(f)' = 0 /\ Hits(codec.filled, OutputsOf(f))' = 0
      BY <1>2, <1>5, <2>3 DEF Free, OutputsOf
    <3>. QED  BY <3>2, <3>3, <3>4 DEF FrameInv
  <2>. QED  BY <2>2, <2>3
<1>. QED  BY <1>12 DEF FramesInv, FrameInv

LEMMA FramesKept ==
    ASSUME V4l2Types, V4l2Types', ControlInv, FramesInv, GensBounded, V4l2Next, OutputKept
    PROVE  FramesInv'
<1>1. codec.filled # <<>> /\ dec.changing /\ UNCHANGED held
  BY DEF OutputKept
<1>2. PICK r \in Frames : r = Frame.frame /\ owner[r] = "codec" /\ r \notin codec.free
         /\ Hits(Tail(codec.filled), OutputsOf(r)) = 0
         /\ \A f \in Frames \ {r} : Hits(Tail(codec.filled), OutputsOf(f)) = Hits(codec.filled, OutputsOf(f))
  BY <1>1, FilledIs
<1>3. QuietGets(Quiets)
  BY OthersGet, QuietsMore
<1>4. \/ owner' = [owner EXCEPT ![r] = "us"] /\ codec' = Dequeued /\ UNCHANGED dec
      \/ \E c : Reallocates([NextGen(dec) EXCEPT !.changing = c])
      \/ \E c : ReallocateFails([NextGen(dec) EXCEPT !.changing = c])
  BY <1>2, Zenon DEF OutputKept
<1>5. CASE (\E d : Reallocates(d) /\ d.gen = dec.gen + 1) \/ (\E d : ReallocateFails(d) /\ d.gen = dec.gen + 1)
  <2>1. dec'.gen = dec.gen + 1
    BY <1>5, Zenon DEF Reallocates, ReallocateFails
  <2>2. \A f \in Frames : Way(f)' = 0
    BY <1>1, <2>1, AllGet, WayAnew
  <2>. QED  BY <1>5, <2>2, GivenAnew
<1>6. CASE owner' = [owner EXCEPT ![r] = "us"] /\ codec' = Dequeued /\ UNCHANGED dec
  <2>1. codec'.filled = Tail(codec.filled) /\ codec'.free = codec.free
    BY <1>6 DEF Dequeued, V4l2Types, CodecRecord
  <2>2. \A f \in Frames : Way(f)' = Way(f)
    BY <1>1, <1>3, <1>6, WaySame
  <2>3. ASSUME NEW f \in Frames PROVE FrameInv(f)'
    <3>1. FrameInv(f)
      BY DEF FramesInv, FrameInv
    <3>2. CASE f # r
      <4>1. owner'[f] = owner[f]
        BY <1>6, <3>2 DEF V4l2Types
      <4>2. FrameKept(f)
        BY <1>2, <2>1, <2>2, <3>2, <4>1 DEF FrameKept
      <4>. QED  BY <1>6, <3>1, <4>2, FrameStays
    <3>3. CASE f = r
      <4>1. Way(f)' = 0
        BY <1>2, <2>2, <3>1, <3>3 DEF FrameInv
      <4>2. owner'[f] = "us" /\ dec'.changing
        BY <1>1, <1>6, <3>3 DEF V4l2Types
      <4>3. Free(f)' = 0 /\ Hits(codec.filled, OutputsOf(f))' = 0
        BY <1>2, <2>1, <3>3 DEF Free, OutputsOf
      <4>. QED  BY <4>1, <4>2, <4>3 DEF FrameInv
    <3>. QED  BY <3>2, <3>3
  <2>. QED  BY <2>3 DEF FramesInv, FrameInv
<1>7. \A c : [NextGen(dec) EXCEPT !.changing = c].gen = dec.gen + 1
  BY DEF NextGen, V4l2Types, DecRecord
<1>. QED  BY <1>4, <1>5, <1>6, <1>7, Zenon

(* What the codec gives back at a change of the resolution.                *)
LEMMA FramesGivenBack ==
    ASSUME V4l2Types, V4l2Types', FramesInv, OnHandleResolutionChange
    PROVE  FramesInv'
<1>1. QuietGets(Quiets) /\ UNCHANGED <<owner, held>> /\ dec'.gen = dec.gen /\ (dec.changing => dec'.changing)
  <2>1. QuietGets(Quiets)
    BY TakersGet, QuietsMore
  <2>. QED  BY <2>1, SameGen DEF OnHandleResolutionChange
<1>2. CASE UNCHANGED codec
  BY <1>1, <1>2, FramesKeep
<1>3. CASE codec.event
  <2>1. PICK s \in Seq(Outputs), fs \in SUBSET Frames : s = codec.filled /\ fs = codec.free
    BY FieldsAre DEF CodecFields
  <2>2. IsFiniteSet(fs)
    BY FramesFinite, FS_Subset
  <2> DEFINE B == {[frame |-> f, pkt |-> Packet(NumPackets + 1), last |-> FALSE] : f \in fs}
  <2>3. codec'.free = {} /\ codec'.filled = s \o SetToSeq(B)
    BY <1>3, <2>1 DEF OnHandleResolutionChange, V4l2Types, CodecRecord
  <2>4. IsFiniteSet(B)
    BY <2>2, GivenBackFinite
  <2>5. Packet(NumPackets + 1) \in Packets
    BY FieldsAre, V4l2Assumption DEF Packet, Packets, EosPacket, OtherFields
  <2>6. B \subseteq Outputs /\ \A b \in B : b.frame \in fs /\ b = GivenBack(b.frame)
    <3>1. \A f \in fs : GivenBack(f) \in Outputs /\ GivenBack(f).frame = f
      BY <2>5 DEF Outputs, GivenBack
    <3>2. B = {GivenBack(f) : f \in fs}
      BY DEF GivenBack
    <3> HIDE DEF B
    <3>. QED  BY <3>1, <3>2
  <2>a. \A f \in fs : GivenBack(f) \in B /\ GivenBack(f).frame = f
    BY DEF GivenBack
  <2>7. ASSUME NEW f \in Frames
        PROVE  /\ f \in fs => B \cap OutputsOf(f) = {GivenBack(f)} /\ GivenBack(f) \in B
               /\ f \notin fs => B \cap OutputsOf(f) = {}
    BY <2>6, <2>a DEF OutputsOf
  <2> HIDE DEF B
  <2>8. /\ SetToSeq(B) \in Seq(Outputs)
        /\ \A T : B \cap T = {} => Hits(SetToSeq(B), T) = 0
        /\ \A T : (\E x \in B : B \cap T = {x}) => Hits(SetToSeq(B), T) = 1
    BY <2>4, <2>6, SetToSeqIs
  <2>9. PICK t \in Seq(Outputs) : t = SetToSeq(B)
    BY <2>8
  <2>10. ASSUME NEW f \in Frames PROVE FrameInv(f)'
    <3>1. FrameInv(f)
      BY DEF FramesInv, FrameInv
    <3>2. Hits(t, OutputsOf(f)) = IF f \in fs THEN 1 ELSE 0
      <4>1. CASE f \in fs
        BY <2>7, <2>8, <2>9, <4>1
      <4>2. CASE f \notin fs
        BY <2>7, <2>8, <2>9, <4>2
      <4>. QED  BY <4>1, <4>2
    <3>3. Hits(s \o t, OutputsOf(f)) = Hits(s, OutputsOf(f)) + Hits(t, OutputsOf(f)) /\ Hits(s, OutputsOf(f)) \in Nat
      <4>1. Hits(s \o t, OutputsOf(f)) = Hits(s, OutputsOf(f)) + Hits(t, OutputsOf(f))
        BY HitsConcat
      <4>2. Hits(s, OutputsOf(f)) \in Nat
        BY HitsNat
      <4>. QED  BY <4>1, <4>2
    <3>4. Free(f) = IF f \in fs THEN 1 ELSE 0
      BY <2>1 DEF Free
    <3>5. Hits(codec.filled, OutputsOf(f))' = Free(f) + Hits(codec.filled, OutputsOf(f))
      <4>1. Hits(codec'.filled, OutputsOf(f)) = Free(f) + Hits(codec.filled, OutputsOf(f))
        BY <2>1, <2>3, <2>9, <3>2, <3>3, <3>4
      <4>. QED  BY <4>1 DEF OutputsOf
    <3>6. Free(f)' = 0
      BY <2>3 DEF Free
    <3>7. Way(f)' = Way(f)
      BY <1>1, WaySame
    <3>8. PICK x \in Nat, y \in {0, 1} : x = Hits(codec.filled, OutputsOf(f)) /\ y = Free(f)
      BY <2>1, <3>3, <3>4
    <3>9. Free(f)' + Hits(codec.filled, OutputsOf(f))' = Free(f) + Hits(codec.filled, OutputsOf(f))
      BY <3>5, <3>6, <3>8
    <3>. QED  BY <1>1, <3>1, <3>7, <3>9 DEF FrameInv
  <2>. QED  BY <2>10 DEF FramesInv, FrameInv
<1>. QED  BY <1>2, <1>3 DEF OnHandleResolutionChange

LEMMA FramesDecoded ==
    ASSUME V4l2Types, V4l2Types', FramesInv, CodecGoesOn
    PROVE  FramesInv'
<1>1. QuietGets(Quiets) /\ UNCHANGED <<owner, held, dec>> /\ dec'.gen = dec.gen
  <2>1. QuietGets(Quiets)
    BY OthersGet, QuietsMore
  <2>. QED  BY <2>1 DEF CodecGoesOn
<1>2. CodecStep
  BY DEF CodecGoesOn
<1>3. CASE codec'.free = codec.free /\ codec'.filled = codec.filled
  BY <1>1, <1>3, FramesKeep
<1>4. ASSUME NEW r \in codec.free, NEW o \in Outputs, o.frame = r, codec'.free = codec.free \ {r},
             codec'.filled = Append(codec.filled, o)
      PROVE  FramesInv'
  <2>1. PICK s \in Seq(Outputs) : s = codec.filled
    BY FieldsAre DEF CodecFields
  <2>2. ASSUME NEW f \in Frames PROVE FrameInv(f)'
    <3>1. FrameInv(f)
      BY DEF FramesInv, FrameInv
    <3>2. Hits(Append(s, o), OutputsOf(f)) = Hits(s, OutputsOf(f)) + (IF o \in OutputsOf(f) THEN 1 ELSE 0)
          /\ Hits(s, OutputsOf(f)) \in Nat
      <4>1. Hits(Append(s, o), OutputsOf(f)) = Hits(s, OutputsOf(f)) + (IF o \in OutputsOf(f) THEN 1 ELSE 0)
        BY HitsAppend
      <4>2. Hits(s, OutputsOf(f)) \in Nat
        BY HitsNat
      <4>. QED  BY <4>1, <4>2
    <3>3. o \in OutputsOf(f) <=> f = r
      BY <1>4 DEF OutputsOf
    <3>4. PICK x \in Nat : x = Hits(codec.filled, OutputsOf(f))
      BY <2>1, <3>2
    <3>5. Hits(codec.filled, OutputsOf(f))' = x + IF f = r THEN 1 ELSE 0
      <4>1. Hits(codec'.filled, OutputsOf(f)) = x + IF f = r THEN 1 ELSE 0
        BY <1>4, <2>1, <3>2, <3>3, <3>4
      <4>. QED  BY <4>1 DEF OutputsOf
    <3>6. Free(f)' = (IF f \in codec.free /\ f # r THEN 1 ELSE 0) /\ Free(f) = (IF f \in codec.free THEN 1 ELSE 0)
      BY <1>4 DEF Free
    <3>7. Free(f)' + Hits(codec.filled, OutputsOf(f))' = Free(f) + Hits(codec.filled, OutputsOf(f))
      BY <3>4, <3>5, <3>6
    <3>8. Way(f)' = Way(f)
      BY <1>1, WaySame
    <3>. QED  BY <1>1, <3>1, <3>7, <3>8 DEF FrameInv
  <2>. QED  BY <2>2 DEF FramesInv, FrameInv
<1>. QED  BY <1>2, <1>3, <1>4, CodecStepIs

LEMMA FramesReleased ==
    ASSUME V4l2Types, V4l2Types', FramesInv, ClientReleases
    PROVE  FramesInv'
<1>1. PICK r \in Frames, h \in Nat : /\ [frame |-> r, gen |-> h] \in held
                                     /\ held' = held \ {[frame |-> r, gen |-> h]}
                                     /\ msgs'.queue = Append(msgs.queue, Scheduled(r, h))
  BY ReleaseIs
<1>2. PICK g \in Nat : g = dec.gen /\ dec' = dec
  BY FieldsAre DEF DecFields, ClientReleases
<1>3. UNCHANGED <<owner, codec>>
  BY DEF ClientReleases
<1>4. ASSUME NEW f \in Frames PROVE Way(f)' = Way(f)
  <2>1. PICK q \in Seq(Messages), m \in Messages : q = msgs.queue /\ m = Scheduled(r, h)
    BY MessageIs, FieldsAre DEF OtherFields, Scheduled
  <2>2. Hits(Append(q, m), {Scheduled(f, g)}) = Hits(q, {Scheduled(f, g)}) + (IF m \in {Scheduled(f, g)} THEN 1 ELSE 0)
        /\ Hits(q, {Scheduled(f, g)}) \in Nat
    <3>1. Hits(Append(q, m), {Scheduled(f, g)}) = Hits(q, {Scheduled(f, g)}) + (IF m \in {Scheduled(f, g)} THEN 1 ELSE 0)
      BY HitsAppend
    <3>2. Hits(q, {Scheduled(f, g)}) \in Nat
      BY HitsNat
    <3>. QED  BY <3>1, <3>2
  <2>3. m \in {Scheduled(f, g)} <=> f = r /\ g = h
    <3>1. Scheduled(r, h).frame = r /\ Scheduled(r, h).gen = h /\ Scheduled(f, g).frame = f /\ Scheduled(f, g).gen = g
      BY DEF Scheduled
    <3>. QED  BY <2>1, <3>1
  <2>4. [frame |-> f, gen |-> g] = [frame |-> r, gen |-> h] <=> f = r /\ g = h
    <3>1. [frame |-> f, gen |-> g].frame = f /\ [frame |-> r, gen |-> h].frame = r
          /\ [frame |-> f, gen |-> g].gen = g /\ [frame |-> r, gen |-> h].gen = h
      OBVIOUS
    <3>. QED  BY <3>1
  <2>5. Held(f, g)' = (IF f = r /\ g = h THEN 0 ELSE Held(f, g)) /\ (f = r /\ g = h => Held(f, g) = 1) /\ Held(f, g) \in {0, 1}
    BY <1>1, <2>4 DEF Held
  <2>6. PICK x \in Nat, y \in Nat : x = Hits(msgs.queue, {Scheduled(f, g)}) /\ y = Hits(msgs'.queue, {Scheduled(f, g)})
            /\ y = x + IF f = r /\ g = h THEN 1 ELSE 0
    BY <1>1, <2>1, <2>2, <2>3
  <2>7. Way(f) = Held(f, g) + x /\ Way(f)' = Held(f, g)' + y
    BY <1>2, <2>6 DEF Way, Held, Scheduled
  <2>. QED  BY <2>5, <2>6, <2>7
<1>5. ASSUME NEW f \in Frames PROVE FrameInv(f)'
  <2>1. FrameInv(f)
    BY DEF FramesInv, FrameInv
  <2>2. FrameKept(f)
    BY <1>3, <1>4 DEF FrameKept
  <2>. QED  BY <1>2, <2>1, <2>2, FrameStays
<1>. QED  BY <1>5 DEF FramesInv, FrameInv

LEMMA FramesStarted ==
    ASSUME V4l2Types, V4l2Types', ControlInv, FramesInv, OnStartOutput
    PROVE  FramesInv'
<1>1. QuietGets(Quiets) /\ UNCHANGED held /\ dec'.gen = dec.gen /\ (dec.changing => dec'.changing)
  <2>1. QuietGets(Quiets)
    BY TakersGet, QuietsMore
  <2>. QED  BY <2>1, SameGen DEF OnStartOutput
<1>2. CASE UNCHANGED <<owner, codec>>
  BY <1>1, <1>2, FramesKeep
<1>3. CASE owner' = AllocatedFrames /\ codec' = [CodecWithFrames EXCEPT !.interrupt = FALSE]
  <2>1. 1 \in Queued /\ Kind(1) = "startOutput"
    BY QueueTaken DEF OnStartOutput, NextIs, Kind
  <2>2. \A f \in Frames : owner[f] = "none"
    BY <2>1 DEF ControlInv, StartsInv, Starts
  <2>3. \A f \in Frames : Way(f)' = 0
    BY <1>1, <2>2, WaySame DEF FramesInv
  <2>. QED  BY <1>3, <2>3, GivenAnew
<1>. QED  BY <1>2, <1>3 DEF OnStartOutput

LEMMA FramesFlushed ==
    ASSUME V4l2Types, V4l2Types', ControlInv, FramesInv, GensBounded, V4l2Next,
           (\E d : Flushes(d) /\ d.gen = dec.gen /\ d \in DecRecord) \/ StopJoined \/ ResetJoined, UNCHANGED held
    PROVE  FramesInv'
<1>1. dec'.gen = dec.gen + 1
  <2>1. ASSUME NEW d \in DecRecord, Flushes(d), d.gen = dec.gen PROVE dec'.gen = dec.gen + 1
    BY <2>1 DEF Flushes, NextGen, DecRecord
  <2>. QED  BY <2>1, StoppedIs DEF StopJoined, ResetJoined
<1>2. \A f \in Frames : Way(f)' = 0
  BY <1>1, AllGet, WayAnew
<1>. QED  BY <1>2, GivenAnew

(* A message that is stale holds no buffer of this generation.              *)
LEMMA StaleIsOld ==
    ASSUME V4l2Types, ControlInv, FramesInv, OnScheduleIgnored
    PROVE  QuietGets(Calls)
<1>1. NextIs("schedule") /\ Stale(Returned) /\ msgs.queue # <<>> /\ msgs'.queue = Rest
  BY BuffersGet DEF OnScheduleIgnored
<1>2. Returned.gen # dec.gen
  <2>1. SUFFICES ASSUME Returned.gen = dec.gen PROVE FALSE
    OBVIOUS
  <2>2. dec.state \in Active \cup {"stopping"}
    BY <1>1, <2>1, ReturnedIs
  <2>3. dec.state = "stopping"
    BY <1>1, <2>1, <2>2 DEF Stale, Active
  <2>. QED  BY <1>1, <2>3 DEF ControlInv, PlacesInv, NextIs
<1>. QED  BY <1>1, <1>2, TakenQuietly DEF Returned

LEMMA FramesAlone ==
    ASSUME V4l2Types,
           \/ \E op \in V4l2Ops : V4l2Call(op)
           \/ OnV4l2Prepare \/ OnStartInput \/ OnV4l2Pause \/ OnV4l2Resume
           \/ OnInputIgnored \/ OnHandleInputBuffer \/ OnInputUnlinked \/ ReallocateRefused \/ InputStarves \/ RetryDue
           \/ OnOutputIgnored \/ OutputOver \/ OnScheduleIgnored
           \/ OnV4l2Stop \/ DeferredStop \/ OnV4l2Reset
           \/ PollThread \/ CodecChanges
    PROVE  UNCHANGED <<owner, held>> /\ codec'.free = codec.free /\ codec'.filled = codec.filled
<1> USE DEF V4l2Types, CodecRecord
<1>1. CASE OnHandleInputBuffer
  BY <1>1, InputBufferIs DEF OnHandleInputBuffer
<1>2. CASE OnV4l2Resume \/ OutputOver \/ CodecChanges
  BY <1>2 DEF OnV4l2Resume, OutputOver, CodecChanges
<1>3. CASE OnV4l2Stop \/ DeferredStop \/ OnV4l2Reset
  BY <1>3 DEF OnV4l2Stop, DeferredStop, OnV4l2Reset, TellsThread
<1>4. CASE UNCHANGED <<owner, held, codec>>
  BY <1>4
<1>. QED  BY <1>1, <1>2, <1>3, <1>4
     DEF V4l2Call, OnV4l2Prepare, OnStartInput, OnV4l2Pause, OnInputIgnored, OnInputUnlinked, ReallocateRefused, InputStarves, RetryDue, OnOutputIgnored,
         OnScheduleIgnored, PollThread, PollEnds, PollSleeps, PollPosts

LEMMA FramesStep ==
    ASSUME V4l2Types, V4l2Types', ControlInv, FramesInv, GensBounded, V4l2Next, dec'.over = "no"
    PROVE  FramesInv'
<1>1. CASE \/ \E op \in V4l2Ops : V4l2Call(op)
           \/ OnV4l2Prepare \/ OnStartInput \/ OnV4l2Pause \/ OnV4l2Resume
           \/ OnInputIgnored \/ OnHandleInputBuffer \/ OnInputUnlinked \/ ReallocateRefused \/ InputStarves \/ RetryDue
           \/ OnOutputIgnored \/ OutputOver \/ OnScheduleIgnored
           \/ OnV4l2Stop \/ DeferredStop \/ OnV4l2Reset
           \/ PollThread \/ CodecChanges
  <2>1. QuietGets(Quiets)
    BY <1>1, CommandGets, TakersGet, OthersGet, StaleIsOld, QuietsMore, Zenon
  <2>2. UNCHANGED <<owner, held>> /\ codec'.free = codec.free /\ codec'.filled = codec.filled
    BY <1>1, FramesAlone, Zenon
  <2>3. dec'.gen = dec.gen /\ (dec.changing => dec'.changing)
    BY <1>1, SameGen, Zenon
  <2>. QED  BY <2>1, <2>2, <2>3, FramesKeep
<1>2. CASE OnStartOutput \/ OutputFrame \/ OutputKept \/ OnSchedule \/ RenderFails \/ OnHandleResolutionChange
           \/ CodecGoesOn \/ ClientReleases
  BY <1>2, FramesStarted, FramesOut, FramesKept, FramesScheduled, FramesRendered, FramesGivenBack, FramesDecoded, FramesReleased
<1>3. CASE StopJoined \/ ResetJoined
  BY <1>3, FramesFlushed DEF StopJoined, ResetJoined
<1>4. CASE DeferredFlush
  <2>1. PICK d : d = [dec EXCEPT !.deferred = Tail(@)] /\ Flushes(d)
    BY <1>4 DEF DeferredFlush
  <2>2. Tail(dec.deferred) \in Seq({"flush", "stop"})
    BY <1>4, DeferredIs DEF DeferredFlush
  <2>3. d \in DecRecord /\ d.gen = dec.gen
    BY <2>1, <2>2 DEF V4l2Types, DecRecord
  <2>. QED  BY <1>4, <2>1, <2>3, FramesFlushed DEF DeferredFlush
<1>5. CASE OnV4l2Flush
  <2>1. CASE Flushes(dec)
    BY <1>5, <2>1, FramesFlushed DEF OnV4l2Flush, V4l2Types
  <2>2. CASE UNCHANGED <<owner, codec>> /\ dec'.gen = dec.gen /\ dec'.changing = dec.changing
    <3>1. QuietGets(Quiets)
      BY <1>5, TakersGet, QuietsMore
    <3>. QED  BY <1>5, <2>2, <3>1, FramesKeep DEF OnV4l2Flush
  <2>3. [dec EXCEPT !.deferred = Append(@, "flush")].gen = dec.gen /\ [dec EXCEPT !.deferred = Append(@, "flush")].changing = dec.changing
    BY DEF V4l2Types, DecRecord
  <2>. QED  BY <1>5, <2>1, <2>2, <2>3 DEF OnV4l2Flush
<1>6. CASE V4l2MessageThread
  BY <1>1, <1>2, <1>3, <1>4, <1>5, <1>6, Zenon DEF V4l2MessageThread
<1>. QED  BY <1>1, <1>2, <1>6, Zenon DEF V4l2Next

-----------------------------------------------------------------------------
(* The invariant.                                                          *)
LEMMA V4l2Start ==
    ASSUME V4l2Init
    PROVE  V4l2Inv
<1>1. <<>> \in Seq(Indices) /\ <<>> \in Seq(Messages) /\ <<>> \in Seq(Inputs) /\ <<>> \in Seq(Outputs)
      /\ <<>> \in Seq({"flush", "stop"}) /\ Len(<<>>) = 0
  OBVIOUS
<1>2. V4l2Types
  <2>1. dec \in DecRecord
    BY <1>1 DEF V4l2Init, DecRecord, DecStates
  <2>2. codec \in CodecRecord
    BY <1>1 DEF V4l2Init, CodecRecord
  <2>3. owner \in [Frames -> Owners] /\ indices \in Seq(Indices) /\ held \in SUBSET Buffers /\ v4l2Handler \in V4l2Places
    BY <1>1 DEF V4l2Init, Owners, V4l2Places
  <2>4. msgs \in V4l2MsgsRecord /\ pollThread \in PollRecord
    BY <1>1 DEF V4l2Init, V4l2MsgsRecord, PollRecord
  <2>5. input \in InputRecord /\ pipe \in PipeRecord /\ v4l2Seen \in V4l2SeenRecord
    BY DEF V4l2Init, InputRecord, PipeRecord, V4l2Modes, V4l2SeenRecord
  <2>. QED  BY <2>1, <2>2, <2>3, <2>4, <2>5 DEF V4l2Types
<1>3. Queued = {}
  BY <1>1 DEF V4l2Init, Queued
<1>4. ControlInv
  <2>1. ModeInv /\ StartsInv
    BY <1>3 DEF V4l2Init, ModeInv, StartsInv
  <2>2. PlacesInv /\ OwnersInv
    BY DEF V4l2Init, PlacesInv, OwnersInv
  <2>3. ~StopDeferred /\ ~Joins
    BY <1>1 DEF V4l2Init, StopDeferred, Joins
  <2>4. StopsInv
    BY <1>3, <2>3 DEF V4l2Init, StopsInv
  <2>. QED  BY <2>1, <2>2, <2>4 DEF ControlInv
<1>5. GensBounded /\ InputsInv
  BY <1>3 DEF V4l2Init, GensBounded, InputsInv, Active
<1>6. FramesInv
  <2>1. ASSUME NEW f \in Frames PROVE FrameInv(f)
    <3>1. owner[f] = "none" /\ codec.filled = <<>> /\ codec.free = {} /\ held = {} /\ msgs.queue = <<>>
      BY DEF V4l2Init
    <3>2. Hits(codec.filled, OutputsOf(f)) = 0 /\ Hits(msgs.queue, {Scheduled(f, dec.gen)}) = 0
      BY <3>1, HitsEmpty
    <3>. QED  BY <3>1, <3>2 DEF FrameInv, Free, Way, Held
  <2>. QED  BY <2>1 DEF FramesInv, FrameInv
<1>. QED  BY <1>2, <1>4, <1>5, <1>6 DEF V4l2Inv

LEMMA V4l2Step ==
    ASSUME V4l2Inv, [V4l2Next]_v4l2Vars
    PROVE  V4l2Inv'
<1>1. CASE V4l2Next
  <2>1. dec.over = "no" /\ V4l2Types /\ ControlInv /\ GensBounded /\ InputsInv /\ FramesInv
    BY <1>1 DEF V4l2Next, V4l2Inv
  <2>2. V4l2Types'
    <3>1. v4l2Handler = "deferred" => dec.deferred # <<>>
      BY <2>1 DEF ControlInv, PlacesInv
    <3>. QED  BY <1>1, <2>1, <3>1, TypesStep
  <2>3. ControlInv' /\ GensBounded' /\ InputsInv'
    BY <1>1, <2>1, <2>2, ControlStep, GensStep, InputsStep
  <2>4. dec'.over = "no" => FramesInv'
    BY <1>1, <2>1, <2>2, FramesStep
  <2>. QED  BY <2>2, <2>3, <2>4 DEF V4l2Inv
<1>2. CASE UNCHANGED v4l2Vars
  <2>. USE <1>2 DEF v4l2Vars
  <2>1. V4l2Types' = V4l2Types
    BY DEF V4l2Types
  <2>2. ControlInv' = ControlInv
    BY DEF ControlInv, ModeInv, PlacesInv, OwnersInv, StartsInv, StopsInv, StopAsked, StopDeferred, Joins, Queued, Kind
  <2>3. GensBounded' = GensBounded /\ InputsInv' = InputsInv
    BY DEF GensBounded, InputsInv, EachOnce, InputsOf, Queued
  <2>4. FramesInv' = FramesInv
    BY DEF FramesInv, Free, Way, Held, OutputsOf, Scheduled
  <2>. QED  BY <2>1, <2>2, <2>3, <2>4 DEF V4l2Inv
<1>. QED  BY <1>1, <1>2

(* The counts of the invariant are those of the property.                  *)
LEMMA OnTheWayIs ==
    ASSUME V4l2Types, NEW f \in Frames
    PROVE  OnTheWay(f) = Way(f)
<1>1. PICK g \in Nat : g = dec.gen
  BY FieldsAre DEF DecFields
<1>2. Cardinality({b \in held : b.frame = f /\ b.gen = g}) = Held(f, g)
  <2>1. \A b \in held : b.frame = f /\ b.gen = g <=> b = [frame |-> f, gen |-> g]
    BY DEF V4l2Types, Buffers
  <2>2. {b \in held : b.frame = f /\ b.gen = g} = IF [frame |-> f, gen |-> g] \in held THEN {[frame |-> f, gen |-> g]} ELSE {}
    BY <2>1
  <2>3. \A x : Cardinality({x}) = 1
    BY FS_Singleton
  <2>4. Cardinality({}) = 0
    BY FS_EmptySet
  <2>. QED  BY <2>2, <2>3, <2>4 DEF Held
<1>3. Cardinality({i \in DOMAIN msgs.queue : msgs.queue[i].what = "schedule" /\ msgs.queue[i].frame = f
                                              /\ msgs.queue[i].gen = g})
        = Hits(msgs.queue, {Scheduled(f, g)})
  <2>1. PICK q \in Seq(Messages) : q = msgs.queue
    BY FieldsAre DEF OtherFields
  <2>2. DOMAIN q = 1 .. Len(q) /\ \A i \in 1 .. Len(q) : q[i] \in Messages
    OBVIOUS
  <2>3. \A m \in Messages : m.what = "schedule" /\ m.frame = f /\ m.gen = g <=> m \in {Scheduled(f, g)}
    BY DEF Messages, AnyMessages, Scheduled
  <2>4. {i \in DOMAIN q : q[i].what = "schedule" /\ q[i].frame = f /\ q[i].gen = g}
          = {i \in 1 .. Len(q) : q[i] \in {Scheduled(f, g)}}
    BY <2>2, <2>3
  <2>. QED  BY <2>1, <2>4 DEF Hits
<1>. QED  BY <1>1, <1>2, <1>3, Zenon DEF OnTheWay, Way

LEMMA CodecHasIt ==
    ASSUME V4l2Types, FramesInv, NEW f \in Frames
    PROVE  owner[f] = "codec" <=> f \in codec.free \cup {codec.filled[i].frame : i \in DOMAIN codec.filled}
<1>1. PICK s \in Seq(Outputs) : s = codec.filled
  BY FieldsAre DEF CodecFields
<1>2. PICK x \in Nat, y \in {0, 1} : x = Hits(s, OutputsOf(f)) /\ y = Free(f)
  BY <1>1, V4l2CountsAre
<1>3. y + x = IF owner[f] = "codec" THEN 1 ELSE 0
  BY <1>1, <1>2 DEF FramesInv
<1>4. y = 1 <=> f \in codec.free
  BY <1>2 DEF Free
<1>5. x = 0 <=> \A k \in 1 .. Len(s) : s[k] \notin OutputsOf(f)
  BY <1>2, HitsNone
<1>6. x = 0 <=> f \notin {s[i].frame : i \in DOMAIN s}
  <2>1. DOMAIN s = 1 .. Len(s) /\ \A k \in 1 .. Len(s) : s[k] \in Outputs
    OBVIOUS
  <2>2. \A k \in 1 .. Len(s) : s[k] \in OutputsOf(f) <=> s[k].frame = f
    BY <2>1 DEF OutputsOf
  <2>. QED  BY <1>5, <2>1, <2>2
<1>7. owner[f] = "codec" <=> y = 1 \/ x # 0
  BY <1>3
<1>. QED  BY <1>1, <1>4, <1>6, <1>7

LEMMA InvAccounts ==
    ASSUME V4l2Inv
    PROVE  BuffersAccounted
<1>1. V4l2Types
  BY DEF V4l2Inv
<1>2. FramesAccounted
  <2>1. SUFFICES ASSUME dec.over = "no", NEW f \in Frames
                 PROVE  /\ owner[f] = "codec" <=> f \in codec.free \cup {codec.filled[i].frame : i \in DOMAIN codec.filled}
                        /\ owner[f] = "client" \/ (owner[f] = "us" /\ ~dec.changing) => OnTheWay(f) = 1
                        /\ owner[f] \in {"none", "codec", "window"} => OnTheWay(f) = 0
    BY Zenon DEF FramesAccounted
  <2>2. FramesInv
    BY <2>1 DEF V4l2Inv
  <2>3. owner[f] = "codec" <=> f \in codec.free \cup {codec.filled[i].frame : i \in DOMAIN codec.filled}
    BY <1>1, <2>2, CodecHasIt
  <2>4. OnTheWay(f) = Way(f)
    BY <1>1, OnTheWayIs
  <2>. QED  BY <2>2, <2>3, <2>4 DEF FramesInv
<1>3. InputsAccounted
  <2>1. SUFFICES ASSUME dec.state \in {"play", "playing", "paused"}, NEW i \in Indices
                 PROVE  Cardinality({k \in DOMAIN indices : indices[k] = i})
                        + Cardinality({k \in DOMAIN codec.in : codec.in[k].idx = i})
                        + Cardinality({k \in DOMAIN codec.done : codec.done[k] = i}) = 1
    BY Zenon DEF InputsAccounted
  <2>2. Hits(indices, {i}) + Hits(codec.in, InputsOf(i)) + Hits(codec.done, {i}) = 1
    BY <2>1 DEF V4l2Inv, InputsInv, EachOnce, Active
  <2>3. ASSUME NEW s \in Seq(Indices) PROVE Cardinality({k \in DOMAIN s : s[k] = i}) = Hits(s, {i})
    <3>1. {k \in DOMAIN s : s[k] = i} = {k \in 1 .. Len(s) : s[k] \in {i}}
      OBVIOUS
    <3>. QED  BY <3>1 DEF Hits
  <2>4. ASSUME NEW s \in Seq(Inputs) PROVE Cardinality({k \in DOMAIN s : s[k].idx = i}) = Hits(s, InputsOf(i))
    <3>1. \A k \in 1 .. Len(s) : s[k].idx = i <=> s[k] \in InputsOf(i)
      BY DEF InputsOf
    <3>2. {k \in DOMAIN s : s[k].idx = i} = {k \in 1 .. Len(s) : s[k] \in InputsOf(i)}
      BY <3>1
    <3>. QED  BY <3>2 DEF Hits
  <2>5. indices \in Seq(Indices) /\ codec.in \in Seq(Inputs) /\ codec.done \in Seq(Indices)
    BY <1>1, FieldsAre DEF V4l2Types, CodecFields
  <2>. QED  BY <2>2, <2>3, <2>4, <2>5
<1>. QED  BY <1>2, <1>3 DEF BuffersAccounted

LEMMA V4l2Invariant == V4l2Spec => []V4l2Inv
  BY V4l2Start, V4l2Step, PTL DEF V4l2Spec

(* The decoder's and the codec's records, the queue and the lists hold what *)
(* they are meant to hold (video_decode_v4l2.h).                            *)
THEOREM VideoDecodeTypes == V4l2Spec => []V4l2TypeOK
<1>1. V4l2Inv => V4l2TypeOK
  BY RecordsAreV4l2Types DEF V4l2Inv
<1>. QED  BY <1>1, V4l2Invariant, PTL

(* However many frames and input buffers there are, and in whatever order   *)
(* the reader, the codec, the window, the sink, the poll thread and the      *)
(* pipeline's commands come: mOutputFrames is right about every frame, the  *)
(* sink's frames come back in one buffer of this generation each, and no     *)
(* input buffer is lost or given to the codec twice.                        *)
THEOREM VideoBuffersAccounted == V4l2Spec => []BuffersAccounted
  BY V4l2Invariant, InvAccounts, PTL

-----------------------------------------------------------------------------
(* The order of the frames.  The end of the stream has the place behind the *)
(* last packet; the codec's input is what was read last, without a gap; its  *)
(* output lies between what was taken from it last and its input.           *)
Place(p) == IF p.n = EosPacket THEN NumPackets + 1 ELSE p.n

ReadChain(in, pos, e) ==
    /\ pos <= NumPackets + 2 /\ Len(in) < pos
    /\ \A k \in 1 .. Len(in) :
         /\ in[k].pkt.epoch = e /\ in[k].pkt.n <= NumPackets
         /\ Place(in[k].pkt) = pos - Len(in) + (k - 1)

FilledChain(out, last, next, e) ==
    /\ \A k \in 1 .. Len(out) :
         /\ out[k].pkt.epoch = e /\ out[k].pkt.n <= NumPackets
         /\ last < Place(out[k].pkt) /\ Place(out[k].pkt) < next
         /\ out[k].last <=> out[k].pkt.n = EosPacket
    /\ \A j, k \in 1 .. Len(out) : j < k => Place(out[j].pkt) < Place(out[k].pkt)

NoGap(out, last, next, ended) ==
    /\ \A k \in 1 .. Len(out) : Place(out[k].pkt) = last + k
    /\ next = last + Len(out) + 1 \/ ended

FromTarget(p) == p.n = EosPacket \/ p.n >= SeekTarget

PastTarget(in, out, pos) ==
    /\ pos = 1 \/ pos >= SeekTarget \/ pos > NumPackets
    /\ \A k \in 1 .. Len(in) : FromTarget(in[k].pkt)
    /\ \A k \in 1 .. Len(out) : FromTarget(out[k].pkt)

Before == input.pos - Len(codec.in)
ReadAll == input.pos = NumPackets + 2 /\ codec.in = <<>>

OrderInv ==
    dec.state \in Active =>
        /\ ReadChain(codec.in, input.pos, input.epoch)
        /\ v4l2Seen.last < Before
        /\ ~dec.changing => FilledChain(codec.filled, v4l2Seen.last, Before, input.epoch)
        /\ ~dec.changing /\ ~v4l2Seen.lossy => NoGap(codec.filled, v4l2Seen.last, Before, ReadAll)
        /\ input.epoch > 0 /\ dec.target = -1 => PastTarget(codec.in, codec.filled, input.pos)

(* Frames are lost only where the history says so, nothing that was put off  *)
(* is carried out while the port is changing, and a decoder that has not been *)
(* started has read nothing.                                               *)
ChangeInv ==
    /\ dec.changing => v4l2Seen.lossy
    /\ v4l2Handler = "deferred" => ~dec.changing
    /\ dec.state \in {"null", "prepared"} => input.pos = 1 /\ v4l2Seen.last = 0

-----------------------------------------------------------------------------
LEMMA PlaceIs ==
    ASSUME NEW p \in Packets
    PROVE  /\ Place(p) \in Nat \ {0}
           /\ p.n <= NumPackets => Place(p) <= NumPackets + 1 /\ (p.n = EosPacket <=> Place(p) = NumPackets + 1)
           /\ p.n # EosPacket => Place(p) = p.n
  BY V4l2Assumption DEF Place, Packets, EosPacket

LEMMA JoinedIs ==
    ASSUME NEW S, NEW s \in Seq(S), NEW t \in Seq(S)
    PROVE  \E u \in Seq(S) : u = s \o t
<1>1. s \o t \in Seq(S)
  OBVIOUS
<1>. QED  BY <1>1, Zenon

LEMMA ReadNone ==
    ASSUME NEW in, in = <<>>, NEW pos \in Nat \ {0}, pos <= NumPackets + 2, NEW e
    PROVE  ReadChain(in, pos, e)
  BY DEF ReadChain

LEMMA FilledNone ==
    ASSUME NEW out, out = <<>>, NEW last, NEW next, NEW e
    PROVE  FilledChain(out, last, next, e)
  BY DEF FilledChain

(* The codec takes the first of its input.                                 *)
LEMMA ReadTaken ==
    ASSUME NEW in \in Seq(Inputs), in # <<>>, NEW pos \in Nat \ {0}, NEW e, ReadChain(in, pos, e)
    PROVE  /\ ReadChain(Tail(in), pos, e) /\ Len(Tail(in)) = Len(in) - 1
           /\ Head(in).pkt.epoch = e /\ Head(in).pkt.n <= NumPackets /\ Place(Head(in).pkt) = pos - Len(in)
           /\ Head(in).pkt.n = EosPacket => Tail(in) = <<>> /\ pos = NumPackets + 2
<1>1. /\ Tail(in) \in Seq(Inputs) /\ Len(in) > 0 /\ Len(Tail(in)) = Len(in) - 1
      /\ Head(in) = in[1] /\ Head(in) \in Inputs /\ \A i \in 1 .. Len(in) - 1 : Tail(in)[i] = in[i + 1]
  BY TailIs
<1>2. PICK t \in Seq(Inputs) : t = Tail(in)
  BY <1>1
<1>a. PICK l \in Nat : l = Len(in)
  OBVIOUS
<1>3. Len(t) = l - 1 /\ l > 0 /\ 1 \in 1 .. l /\ \A k \in 1 .. Len(t) : t[k] = in[k + 1] /\ k + 1 \in 1 .. l
  BY <1>1, <1>2, <1>a
<1>4. pos <= NumPackets + 2 /\ l < pos /\ \A k \in 1 .. l : /\ in[k].pkt.epoch = e /\ in[k].pkt.n <= NumPackets
                                                            /\ Place(in[k].pkt) = pos - l + (k - 1)
  BY <1>a DEF ReadChain
<1>5. ASSUME NEW k \in 1 .. Len(t)
      PROVE  t[k].pkt.epoch = e /\ t[k].pkt.n <= NumPackets /\ Place(t[k].pkt) = pos - Len(t) + (k - 1)
  <2>1. k + 1 \in 1 .. l /\ t[k] = in[k + 1]
    BY <1>3
  <2>2. Place(in[k + 1].pkt) = pos - l + k
    BY <1>4, <2>1
  <2>3. pos - l + k = pos - Len(t) + (k - 1)
    BY <1>3
  <2>. QED  BY <1>4, <2>1, <2>2, <2>3
<1>6. ReadChain(t, pos, e)
  <2>1. Len(t) < pos
    BY <1>3, <1>4
  <2>. QED  BY <1>4, <1>5, <2>1 DEF ReadChain
<1>7. Head(in).pkt.epoch = e /\ Head(in).pkt.n <= NumPackets /\ Place(Head(in).pkt) = pos - l
  BY <1>1, <1>3, <1>4
<1>8. ASSUME Head(in).pkt.n = EosPacket
      PROVE  t = <<>> /\ pos = NumPackets + 2
  <2>1. Head(in).pkt \in Packets
    BY <1>1 DEF Inputs
  <2>2. pos - l = NumPackets + 1
    BY <1>7, <1>8, <2>1, PlaceIs
  <2>3. l = 1 /\ pos = NumPackets + 2
    BY <1>3, <1>4, <2>2, V4l2Assumption
  <2>. QED  BY <1>3, <2>3
<1>. QED  BY <1>1, <1>2, <1>a, <1>6, <1>7, <1>8

(* The reader's next packets are put behind it.                            *)
LEMMA ReadOn ==
    ASSUME NEW in \in Seq(Inputs), NEW t \in Seq(Inputs), NEW pos \in Nat \ {0}, NEW e \in Nat, ReadChain(in, pos, e),
           pos + Len(t) <= NumPackets + 2,
           \A k \in 1 .. Len(t) : t[k].pkt = [n |-> IF pos + (k - 1) > NumPackets THEN EosPacket ELSE pos + (k - 1), epoch |-> e]
    PROVE  /\ ReadChain(in \o t, pos + Len(t), e) /\ Len(in \o t) = Len(in) + Len(t)
           /\ \A k \in 1 .. Len(t) : Place(t[k].pkt) = pos + (k - 1)
<1>1. PICK u \in Seq(Inputs) : u = in \o t
  BY JoinedIs
<1>a. Len(in) \in Nat /\ Len(t) \in Nat
  OBVIOUS
<1>b. PICK l \in Nat, m \in Nat : l = Len(in) /\ m = Len(t)
  BY <1>a, Zenon
<1>2. l \in Nat /\ m \in Nat /\ l = Len(in) /\ m = Len(t)
  BY <1>a, <1>b
<1>3. Len(u) = l + m /\ (\A k \in 1 .. l : u[k] = in[k]) /\ \A k \in 1 .. m : u[l + k] = t[k]
  BY <1>1, <1>2
<1>4. l < pos /\ \A k \in 1 .. l : in[k].pkt.epoch = e /\ in[k].pkt.n <= NumPackets /\ Place(in[k].pkt) = pos - l + (k - 1)
  BY <1>2 DEF ReadChain
<1>5. ASSUME NEW k \in 1 .. m
      PROVE  t[k].pkt.epoch = e /\ t[k].pkt.n <= NumPackets /\ Place(t[k].pkt) = pos + (k - 1)
  <2>1. PICK i \in Nat \ {0} : i = pos + (k - 1)
    BY <1>2
  <2>2. i <= NumPackets + 1
    BY <1>2, <2>1, V4l2Assumption
  <2>3. t[k].pkt = [n |-> IF i > NumPackets THEN EosPacket ELSE i, epoch |-> e]
    BY <1>2, <2>1
  <2>. QED  BY <2>1, <2>2, <2>3, V4l2Assumption DEF Place, EosPacket
<1>6. ASSUME NEW k \in 1 .. Len(u)
      PROVE  u[k].pkt.epoch = e /\ u[k].pkt.n <= NumPackets /\ Place(u[k].pkt) = (pos + m) - Len(u) + (k - 1)
  <2>0. (pos + m) - Len(u) = pos - l
    BY <1>3
  <2>1. CASE k <= l
    <3>1. k \in 1 .. l /\ u[k] = in[k]
      BY <1>3, <2>1
    <3>. QED  BY <1>4, <2>0, <3>1
  <2>2. CASE ~(k <= l)
    <3>0. k \in 1 .. l + m
      BY <1>3
    <3>1. PICK j \in 1 .. m : k = l + j
      <4>1. k \in Nat /\ k - l \in 1 .. m /\ k = l + (k - l)
        BY <1>2, <2>2, <3>0
      <4>. QED  BY <4>1
    <3>2. u[k] = t[j]
      BY <1>3, <3>1
    <3>3. pos + (j - 1) = pos - l + (k - 1)
      BY <3>1
    <3>. QED  BY <1>5, <2>0, <3>2, <3>3
  <2>. QED  BY <2>1, <2>2
<1>7. ReadChain(u, pos + m, e)
  <2>1. Len(u) < pos + m
    BY <1>3, <1>4
  <2>. QED  BY <1>2, <1>6, <2>1 DEF ReadChain
<1>. QED  BY <1>1, <1>2, <1>3, <1>5, <1>7

LEMMA OutputPlaces ==
    ASSUME NEW out \in Seq(Outputs), NEW k \in 1 .. Len(out)
    PROVE  out[k] \in Outputs /\ out[k].pkt \in Packets /\ Place(out[k].pkt) \in Nat
<1>1. out[k] \in Outputs
  OBVIOUS
<1>2. out[k].pkt \in Packets
  BY <1>1 DEF Outputs
<1>. QED  BY <1>1, <1>2, PlaceIs

(* The front of the output is shown or skipped.                            *)
LEMMA FilledTaken ==
    ASSUME NEW out \in Seq(Outputs), out # <<>>, NEW last \in Nat, NEW next \in Nat, NEW e, FilledChain(out, last, next, e),
           NEW l2 \in Nat, l2 = IF Head(out).last THEN last ELSE Head(out).pkt.n
    PROVE  /\ FilledChain(Tail(out), l2, next, e) /\ l2 < next
           /\ Head(out).pkt.epoch = e /\ Head(out).pkt.n <= NumPackets /\ last < Place(Head(out).pkt)
           /\ Head(out).last <=> Head(out).pkt.n = EosPacket
           /\ \A k \in 1 .. Len(Tail(out)) : /\ Place(Head(out).pkt) < Place(Tail(out)[k].pkt)
                                             /\ Tail(out)[k] \in Outputs /\ Tail(out)[k].pkt.n <= NumPackets
<1>1. /\ Tail(out) \in Seq(Outputs) /\ Len(out) > 0 /\ Len(Tail(out)) = Len(out) - 1
      /\ Head(out) = out[1] /\ Head(out) \in Outputs /\ \A i \in 1 .. Len(out) - 1 : Tail(out)[i] = out[i + 1]
  BY TailIs
<1>2. PICK t \in Seq(Outputs) : t = Tail(out)
  BY <1>1
<1>3. PICK m \in Nat : m = Len(out)
  OBVIOUS
<1>4. Len(t) = m - 1 /\ m > 0 /\ 1 \in 1 .. m /\ \A k \in 1 .. Len(t) : t[k] = out[k + 1] /\ k + 1 \in 1 .. m /\ 1 < k + 1
  BY <1>1, <1>2, <1>3
<1>5. \A k \in 1 .. m : /\ out[k].pkt.epoch = e /\ out[k].pkt.n <= NumPackets
                        /\ last < Place(out[k].pkt) /\ Place(out[k].pkt) < next
                        /\ out[k].last <=> out[k].pkt.n = EosPacket
  BY <1>3 DEF FilledChain
<1>6. \A j, k \in 1 .. m : j < k => Place(out[j].pkt) < Place(out[k].pkt)
  BY <1>3 DEF FilledChain
<1>7. \A k \in 1 .. m : out[k] \in Outputs /\ Place(out[k].pkt) \in Nat
  BY <1>3, OutputPlaces
<1>8. PICK p \in Nat : p = Place(out[1].pkt)
  BY <1>4, <1>7
<1>9. out[1].pkt \in Packets /\ out[1].pkt.n <= NumPackets /\ (out[1].pkt.n # EosPacket => p = out[1].pkt.n)
  BY <1>4, <1>5, <1>7, <1>8, PlaceIs DEF Outputs
<1>10. last < p /\ p < next /\ l2 <= p
  BY <1>1, <1>4, <1>5, <1>8, <1>9
<1>11. ASSUME NEW k \in 1 .. Len(t)
       PROVE  /\ t[k].pkt.epoch = e /\ t[k].pkt.n <= NumPackets /\ t[k] \in Outputs
              /\ p < Place(t[k].pkt) /\ l2 < Place(t[k].pkt) /\ Place(t[k].pkt) < next
              /\ t[k].last <=> t[k].pkt.n = EosPacket
  <2>1. t[k] = out[k + 1] /\ k + 1 \in 1 .. m /\ 1 < k + 1
    BY <1>4
  <2>2. p < Place(t[k].pkt) /\ Place(t[k].pkt) \in Nat
    BY <1>4, <1>6, <1>7, <1>8, <2>1
  <2>3. l2 < Place(t[k].pkt)
    BY <1>10, <2>2
  <2>. QED  BY <1>5, <1>7, <2>1, <2>2, <2>3
<1>12. ASSUME NEW j \in 1 .. Len(t), NEW k \in 1 .. Len(t), j < k
       PROVE  Place(t[j].pkt) < Place(t[k].pkt)
  <2>1. t[j] = out[j + 1] /\ t[k] = out[k + 1] /\ j + 1 \in 1 .. m /\ k + 1 \in 1 .. m
    BY <1>4
  <2>2. j + 1 < k + 1
    BY <1>12
  <2>. QED  BY <1>6, <2>1, <2>2
<1>13. FilledChain(t, l2, next, e)
  BY <1>11, <1>12 DEF FilledChain
<1>14. /\ out[1].pkt.epoch = e /\ out[1].pkt.n <= NumPackets /\ last < Place(out[1].pkt)
       /\ out[1].last <=> out[1].pkt.n = EosPacket
  BY <1>4, <1>5
<1>15. l2 < next
  BY <1>10
<1>. QED  BY <1>1, <1>2, <1>8, <1>11, <1>13, <1>14, <1>15

LEMMA NoGapTaken ==
    ASSUME NEW out \in Seq(Outputs), out # <<>>, NEW last \in Nat, NEW next \in Nat, NEW e, FilledChain(out, last, next, e),
           NEW ended \in BOOLEAN, NoGap(out, last, next, ended), next <= NumPackets + 2, next = NumPackets + 2 => ended,
           NEW l2 \in Nat, l2 = IF Head(out).last THEN last ELSE Head(out).pkt.n
    PROVE  /\ NoGap(Tail(out), l2, next, ended)
           /\ Head(out).pkt.n # EosPacket => Head(out).pkt.n = last + 1
<1>1. /\ Tail(out) \in Seq(Outputs) /\ Len(out) > 0 /\ Len(Tail(out)) = Len(out) - 1
      /\ Head(out) = out[1] /\ Head(out) \in Outputs /\ \A i \in 1 .. Len(out) - 1 : Tail(out)[i] = out[i + 1]
  BY TailIs
<1>2. PICK t \in Seq(Outputs) : t = Tail(out)
  BY <1>1
<1>3. PICK m \in Nat : m = Len(out)
  OBVIOUS
<1>4. Len(t) = m - 1 /\ m > 0 /\ 1 \in 1 .. m /\ \A k \in 1 .. Len(t) : t[k] = out[k + 1] /\ k + 1 \in 1 .. m
  BY <1>1, <1>2, <1>3
<1>5. (\A k \in 1 .. m : Place(out[k].pkt) = last + k) /\ (next = last + m + 1 \/ ended)
  BY <1>3 DEF NoGap
<1>6. Head(out).pkt \in Packets /\ Head(out).pkt.n <= NumPackets /\ (Head(out).last <=> Head(out).pkt.n = EosPacket)
      /\ Place(Head(out).pkt) = last + 1 /\ \A k \in 1 .. m : Place(out[k].pkt) < next
  BY <1>1, <1>3, <1>4, <1>5 DEF FilledChain, Outputs
<1>7. CASE Head(out).pkt.n # EosPacket
  <2>1. Head(out).pkt.n = last + 1 /\ l2 = last + 1
    BY <1>6, <1>7, PlaceIs
  <2>0. PICK n \in Nat : n = Len(t)
    <3>1. Len(t) \in Nat
      OBVIOUS
    <3>. QED  BY <3>1, Zenon
  <2>2. ASSUME NEW k \in 1 .. Len(t) PROVE Place(t[k].pkt) = l2 + k
    <3>1. Place(t[k].pkt) = last + (k + 1)
      BY <1>4, <1>5
    <3>2. PICK j \in Nat : j = k
      BY <2>0
    <3>3. l2 = last + 1
      BY <2>1, Zenon
    <3>4. last + (j + 1) = l2 + j
      BY <3>3
    <3>. QED  BY <3>1, <3>2, <3>4
  <2>3. last + m + 1 = l2 + Len(t) + 1
    <3>0. Len(t) = m - 1
      BY <1>4, Zenon
    <3>1. n = m - 1
      BY <2>0, <3>0, Zenon
    <3>2. last + m + 1 = l2 + n + 1
      BY <2>1, <3>1
    <3>. QED  BY <2>0, <3>2
  <2>. QED  BY <1>2, <1>5, <2>1, <2>2, <2>3 DEF NoGap
<1>8. CASE Head(out).pkt.n = EosPacket
  <2>1. last + 1 = NumPackets + 1 /\ l2 = last
    BY <1>6, <1>8, PlaceIs
  <2>2. m = 1
    <3>1. last + m < next
      BY <1>4, <1>5, <1>6
    <3>. QED  BY <1>4, <2>1, <3>1, V4l2Assumption
  <2>3. Len(t) = 0
    BY <1>4, <2>2
  <2>4. ended
    BY <1>5, <2>1, <2>2, V4l2Assumption
  <2>. QED  BY <1>2, <1>8, <2>3, <2>4 DEF NoGap
<1>. QED  BY <1>7, <1>8

(* A decoded frame is put behind the others.                               *)
LEMMA FilledMore ==
    ASSUME NEW out \in Seq(Outputs), NEW o \in Outputs, NEW last \in Nat, NEW next \in Nat, NEW e, FilledChain(out, last, next, e),
           last < next, o.pkt.epoch = e, o.pkt.n <= NumPackets, Place(o.pkt) = next, o.last <=> o.pkt.n = EosPacket
    PROVE  /\ FilledChain(Append(out, o), last, next + 1, e)
           /\ \A ended : NoGap(out, last, next, FALSE) => NoGap(Append(out, o), last, next + 1, ended)
<1>a. PICK u \in Seq(Outputs) : u = Append(out, o)
  BY AppendIs
<1>b. PICK m \in Nat : m = Len(out)
  OBVIOUS
<1>1. u \in Seq(Outputs) /\ m \in Nat /\ u = Append(out, o) /\ m = Len(out)
  BY <1>a, <1>b
<1>2. Len(u) = m + 1 /\ (\A k \in 1 .. m : u[k] = out[k]) /\ u[m + 1] = o
  BY <1>1
<1>3. \A k \in 1 .. m : /\ out[k].pkt.epoch = e /\ out[k].pkt.n <= NumPackets
                        /\ last < Place(out[k].pkt) /\ Place(out[k].pkt) < next /\ Place(out[k].pkt) \in Nat
                        /\ out[k].last <=> out[k].pkt.n = EosPacket
  BY <1>1, OutputPlaces DEF FilledChain
<1>4. \A j, k \in 1 .. m : j < k => Place(out[j].pkt) < Place(out[k].pkt)
  BY <1>1 DEF FilledChain
<1>5. ASSUME NEW k \in 1 .. Len(u)
      PROVE  /\ u[k].pkt.epoch = e /\ u[k].pkt.n <= NumPackets
             /\ last < Place(u[k].pkt) /\ Place(u[k].pkt) < next + 1
             /\ u[k].last <=> u[k].pkt.n = EosPacket
  <2>1. CASE k \in 1 .. m
    BY <1>2, <1>3, <2>1
  <2>2. CASE k = m + 1
    BY <1>2, <2>2
  <2>. QED  BY <1>1, <1>2, <2>1, <2>2
<1>6. ASSUME NEW j \in 1 .. Len(u), NEW k \in 1 .. Len(u), j < k
      PROVE  Place(u[j].pkt) < Place(u[k].pkt)
  <2>1. j \in 1 .. m
    BY <1>1, <1>2, <1>6
  <2>2. CASE k \in 1 .. m
    BY <1>2, <1>4, <1>6, <2>1, <2>2
  <2>3. CASE k = m + 1
    BY <1>2, <1>3, <2>1, <2>3
  <2>. QED  BY <1>1, <1>2, <2>2, <2>3
<1>7. FilledChain(u, last, next + 1, e)
  BY <1>5, <1>6 DEF FilledChain
<1>8. ASSUME NoGap(out, last, next, FALSE), NEW ended
      PROVE  NoGap(u, last, next + 1, ended)
  <2>1. (\A k \in 1 .. m : Place(out[k].pkt) = last + k) /\ next = last + m + 1
    BY <1>1, <1>8 DEF NoGap
  <2>2. ASSUME NEW k \in 1 .. Len(u) PROVE Place(u[k].pkt) = last + k
    <3>1. CASE k \in 1 .. m
      BY <1>2, <2>1, <3>1
    <3>2. CASE k = m + 1
      BY <1>2, <2>1, <3>2
    <3>. QED  BY <1>1, <1>2, <3>1, <3>2
  <2>3. next + 1 = last + Len(u) + 1
    BY <1>2, <2>1
  <2>. QED  BY <2>2, <2>3 DEF NoGap
<1>. QED  BY <1>1, <1>7, <1>8

(* One place more before the codec's input.                                *)
LEMMA FilledBefore ==
    ASSUME NEW out \in Seq(Outputs), NEW last \in Nat, NEW next \in Nat, NEW e, FilledChain(out, last, next, e)
    PROVE  FilledChain(out, last, next + 1, e)
<1>1. \A k \in 1 .. Len(out) : Place(out[k].pkt) \in Nat
  BY OutputPlaces
<1>2. \A k \in 1 .. Len(out) : Place(out[k].pkt) < next => Place(out[k].pkt) < next + 1
  BY <1>1
<1>. QED  BY <1>2 DEF FilledChain

LEMMA TargetTaken ==
    ASSUME NEW in \in Seq(Inputs), NEW out \in Seq(Outputs), NEW pos, in # <<>>, PastTarget(in, out, pos)
    PROVE  PastTarget(Tail(in), out, pos) /\ FromTarget(Head(in).pkt)
<1>1. /\ Tail(in) \in Seq(Inputs) /\ Len(in) > 0 /\ Len(Tail(in)) = Len(in) - 1
      /\ Head(in) = in[1] /\ \A i \in 1 .. Len(in) - 1 : Tail(in)[i] = in[i + 1]
  BY TailIs
<1>2. 1 \in 1 .. Len(in) /\ \A k \in 1 .. Len(Tail(in)) : k + 1 \in 1 .. Len(in) /\ Tail(in)[k] = in[k + 1]
  BY <1>1
<1>3. \A k \in 1 .. Len(in) : FromTarget(in[k].pkt)
  BY DEF PastTarget
<1>4. \A k \in 1 .. Len(Tail(in)) : FromTarget(Tail(in)[k].pkt)
  BY <1>2, <1>3
<1>5. FromTarget(Head(in).pkt)
  BY <1>1, <1>2, <1>3
<1>. QED  BY <1>4, <1>5 DEF PastTarget

LEMMA TargetMore ==
    ASSUME NEW in, NEW out \in Seq(Outputs), NEW pos, NEW o \in Outputs, FromTarget(o.pkt), PastTarget(in, out, pos)
    PROVE  PastTarget(in, Append(out, o), pos)
<1>1. Len(Append(out, o)) = Len(out) + 1 /\ (\A i \in 1 .. Len(out) : Append(out, o)[i] = out[i]) /\ Append(out, o)[Len(out) + 1] = o
  BY AppendIs
<1>2. ASSUME NEW k \in 1 .. Len(Append(out, o)) PROVE FromTarget(Append(out, o)[k].pkt)
  <2>1. CASE k \in 1 .. Len(out)
    BY <1>1, <2>1 DEF PastTarget
  <2>2. CASE k = Len(out) + 1
    BY <1>1, <2>2
  <2>. QED  BY <1>1, <2>1, <2>2
<1>. QED  BY <1>2 DEF PastTarget

LEMMA TargetFewer ==
    ASSUME NEW in, NEW out \in Seq(Outputs), out # <<>>, NEW pos, PastTarget(in, out, pos)
    PROVE  PastTarget(in, Tail(out), pos) /\ FromTarget(Head(out).pkt)
<1>1. /\ Tail(out) \in Seq(Outputs) /\ Len(out) > 0 /\ Len(Tail(out)) = Len(out) - 1
      /\ Head(out) = out[1] /\ \A i \in 1 .. Len(out) - 1 : Tail(out)[i] = out[i + 1]
  BY TailIs
<1>2. 1 \in 1 .. Len(out) /\ \A k \in 1 .. Len(Tail(out)) : k + 1 \in 1 .. Len(out) /\ Tail(out)[k] = out[k + 1]
  BY <1>1
<1>3. \A k \in 1 .. Len(out) : FromTarget(out[k].pkt)
  BY DEF PastTarget
<1>4. \A k \in 1 .. Len(Tail(out)) : FromTarget(Tail(out)[k].pkt)
  BY <1>2, <1>3
<1>5. FromTarget(Head(out).pkt)
  BY <1>1, <1>2, <1>3
<1>. QED  BY <1>4, <1>5 DEF PastTarget

LEMMA TargetLost ==
    ASSUME NEW in, NEW out, NEW pos, PastTarget(in, out, pos)
    PROVE  PastTarget(in, <<>>, pos)
  BY DEF PastTarget

(* The first frame that is shown reaches the target, so do all behind it.    *)
LEMMA TargetReached ==
    ASSUME NEW in \in Seq(Inputs), NEW out \in Seq(Outputs), out # <<>>, NEW pos \in Nat \ {0}, NEW e, NEW last \in Nat,
           ReadChain(in, pos, e), FilledChain(out, last, pos - Len(in), e), FromTarget(Head(out).pkt),
           Head(out).pkt.n = EosPacket => SeekTarget = 0 \/ pos = NumPackets + 2
    PROVE  PastTarget(in, Tail(out), pos)
<1>1. PICK l \in Nat : l = Len(in)
  <2>1. Len(in) \in Nat
    OBVIOUS
  <2>. QED  BY <2>1, Zenon
<1>2. pos <= NumPackets + 2 /\ l < pos /\ \A k \in 1 .. l : in[k].pkt.n <= NumPackets /\ Place(in[k].pkt) = pos - l + (k - 1)
  BY <1>1 DEF ReadChain
<1>3. PICK next \in Nat : next = pos - l
  BY <1>2
<1>4. PICK p \in Packets : p = Head(out).pkt
  <2>1. Head(out) \in Outputs
    BY TailIs
  <2>. QED  BY <2>1 DEF Outputs
<1>5. /\ p.n <= NumPackets
      /\ \A k \in 1 .. Len(Tail(out)) : /\ Place(p) < Place(Tail(out)[k].pkt) /\ Tail(out)[k] \in Outputs
                                        /\ Tail(out)[k].pkt.n <= NumPackets
  <2>1. PICK l2 \in Nat : l2 = IF Head(out).last THEN last ELSE p.n
    BY <1>4 DEF Packets
  <2>. QED  BY <1>1, <1>3, <1>4, <2>1, FilledTaken
<1>6. Place(p) \in Nat /\ Place(p) < next
  <2>1. 1 \in 1 .. Len(out) /\ Head(out) = out[1]
    BY TailIs
  <2>. QED  BY <1>1, <1>3, <1>4, <2>1, PlaceIs DEF FilledChain
<1>7. ASSUME NEW q \in Packets, q.n <= NumPackets, Place(p) < Place(q)
      PROVE  FromTarget(q)
  <2>1. CASE p.n # EosPacket
    <3>1. Place(p) = p.n /\ p.n >= SeekTarget /\ p.n \in Nat
      BY <1>4, <2>1, PlaceIs DEF FromTarget, Packets
    <3>2. q.n = EosPacket \/ q.n > p.n
      BY <1>7, <3>1, PlaceIs
    <3>. QED  BY <3>1, <3>2, V4l2Assumption DEF FromTarget, Packets
  <2>2. CASE p.n = EosPacket
    <3>1. Place(p) = NumPackets + 1
      BY <1>5, <2>2, PlaceIs
    <3>2. Place(q) <= NumPackets + 1 /\ Place(q) \in Nat
      BY <1>7, PlaceIs
    <3>. QED  BY <1>7, <3>1, <3>2, V4l2Assumption
  <2>. QED  BY <2>1, <2>2
<1>8. \A k \in 1 .. Len(Tail(out)) : FromTarget(Tail(out)[k].pkt)
  BY <1>5, <1>7 DEF Outputs
<1>9. ASSUME NEW k \in 1 .. l PROVE FromTarget(in[k].pkt)
  <2>0. in[k] \in Inputs
    BY <1>1
  <2>1. in[k].pkt \in Packets
    BY <2>0 DEF Inputs
  <2>2. Place(in[k].pkt) = next + (k - 1)
    BY <1>2, <1>3
  <2>3. Place(p) < Place(in[k].pkt)
    BY <1>1, <1>6, <2>2
  <2>. QED  BY <1>2, <1>7, <2>1, <2>3
<1>10. pos = 1 \/ pos >= SeekTarget \/ pos > NumPackets
  <2>1. CASE p.n # EosPacket
    <3>1. Place(p) = p.n /\ p.n >= SeekTarget /\ p.n \in Nat
      BY <1>4, <2>1, PlaceIs DEF FromTarget, Packets
    <3>2. p.n < pos
      BY <1>1, <1>3, <1>6, <3>1
    <3>. QED  BY <3>1, <3>2, V4l2Assumption
  <2>2. CASE p.n = EosPacket
    BY <1>4, <2>2, V4l2Assumption
  <2>. QED  BY <2>1, <2>2
<1>. QED  BY <1>1, <1>8, <1>9, <1>10 DEF PastTarget

LEMMA TargetRead ==
    ASSUME NEW in \in Seq(Inputs), NEW t \in Seq(Inputs), NEW out, NEW pos \in Nat \ {0}, NEW e \in Nat, ReadChain(in, pos, e),
           pos + Len(t) <= NumPackets + 2, PastTarget(in, out, pos), Len(t) > 0 /\ pos = 1 => NumPackets = 0,
           \A k \in 1 .. Len(t) : t[k].pkt = [n |-> IF pos + (k - 1) > NumPackets THEN EosPacket ELSE pos + (k - 1), epoch |-> e]
    PROVE  PastTarget(in \o t, out, pos + Len(t))
<1>1. PICK l \in Nat, m \in Nat : l = Len(in) /\ m = Len(t)
  <2>1. Len(in) \in Nat /\ Len(t) \in Nat
    OBVIOUS
  <2>. QED  BY <2>1, Zenon
<1>2. PICK u \in Seq(Inputs) : u = in \o t
  BY JoinedIs
<1>3. Len(u) = l + m /\ (\A k \in 1 .. l : u[k] = in[k]) /\ \A k \in 1 .. m : u[l + k] = t[k]
  BY <1>1, <1>2
<1>4. \A k \in 1 .. l : FromTarget(in[k].pkt)
  BY <1>1 DEF PastTarget
<1>5. pos = 1 \/ pos >= SeekTarget \/ pos > NumPackets
  BY DEF PastTarget
<1>6. ASSUME NEW k \in 1 .. m PROVE FromTarget(t[k].pkt)
  <2>1. PICK i \in Nat : i = pos + (k - 1)
    BY <1>1
  <2>a. t[k].pkt = [n |-> IF i > NumPackets THEN EosPacket ELSE i, epoch |-> e]
    BY <1>1, <2>1
  <2>2. t[k].pkt.n = IF i > NumPackets THEN EosPacket ELSE i
    BY <2>a
  <2>3. i >= pos /\ m > 0
    BY <1>1, <2>1
  <2>4. i > NumPackets \/ i >= SeekTarget
    BY <1>1, <1>5, <2>1, <2>3, V4l2Assumption
  <2>. QED  BY <2>2, <2>4 DEF FromTarget
<1>7. ASSUME NEW k \in 1 .. Len(u) PROVE FromTarget(u[k].pkt)
  <2>1. CASE k <= l
    BY <1>3, <1>4, <2>1
  <2>2. CASE ~(k <= l)
    <3>0. k \in Nat /\ k - l \in 1 .. m /\ k = l + (k - l)
      BY <1>1, <1>3, <2>2
    <3>. QED  BY <1>3, <1>6, <3>0
  <2>. QED  BY <2>1, <2>2
<1>8. pos + m = 1 \/ pos + m >= SeekTarget \/ pos + m > NumPackets
  BY <1>1, <1>5, V4l2Assumption
<1>9. \A k \in 1 .. Len(out) : FromTarget(out[k].pkt)
  BY DEF PastTarget
<1>. QED  BY <1>1, <1>2, <1>7, <1>8, <1>9 DEF PastTarget

-----------------------------------------------------------------------------
(* What most actions leave as it is.                                       *)
OrderKept ==
    /\ codec'.in = codec.in /\ codec'.filled = codec.filled
    /\ input'.pos = input.pos /\ input'.epoch = input.epoch
    /\ v4l2Seen'.last = v4l2Seen.last /\ v4l2Seen'.lossy = v4l2Seen.lossy
    /\ dec'.changing = dec.changing /\ dec'.target = dec.target

LEMMA OrderSame ==
    ASSUME OrderInv, ChangeInv, OrderKept, v4l2Handler' = "deferred" => v4l2Handler = "deferred",
           dec'.state \in Active => dec.state \in Active,
           dec'.state \in {"null", "prepared"} => dec.state \in {"null", "prepared"}
    PROVE  OrderInv' /\ ChangeInv'
<1>1. OrderInv'
  BY DEF OrderInv, OrderKept, Before, ReadAll
<1>2. ChangeInv'
  BY DEF ChangeInv, OrderKept
<1>. QED  BY <1>1, <1>2

(* Commands but flush, answers, polls and what the sink lets go.           *)
LEMMA OrderAlone ==
    ASSUME V4l2Types,
           \/ \E op \in V4l2Ops : V4l2Call(op)
           \/ OnV4l2Prepare \/ OnV4l2Pause \/ OnV4l2Resume
           \/ OnInputIgnored \/ OnInputUnlinked \/ ReallocateRefused \/ InputStarves \/ RetryDue
           \/ OnOutputIgnored \/ OutputOver \/ OnScheduleIgnored \/ RenderFails
           \/ OnV4l2Stop \/ DeferredStop \/ OnV4l2Reset
           \/ PollThread \/ CodecChanges \/ ClientReleases
    PROVE  OrderKept /\ (v4l2Handler' = "deferred" => v4l2Handler = "deferred")
<1>1. CASE (\E op \in V4l2Ops : V4l2Call(op)) \/ CodecChanges
  <2>1. UNCHANGED <<dec, input, v4l2Handler>> /\ v4l2Seen'.last = v4l2Seen.last /\ v4l2Seen'.lossy = v4l2Seen.lossy
    BY <1>1 DEF V4l2Call, CodecChanges, V4l2Types, V4l2SeenRecord
  <2>2. codec'.in = codec.in /\ codec'.filled = codec.filled
    BY <1>1 DEF V4l2Call, CodecChanges, V4l2Types, CodecRecord
  <2>. QED  BY <2>1, <2>2 DEF OrderKept
<1>2. CASE OnV4l2Prepare \/ OnV4l2Pause \/ OnV4l2Resume
  <2>1. dec'.changing = dec.changing /\ dec'.target = dec.target
    BY <1>2 DEF OnV4l2Prepare, OnV4l2Pause, OnV4l2Resume, V4l2Types, DecRecord
  <2>2. codec'.in = codec.in /\ codec'.filled = codec.filled
    BY <1>2 DEF OnV4l2Prepare, OnV4l2Pause, OnV4l2Resume, V4l2Types, CodecRecord
  <2>3. UNCHANGED <<input, v4l2Handler, v4l2Seen>>
    BY <1>2 DEF OnV4l2Prepare, OnV4l2Pause, OnV4l2Resume, Notify
  <2>. QED  BY <2>1, <2>2, <2>3 DEF OrderKept
<1>3. CASE OnInputIgnored \/ RetryDue \/ OnOutputIgnored \/ OnScheduleIgnored \/ PollThread \/ ClientReleases
  BY <1>3 DEF OnInputIgnored, RetryDue, OnOutputIgnored, OnScheduleIgnored, PollThread, PollEnds, PollSleeps, PollPosts,
              ClientReleases, OrderKept
<1>4. CASE OnInputUnlinked \/ ReallocateRefused \/ RenderFails
  <2>1. dec'.changing = dec.changing /\ dec'.target = dec.target
    BY <1>4 DEF OnInputUnlinked, ReallocateRefused, RenderFails, V4l2Types, DecRecord
  <2>2. UNCHANGED <<codec, input, v4l2Handler, v4l2Seen>>
    BY <1>4 DEF OnInputUnlinked, ReallocateRefused, RenderFails
  <2>. QED  BY <2>1, <2>2 DEF OrderKept
<1>5. CASE OutputOver
  <2>1. dec'.changing = dec.changing /\ dec'.target = dec.target
    BY <1>5 DEF OutputOver, V4l2Types, DecRecord
  <2>2. codec'.in = codec.in /\ codec'.filled = codec.filled
    BY <1>5 DEF OutputOver, V4l2Types, CodecRecord
  <2>3. v4l2Seen'.last = v4l2Seen.last /\ v4l2Seen'.lossy = v4l2Seen.lossy
    BY <1>5 DEF OutputOver, V4l2Types, V4l2SeenRecord
  <2>4. UNCHANGED input /\ v4l2Handler' = "idle"
    BY <1>5 DEF OutputOver
  <2>. QED  BY <2>1, <2>2, <2>3, <2>4 DEF OrderKept
<1>6. CASE OnV4l2Stop \/ DeferredStop \/ OnV4l2Reset
  <2>1. dec'.changing = dec.changing /\ dec'.target = dec.target
    BY <1>6 DEF OnV4l2Stop, DeferredStop, OnV4l2Reset, TellsThread, Closed, V4l2Types, DecRecord
  <2>2. codec'.in = codec.in /\ codec'.filled = codec.filled
    BY <1>6 DEF OnV4l2Stop, DeferredStop, OnV4l2Reset, TellsThread, V4l2Types, CodecRecord
  <2>3. UNCHANGED <<input, v4l2Seen>> /\ v4l2Handler' \in {v4l2Handler, "join", "joinReset"}
    BY <1>6 DEF OnV4l2Stop, DeferredStop, OnV4l2Reset, Notify
  <2>. QED  BY <2>1, <2>2, <2>3 DEF OrderKept
<1>7. CASE InputStarves
  BY <1>7 DEF InputStarves, OrderKept
<1>. QED  BY <1>1, <1>2, <1>3, <1>4, <1>5, <1>6, <1>7

(* A decoder none of whose frames is the codec's has no output.            *)
LEMMA NothingFilled ==
    ASSUME V4l2Types, FramesInv, \A f \in Frames : owner[f] = "none"
    PROVE  codec.filled = <<>>
<1>1. PICK s \in Seq(Outputs) : s = codec.filled
  BY FieldsAre DEF CodecFields
<1>2. ASSUME s # <<>> PROVE FALSE
  <2>1. s[1] \in Outputs /\ 1 \in 1 .. Len(s)
    BY <1>2
  <2>2. PICK f \in Frames : f = s[1].frame
    BY <2>1 DEF Outputs
  <2>3. Hits(s, OutputsOf(f)) = 0
    <3>1. Free(f) + Hits(s, OutputsOf(f)) = 0
      BY <1>1 DEF FramesInv
    <3>2. Hits(s, OutputsOf(f)) \in Nat /\ Free(f) \in {0, 1}
      BY HitsNat DEF Free
    <3>. QED  BY <3>1, <3>2
  <2>4. s[1] \notin OutputsOf(f)
    BY <2>1, <2>3, HitsNone
  <2>. QED  BY <2>1, <2>2, <2>4 DEF OutputsOf
<1>. QED  BY <1>1, <1>2

LEMMA OrderStarted ==
    ASSUME V4l2Types, ControlInv, FramesInv, InputsInv, OrderInv, ChangeInv, OnStartInput
    PROVE  OrderInv' /\ ChangeInv'
<1>1. 1 \in Queued /\ Kind(1) = "startInput"
  BY QueueTaken DEF OnStartInput, NextIs, Kind
<1>2. dec.state = "prepared" /\ \A f \in Frames : owner[f] = "none"
  BY <1>1 DEF ControlInv, StartsInv, Starts
<1>3. codec.in = <<>> /\ codec.filled = <<>> /\ input.pos = 1 /\ v4l2Seen.last = 0
  BY <1>2, NothingFilled DEF InputsInv, ChangeInv
<1>4. UNCHANGED <<codec, input, v4l2Seen, v4l2Handler>> /\ dec'.changing = dec.changing /\ dec'.state = "play"
  BY DEF OnStartInput, V4l2Types, DecRecord
<1>5. Before = 1 /\ Before' = 1
  BY <1>3, <1>4 DEF Before
<1>6. OrderInv'
  <2>1. ReadChain(codec'.in, input'.pos, input'.epoch)
    BY <1>3, <1>4, V4l2Assumption DEF ReadChain
  <2>2. FilledChain(codec'.filled, v4l2Seen'.last, Before', input'.epoch)
    BY <1>3, <1>4, FilledNone
  <2>3. NoGap(codec'.filled, v4l2Seen'.last, Before', ReadAll')
    BY <1>3, <1>4, <1>5 DEF NoGap
  <2>4. PastTarget(codec'.in, codec'.filled, input'.pos)
    BY <1>3, <1>4 DEF PastTarget
  <2>5. v4l2Seen'.last < Before'
    BY <1>3, <1>4, <1>5
  <2>. QED  BY <2>1, <2>2, <2>3, <2>4, <2>5 DEF OrderInv
<1>7. ChangeInv'
  BY <1>4 DEF ChangeInv
<1>. QED  BY <1>6, <1>7

LEMMA OrderStartedOut ==
    ASSUME V4l2Types, ControlInv, FramesInv, OnStartOutput
    PROVE  OrderKept /\ UNCHANGED v4l2Handler
<1>1. 1 \in Queued /\ Kind(1) = "startOutput"
  BY QueueTaken DEF OnStartOutput, NextIs, Kind
<1>2. codec.filled = <<>>
  <2>1. \A f \in Frames : owner[f] = "none"
    BY <1>1 DEF ControlInv, StartsInv, Starts
  <2>. QED  BY <2>1, NothingFilled
<1>3. codec'.in = codec.in /\ codec'.filled = codec.filled
  BY <1>2 DEF OnStartOutput, CodecWithFrames, V4l2Types, CodecRecord
<1>4. dec'.changing = dec.changing /\ dec'.target = dec.target
  BY DEF OnStartOutput, V4l2Types, DecRecord
<1>5. UNCHANGED <<input, v4l2Seen, v4l2Handler>>
  BY DEF OnStartOutput, Notify
<1>. QED  BY <1>3, <1>4, <1>5 DEF OrderKept

-----------------------------------------------------------------------------
LEMMA OrderFields ==
    ASSUME V4l2Types
    PROVE  /\ codec.in \in Seq(Inputs) /\ codec.filled \in Seq(Outputs) /\ input.pos \in Nat \ {0} /\ input.epoch \in Nat
           /\ v4l2Seen.last \in Nat /\ v4l2Seen.lossy \in BOOLEAN /\ dec.changing \in BOOLEAN /\ dec.target \in {-1, SeekTarget}
           /\ dec.state \in DecStates
  BY SMTT(30) DEF V4l2Types, CodecRecord, InputRecord, V4l2SeenRecord, DecRecord

(* What the handler reads.                                                 *)
LEMMA ReaderGives ==
    ASSUME V4l2Types, OnHandleInputBuffer
    PROVE  /\ UNCHANGED <<v4l2Handler>> /\ codec'.filled = codec.filled /\ input'.epoch = input.epoch
           /\ v4l2Seen'.last = v4l2Seen.last /\ v4l2Seen'.lossy = v4l2Seen.lossy
           /\ dec'.changing = dec.changing /\ dec'.state = dec.state /\ dec.state \in Active
           /\ \E t \in Seq(Inputs) :
                /\ codec'.in = codec.in \o t /\ input'.pos = input.pos + Len(t)
                /\ Len(t) = 0 \/ input.pos + Len(t) <= NumPackets + 2
                /\ \A k \in 1 .. Len(t) :
                     t[k].pkt = [n |-> IF input.pos + (k - 1) > NumPackets THEN EosPacket ELSE input.pos + (k - 1),
                                 epoch |-> input.epoch]
                /\ \/ dec'.target = dec.target /\ (Len(t) > 0 /\ input.pos = 1 /\ input.epoch > 0 => NumPackets = 0)
                   \/ dec'.target = SeekTarget
<1>1. PICK k \in 0 .. InputRoom, tooBig \in BOOLEAN :
         /\ codec' = [codec EXCEPT !.done = <<>>,
                         !.in = @ \o [i \in 1 .. k |-> [idx |-> Usable[i], pkt |-> Packet(input.pos + i - 1)]]]
         /\ input' = [input EXCEPT !.pos = @ + k]
         /\ dec' = [dec EXCEPT !.eos = IF k > 0 /\ input.pos + k = NumPackets + 2 THEN "input" ELSE @,
                               !.target = IF input.pos = 1 /\ input.epoch > 0 /\ (tooBig \/ (k > 0 /\ NumPackets > 0))
                                         THEN SeekTarget ELSE @]
         /\ \E n, m : v4l2Seen' = [v4l2Seen EXCEPT !.stalls = n, !.tooBig = m]
  BY Zenon DEF OnHandleInputBuffer
<1>2. Usable \in Seq(Indices)
  BY InputBufferIs
<1>3. k \in Nat /\ k <= Len(Usable) /\ (k = 0 \/ input.pos + k <= NumPackets + 2)
  <2>1. PICK l \in Nat, p \in Nat : l = Len(Usable) /\ p = input.pos
    <3>1. Len(Usable) \in Nat /\ input.pos \in Nat
      BY <1>2, OrderFields
    <3>. QED  BY <3>1, Zenon
  <2>2. InputRoom = IF dec.eos # "none" THEN 0 ELSE IF NumPackets + 2 - p < l THEN NumPackets + 2 - p ELSE l
    BY <2>1 DEF InputRoom
  <2>3. PICK n \in Int : n = NumPackets + 2 - p
    BY V4l2Assumption
  <2>4. InputRoom = IF dec.eos # "none" THEN 0 ELSE IF n < l THEN n ELSE l
    BY <2>2, <2>3
  <2>5. PICK r \in Int : r = InputRoom /\ r <= l /\ (r > 0 => r <= n)
    BY <2>4
  <2>6. k \in 0 .. r
    BY <2>5
  <2>7. k \in Nat /\ k <= l
    BY <2>5, <2>6
  <2>8. k = 0 \/ k <= n
    BY <2>5, <2>6
  <2>9. k = 0 \/ p + k <= NumPackets + 2
    BY <2>3, <2>7, <2>8, V4l2Assumption
  <2>. QED  BY <2>1, <2>7, <2>9
<1>4. PICK t \in Seq(Inputs) : t = [i \in 1 .. k |-> [idx |-> Usable[i], pkt |-> Packet(input.pos + i - 1)]]
  <2>1. \A i \in 1 .. k : Usable[i] \in Indices
    BY <1>2, <1>3
  <2>2. \A n \in Nat : Packet(n) \in Packets
    BY OrderFields DEF Packet, Packets, EosPacket
  <2>3. \A i \in 1 .. k : input.pos + i - 1 \in Nat
    BY <1>3, OrderFields
  <2>4. [i \in 1 .. k |-> [idx |-> Usable[i], pkt |-> Packet(input.pos + i - 1)]] \in Seq(Inputs)
    BY <1>3, <2>1, <2>2, <2>3 DEF Inputs
  <2>. QED  BY <2>4
<1>5. codec'.in = codec.in \o t /\ codec'.filled = codec.filled
  BY <1>1, <1>4 DEF V4l2Types, CodecRecord
<1>6. Len(t) = k
  BY <1>3, <1>4
<1>7. ASSUME NEW j \in 1 .. k
      PROVE  t[j].pkt = [n |-> IF input.pos + (j - 1) > NumPackets THEN EosPacket ELSE input.pos + (j - 1), epoch |-> input.epoch]
  <2>1. t[j].pkt = Packet(input.pos + j - 1)
    BY <1>3, <1>4
  <2>2. input.pos + j - 1 = input.pos + (j - 1)
    BY <1>3, OrderFields
  <2>. QED  BY <2>1, <2>2 DEF Packet
<1>8. input'.pos = input.pos + k /\ input'.epoch = input.epoch
  BY <1>1 DEF V4l2Types, InputRecord
<1>9. v4l2Seen'.last = v4l2Seen.last /\ v4l2Seen'.lossy = v4l2Seen.lossy
  BY <1>1 DEF V4l2Types, V4l2SeenRecord
<1>10. /\ dec'.changing = dec.changing /\ dec'.state = dec.state
       /\ dec'.target = IF input.pos = 1 /\ input.epoch > 0 /\ (tooBig \/ (k > 0 /\ NumPackets > 0))
                        THEN SeekTarget ELSE dec.target
  BY <1>1 DEF V4l2Types, DecRecord
<1>11. dec.state \in Active /\ UNCHANGED v4l2Handler
  BY DEF OnHandleInputBuffer, HandlesInput, Runs, Active
<1>12. \/ dec'.target = dec.target /\ (k > 0 /\ input.pos = 1 /\ input.epoch > 0 => NumPackets = 0)
       \/ dec'.target = SeekTarget
  BY <1>10, V4l2Assumption
<1>13. \A j \in 1 .. Len(t) :
          t[j].pkt = [n |-> IF input.pos + (j - 1) > NumPackets THEN EosPacket ELSE input.pos + (j - 1), epoch |-> input.epoch]
  BY <1>6, <1>7
<1>. QED  BY <1>3, <1>5, <1>6, <1>8, <1>9, <1>10, <1>11, <1>12, <1>13, Zenon

LEMMA OrderRead ==
    ASSUME V4l2Types, OrderInv, ChangeInv, OnHandleInputBuffer
    PROVE  OrderInv' /\ ChangeInv'
<1>1. PICK t \in Seq(Inputs) :
        /\ codec'.in = codec.in \o t /\ input'.pos = input.pos + Len(t)
        /\ Len(t) = 0 \/ input.pos + Len(t) <= NumPackets + 2
        /\ \A k \in 1 .. Len(t) :
             t[k].pkt = [n |-> IF input.pos + (k - 1) > NumPackets THEN EosPacket ELSE input.pos + (k - 1),
                         epoch |-> input.epoch]
        /\ \/ dec'.target = dec.target /\ (Len(t) > 0 /\ input.pos = 1 /\ input.epoch > 0 => NumPackets = 0)
           \/ dec'.target = SeekTarget
  BY ReaderGives
<1>2. /\ UNCHANGED <<v4l2Handler>> /\ codec'.filled = codec.filled /\ input'.epoch = input.epoch
      /\ v4l2Seen'.last = v4l2Seen.last /\ v4l2Seen'.lossy = v4l2Seen.lossy
      /\ dec'.changing = dec.changing /\ dec'.state = dec.state /\ dec.state \in Active
  BY ReaderGives
<1>3. PICK in \in Seq(Inputs), out \in Seq(Outputs), pos \in Nat \ {0}, e \in Nat :
         in = codec.in /\ out = codec.filled /\ pos = input.pos /\ e = input.epoch
  BY OrderFields, Zenon
<1>4. ReadChain(in, pos, e) /\ pos <= NumPackets + 2
  BY <1>2, <1>3 DEF OrderInv, ReadChain
<1>5. PICK m \in Nat : m = Len(t)
  <2>1. Len(t) \in Nat
    OBVIOUS
  <2>. QED  BY <2>1, Zenon
<1>6. pos + Len(t) <= NumPackets + 2
  BY <1>1, <1>3, <1>4, <1>5, V4l2Assumption
<1>7. \A k \in 1 .. Len(t) : t[k].pkt = [n |-> IF pos + (k - 1) > NumPackets THEN EosPacket ELSE pos + (k - 1), epoch |-> e]
  BY <1>1, <1>3
<1>8. ReadChain(in \o t, pos + Len(t), e) /\ Len(in \o t) = Len(in) + Len(t)
  BY <1>4, <1>6, <1>7, ReadOn
<1>9. codec'.in = in \o t /\ input'.pos = pos + Len(t)
  BY <1>1, <1>3
<1>10. Before' = Before
  <2>1. PICK l \in Nat : l = Len(in)
    <3>1. Len(in) \in Nat
      OBVIOUS
    <3>. QED  BY <3>1, Zenon
  <2>2. pos + m - (l + m) = pos - l
    BY <2>1
  <2>3. Before' = (pos + m) - (l + m)
    BY <1>5, <1>8, <1>9, <2>1 DEF Before
  <2>4. Before = pos - l
    BY <1>3, <2>1 DEF Before
  <2>. QED  BY <2>2, <2>3, <2>4
<1>11. ReadAll => ReadAll'
  <2>1. CASE ReadAll
    <3>1. in = <<>> /\ m = 0
      BY <1>3, <1>5, <1>6, <2>1, V4l2Assumption DEF ReadAll
    <3>2. Len(t) = 0
      BY <1>5, <3>1
    <3>a. t = <<>>
      BY <3>2
    <3>b. <<>> \o <<>> = <<>>
      OBVIOUS
    <3>c. in \o t = <<>>
      BY <3>1, <3>a, <3>b
    <3>d. codec'.in = <<>> /\ input'.pos = NumPackets + 2
      BY <1>3, <1>9, <2>1, <3>2, <3>c DEF ReadAll
    <3>. QED  BY <3>d DEF ReadAll
  <2>. QED  BY <2>1
<1>12. OrderInv'
  <2>1. ReadChain(codec'.in, input'.pos, input'.epoch)
    BY <1>2, <1>3, <1>8, <1>9
  <2>2. v4l2Seen'.last < Before'
    BY <1>2, <1>10 DEF OrderInv
  <2>3. ~dec'.changing => FilledChain(codec'.filled, v4l2Seen'.last, Before', input'.epoch)
    BY <1>2, <1>10 DEF OrderInv
  <2>4. ~dec'.changing /\ ~v4l2Seen'.lossy => NoGap(codec'.filled, v4l2Seen'.last, Before', ReadAll')
    BY <1>2, <1>10, <1>11 DEF OrderInv, NoGap
  <2>5. input'.epoch > 0 /\ dec'.target = -1 => PastTarget(codec'.in, codec'.filled, input'.pos)
    <3>1. SUFFICES ASSUME input'.epoch > 0, dec'.target = -1 PROVE PastTarget(in \o t, out, pos + Len(t))
      BY <1>2, <1>3, <1>9
    <3>2. dec.target = -1 /\ (Len(t) > 0 /\ pos = 1 => NumPackets = 0)
      BY <1>1, <1>2, <1>3, <3>1, V4l2Assumption
    <3>3. PastTarget(in, out, pos)
      BY <1>2, <1>3, <3>1, <3>2 DEF OrderInv
    <3>. QED  BY <1>4, <1>6, <1>7, <3>2, <3>3, TargetRead
  <2>. QED  BY <2>1, <2>2, <2>3, <2>4, <2>5 DEF OrderInv
<1>13. ChangeInv'
  BY <1>2 DEF ChangeInv, Active
<1>. QED  BY <1>12, <1>13

(* The sink gets a frame, or it is skipped.                                *)
LEMMA OutputMoves ==
    ASSUME V4l2Types, ControlInv, OutputFrame
    PROVE  /\ dec.state \in Active /\ ~dec.changing /\ ~dec'.changing /\ codec.filled # <<>>
           /\ codec'.in = codec.in /\ codec'.filled = Tail(codec.filled) /\ UNCHANGED input /\ v4l2Handler' # "deferred"
           /\ v4l2Seen'.last = (IF Frame.last THEN v4l2Seen.last ELSE Frame.pkt.n) /\ v4l2Seen'.lossy = v4l2Seen.lossy
           /\ dec'.target = IF Skipped THEN dec.target ELSE -1
           /\ dec'.state \in Active
<1>1. dec.state \in Active
  BY HandlesOutputIs DEF OutputFrame
<1>2. dec'.state \in {dec.state, "paused"}
  BY OutputState
<1>3. codec'.in = codec.in /\ codec'.filled = Tail(codec.filled)
  BY DEF OutputFrame, Dequeued, V4l2Types, CodecRecord
<1>4. v4l2Seen'.last = (IF Frame.last THEN v4l2Seen.last ELSE Frame.pkt.n) /\ v4l2Seen'.lossy = v4l2Seen.lossy
  BY DEF OutputFrame, Ends, V4l2Types, V4l2SeenRecord
<1>5. PICK d : d = IF Ends THEN [dec EXCEPT !.eos = "output", !.state = "paused"] ELSE dec
  OBVIOUS
<1>6. d \in DecRecord /\ d.changing = dec.changing /\ d.target = dec.target
  BY <1>5 DEF V4l2Types, DecRecord, DecStates, Active
<1>7. dec' = IF Skipped THEN d ELSE [d EXCEPT !.target = -1]
  BY <1>5 DEF OutputFrame
<1>8. dec'.changing = dec.changing /\ dec'.target = IF Skipped THEN dec.target ELSE -1
  BY <1>6, <1>7 DEF DecRecord
<1>9. ~dec.changing /\ codec.filled # <<>> /\ UNCHANGED input /\ v4l2Handler' # "deferred"
  BY DEF OutputFrame
<1>. QED  BY <1>1, <1>2, <1>3, <1>4, <1>8, <1>9 DEF Active

LEMMA OrderOut ==
    ASSUME V4l2Types, V4l2Types', ControlInv, OrderInv, ChangeInv, OutputFrame
    PROVE  /\ OrderInv' /\ ChangeInv'
           /\ Frame.pkt.epoch = input.epoch
           /\ Frame.pkt.n = EosPacket \/ Frame.pkt.n = v4l2Seen.last + 1 \/ (v4l2Seen.lossy /\ Frame.pkt.n > v4l2Seen.last)
           /\ ~Skipped /\ Frame.pkt.n # EosPacket /\ input.epoch > 0 => Frame.pkt.n >= SeekTarget
<1>1. PICK in \in Seq(Inputs), out \in Seq(Outputs), pos \in Nat \ {0}, e \in Nat, last \in Nat :
         in = codec.in /\ out = codec.filled /\ pos = input.pos /\ e = input.epoch /\ last = v4l2Seen.last
  BY OrderFields, Zenon
<1>2. PICK l \in Nat : l = Len(in)
  <2>1. Len(in) \in Nat
    OBVIOUS
  <2>. QED  BY <2>1, Zenon
<1>3. /\ ReadChain(in, pos, e) /\ last < Before /\ FilledChain(out, last, Before, e)
      /\ ~v4l2Seen.lossy => NoGap(out, last, Before, ReadAll)
      /\ e > 0 /\ dec.target = -1 => PastTarget(in, out, pos)
  BY <1>1, OutputMoves DEF OrderInv
<1>4. pos <= NumPackets + 2 /\ l < pos
  BY <1>2, <1>3 DEF ReadChain
<1>5. PICK next \in Nat : next = Before /\ next = pos - l /\ next <= NumPackets + 2
  <2>1. pos - l \in Nat /\ Before = pos - l /\ pos - l <= NumPackets + 2
    BY <1>1, <1>2, <1>4, V4l2Assumption DEF Before
  <2>. QED  BY <2>1, Zenon
<1>6. next = NumPackets + 2 => ReadAll
  <2>1. SUFFICES ASSUME next = NumPackets + 2 PROVE ReadAll
    OBVIOUS
  <2>2. l = 0 /\ pos = NumPackets + 2
    BY <1>4, <1>5, <2>1, V4l2Assumption
  <2>3. Len(in) = 0
    BY <1>2, <2>2
  <2>4. in = <<>>
    BY <2>3
  <2>. QED  BY <1>1, <2>2, <2>4 DEF ReadAll
<1>7. PICK p \in Packets : p = Frame.pkt /\ p = Head(out).pkt /\ Frame = Head(out)
  <2>1. Head(out) \in Outputs /\ Frame = Head(out)
    BY <1>1, OutputMoves, TailIs DEF Frame
  <2>2. Head(out).pkt \in Packets
    BY <2>1 DEF Outputs
  <2>. QED  BY <2>1, <2>2
<1>8. PICK l2 \in Nat : l2 = v4l2Seen'.last
  BY OrderFields DEF V4l2Types, V4l2SeenRecord
<1>9. l2 = IF Head(out).last THEN last ELSE Head(out).pkt.n
  BY <1>1, <1>7, <1>8, OutputMoves
<1>10. out # <<>>
  BY <1>1, OutputMoves
<1>11. FilledChain(out, last, next, e)
  BY <1>3, <1>5
<1>12. /\ FilledChain(Tail(out), l2, next, e) /\ l2 < next
       /\ p.epoch = e /\ p.n <= NumPackets /\ last < Place(p) /\ (Head(out).last <=> p.n = EosPacket)
  BY <1>7, <1>9, <1>10, <1>11, FilledTaken
<1>13. ~v4l2Seen.lossy => NoGap(Tail(out), l2, next, ReadAll) /\ (p.n # EosPacket => p.n = last + 1)
  <2>1. SUFFICES ASSUME ~v4l2Seen.lossy PROVE NoGap(Tail(out), l2, next, ReadAll) /\ (p.n # EosPacket => p.n = last + 1)
    OBVIOUS
  <2>2. NoGap(out, last, next, ReadAll) /\ ReadAll \in BOOLEAN
    BY <1>3, <1>5, <2>1 DEF ReadAll
  <2>. QED  BY <1>5, <1>6, <1>7, <1>9, <1>10, <1>11, <2>2, NoGapTaken
<1>14. /\ codec'.in = in /\ codec'.filled = Tail(out) /\ input' = input /\ Before' = next /\ ReadAll' = ReadAll
       /\ v4l2Seen'.lossy = v4l2Seen.lossy /\ ~dec'.changing
  BY <1>1, <1>5, OutputMoves DEF Before, ReadAll
<1>15. e > 0 /\ dec'.target = -1 => PastTarget(in, Tail(out), pos)
  <2>1. SUFFICES ASSUME e > 0, dec'.target = -1 PROVE PastTarget(in, Tail(out), pos)
    OBVIOUS
  <2>2. CASE dec.target = -1
    BY <1>3, <1>10, <2>1, <2>2, TargetFewer
  <2>3. CASE dec.target # -1
    <3>1. dec.target = SeekTarget /\ ~Skipped
      BY <2>1, <2>3, OrderFields, OutputMoves
    <3>2. p.n >= SeekTarget
      BY <1>7, <3>1, V4l2Assumption DEF Skipped, Packets
    <3>3. FromTarget(Head(out).pkt) /\ (Head(out).pkt.n = EosPacket => SeekTarget = 0)
      BY <1>7, <3>2, V4l2Assumption DEF FromTarget, EosPacket
    <3>4. FilledChain(out, last, pos - Len(in), e)
      BY <1>2, <1>5, <1>11
    <3>. QED  BY <1>3, <1>10, <3>3, <3>4, TargetReached
  <2>. QED  BY <2>2, <2>3
<1>16. OrderInv'
  <2>1. ReadChain(codec'.in, input'.pos, input'.epoch)
    BY <1>1, <1>3, <1>14
  <2>2. v4l2Seen'.last < Before'
    BY <1>8, <1>12, <1>14
  <2>3. FilledChain(codec'.filled, v4l2Seen'.last, Before', input'.epoch)
    BY <1>1, <1>8, <1>12, <1>14
  <2>4. ~v4l2Seen'.lossy => NoGap(codec'.filled, v4l2Seen'.last, Before', ReadAll')
    BY <1>8, <1>13, <1>14
  <2>5. input'.epoch > 0 /\ dec'.target = -1 => PastTarget(codec'.in, codec'.filled, input'.pos)
    BY <1>1, <1>14, <1>15
  <2>. QED  BY <2>1, <2>2, <2>3, <2>4, <2>5 DEF OrderInv
<1>17. ChangeInv'
  BY OutputMoves DEF ChangeInv, Active
<1>18. p.n = EosPacket \/ p.n = last + 1 \/ (v4l2Seen.lossy /\ p.n > last)
  <2>1. CASE v4l2Seen.lossy
    <3>1. p.n # EosPacket => Place(p) = p.n /\ p.n \in Nat
      BY PlaceIs DEF Packets
    <3>. QED  BY <1>12, <2>1, <3>1
  <2>2. CASE ~v4l2Seen.lossy
    BY <1>13, <2>2
  <2>. QED  BY <2>1, <2>2
<1>19. ~Skipped /\ p.n # EosPacket /\ e > 0 => p.n >= SeekTarget
  <2>1. CASE dec.target = -1
    BY <1>3, <1>7, <1>10, <2>1, TargetFewer DEF FromTarget
  <2>2. CASE dec.target = SeekTarget
    BY <1>7, <2>2, V4l2Assumption DEF Skipped, Packets
  <2>. QED  BY <2>1, <2>2, OrderFields
<1>. QED  BY <1>1, <1>7, <1>12, <1>16, <1>17, <1>18, <1>19

-----------------------------------------------------------------------------
(* The port is reallocated: what was decoded is lost.                      *)
LEMMA OrderLost ==
    ASSUME V4l2Types, OrderInv, dec.state \in Active, dec.state \in Active => dec'.state \notin {"null", "prepared"},
           v4l2Seen.lossy, UNCHANGED v4l2Seen, codec'.in = codec.in, codec'.filled = <<>>,
           UNCHANGED input, dec'.target = dec.target, v4l2Handler' = "deferred" => ~dec'.changing
    PROVE  OrderInv' /\ ChangeInv'
<1>1. /\ ReadChain(codec.in, input.pos, input.epoch) /\ v4l2Seen.last < Before
      /\ input.epoch > 0 /\ dec.target = -1 => PastTarget(codec.in, codec.filled, input.pos)
  BY DEF OrderInv
<1>2. Before' = Before
  BY DEF Before
<1>3. FilledChain(codec'.filled, v4l2Seen'.last, Before', input'.epoch)
  BY DEF FilledChain
<1>4. input'.epoch > 0 /\ dec'.target = -1 => PastTarget(codec'.in, codec'.filled, input'.pos)
  BY <1>1 DEF PastTarget
<1>5. OrderInv'
  BY <1>1, <1>2, <1>3, <1>4 DEF OrderInv
<1>6. ChangeInv'
  BY DEF ChangeInv
<1>. QED  BY <1>5, <1>6

LEMMA OrderKeptFrame ==
    ASSUME V4l2Types, ControlInv, OrderInv, ChangeInv, OutputKept
    PROVE  OrderInv' /\ ChangeInv'
<1>1. dec.state \in Active /\ dec.changing /\ v4l2Seen.lossy /\ UNCHANGED v4l2Seen /\ codec.filled # <<>>
  BY HandlesOutputIs DEF OutputKept, ChangeInv
<1>2. dec'.state \in Active
  BY <1>1, OutputState DEF Active
<1>3. CASE codec' = Dequeued /\ UNCHANGED <<dec, input>> /\ v4l2Handler' = "idle"
  <2>1. codec'.in = codec.in /\ codec'.filled = Tail(codec.filled)
    BY <1>3 DEF Dequeued, V4l2Types, CodecRecord
  <2>2. input.epoch > 0 /\ dec.target = -1 => PastTarget(codec.in, Tail(codec.filled), input.pos)
    BY <1>1, TargetFewer, OrderFields DEF OrderInv
  <2>3. Before' = Before
    BY <1>3, <2>1 DEF Before
  <2>4. OrderInv'
    BY <1>1, <1>3, <2>1, <2>2, <2>3 DEF OrderInv
  <2>5. ChangeInv'
    BY <1>1, <1>2, <1>3 DEF ChangeInv, Active
  <2>. QED  BY <2>4, <2>5
<1>4. CASE /\ \E c \in BOOLEAN : dec' = [NextGen(dec) EXCEPT !.changing = c]
           /\ UNCHANGED input /\ v4l2Handler' \in {"idle", "spins"}
           /\ codec' = CodecWithFrames \/ codec' = [codec EXCEPT !.free = {}, !.filled = <<>>]
  <2>1. codec'.in = codec.in /\ codec'.filled = <<>>
    BY <1>4 DEF CodecWithFrames, V4l2Types, CodecRecord
  <2>2. dec'.target = dec.target
    BY <1>4 DEF NextGen, V4l2Types, DecRecord
  <2>. QED  BY <1>1, <1>2, <1>4, <2>1, <2>2, OrderLost DEF Active
<1>5. (Len(dec.deferred) > 1) \in BOOLEAN
  OBVIOUS
<1>6. CASE codec' = Dequeued /\ v4l2Handler' = "idle" /\ UNCHANGED <<dec, pipe, input>>
  BY <1>3, <1>6
<1>7. CASE /\ Reallocates([NextGen(dec) EXCEPT !.changing = Len(dec.deferred) > 1])
           /\ v4l2Handler' = IF Len(dec.deferred) > 1 THEN "spins" ELSE "idle"
  <2>1. v4l2Handler' \in {"idle", "spins"}
    BY <1>7
  <2>. QED  BY <1>4, <1>5, <1>7, <2>1, Zenon DEF Reallocates
<1>8. CASE ReallocateFails([NextGen(dec) EXCEPT !.changing = FALSE]) /\ v4l2Handler' = "idle"
  <2>1. v4l2Handler' \in {"idle", "spins"} /\ FALSE \in BOOLEAN
    BY <1>8
  <2>. QED  BY <1>4, <1>8, <2>1, Zenon DEF ReallocateFails
<1>. QED  BY <1>6, <1>7, <1>8, Zenon DEF OutputKept

LEMMA OrderScheduled ==
    ASSUME V4l2Types, ControlInv, FramesInv, OrderInv, ChangeInv, OnSchedule
    PROVE  OrderInv' /\ ChangeInv'
<1>1. v4l2Handler = "idle" /\ UNCHANGED v4l2Seen /\ dec.state \in Active
  BY ReturnedIs DEF OnSchedule, NextIs, Stale
<1>2. dec'.state \in Active
  BY <1>1, ScheduleState DEF Active
<1>3. CASE UNCHANGED input /\ codec'.in = codec.in /\ codec'.filled = codec.filled /\ v4l2Handler' = "idle"
           /\ dec'.changing = dec.changing /\ dec'.target = dec.target
  <2>1. OrderKept
    BY <1>1, <1>3 DEF OrderKept
  <2>. QED  BY <1>1, <1>2, <1>3, <2>1, OrderSame DEF Active
<1>4. CASE /\ UNCHANGED input /\ dec.changing
           /\ dec' = [NextGen(dec) EXCEPT !.changing = FALSE] \/ dec' = [NextGen(dec) EXCEPT !.changing = FALSE, !.state = "paused"]
           /\ codec' = CodecWithFrames \/ codec' = [codec EXCEPT !.free = {}, !.filled = <<>>]
  <2>1. codec'.in = codec.in /\ codec'.filled = <<>>
    BY <1>4 DEF CodecWithFrames, V4l2Types, CodecRecord
  <2>2. dec'.target = dec.target /\ ~dec'.changing
    BY <1>4 DEF NextGen, V4l2Types, DecRecord
  <2>3. v4l2Seen.lossy
    BY <1>4 DEF ChangeInv
  <2>. QED  BY <1>1, <1>2, <1>4, <2>1, <2>2, <2>3, OrderLost DEF Active
<1>5. CASE /\ UNCHANGED input /\ v4l2Handler' = v4l2Handler
           /\ \/ UNCHANGED codec
              \/ \E g : codec' = [codec EXCEPT !.free = @ \cup {g}]
           /\ dec' = dec \/ dec' = [dec EXCEPT !.over = "start"]
  <2>1. codec'.in = codec.in /\ codec'.filled = codec.filled
    BY <1>5 DEF V4l2Types, CodecRecord
  <2>2. dec'.changing = dec.changing /\ dec'.target = dec.target
    BY <1>5 DEF V4l2Types, DecRecord
  <2>. QED  BY <1>1, <1>3, <1>5, <2>1, <2>2
<1>. QED  BY <1>4, <1>5 DEF OnSchedule, Reallocates, ReallocateFails

(* Everything comes back from the codec.                                   *)
LEMMA OrderFlushed ==
    ASSUME V4l2Types, OrderInv, ~dec.changing, dec.state \in Active, NEW d \in DecRecord, d.state = dec.state,
           d.changing = dec.changing, d.target = dec.target, Flushes(d), Notify("flush")
    PROVE  OrderInv' /\ ChangeInv'
<1>1. dec'.state = dec.state /\ ~dec'.changing /\ dec'.target = dec.target
  BY DEF Flushes, NextGen, DecRecord
<1>2. codec'.in = <<>> /\ codec'.filled = <<>>
  BY DEF Flushes, V4l2Types, CodecRecord
<1>3. ChangeInv'
  BY <1>1 DEF ChangeInv, Active
<1>4. ReadChain(codec.in, input.pos, input.epoch) /\ v4l2Seen.last < Before
      /\ (input.epoch > 0 /\ dec.target = -1 => PastTarget(codec.in, codec.filled, input.pos))
  BY DEF OrderInv
<1>5. PICK l \in Nat, pos \in Nat \ {0}, last \in Nat : l = Len(codec.in) /\ pos = input.pos /\ last = v4l2Seen.last
  <2>1. Len(codec.in) \in Nat
    BY OrderFields
  <2>. QED  BY <2>1, OrderFields, Zenon
<1>6. pos <= NumPackets + 2 /\ last < pos - l
  BY <1>4, <1>5 DEF ReadChain, Before
<1>7. CASE Seeking
  <2>1. input'.pos = 1 /\ v4l2Seen'.last = 0
    BY <1>7 DEF Flushes, Notify, V4l2Types, V4l2SeenRecord
  <2>2. Before' = 1
    BY <1>2, <2>1 DEF Before
  <2>3. ReadChain(codec'.in, input'.pos, input'.epoch)
    BY <1>2, <2>1, V4l2Assumption, ReadNone
  <2>4. FilledChain(codec'.filled, v4l2Seen'.last, Before', input'.epoch)
    BY <1>2, FilledNone
  <2>5. NoGap(codec'.filled, v4l2Seen'.last, Before', ReadAll')
    BY <1>2, <2>1, <2>2 DEF NoGap
  <2>6. PastTarget(codec'.in, codec'.filled, input'.pos)
    BY <1>2, <2>1 DEF PastTarget
  <2>7. v4l2Seen'.last < Before'
    BY <2>1, <2>2
  <2>. QED  BY <1>3, <2>3, <2>4, <2>5, <2>6, <2>7 DEF OrderInv
<1>8. CASE ~Seeking
  <2>1. input' = input /\ v4l2Seen'.last = v4l2Seen.last /\ v4l2Seen'.lossy
    BY <1>8 DEF Flushes, Notify, V4l2Types, V4l2SeenRecord
  <2>2. Before' = pos
    BY <1>2, <1>5, <2>1 DEF Before
  <2>3. ReadChain(codec'.in, input'.pos, input'.epoch)
    BY <1>2, <1>5, <1>6, <2>1, ReadNone
  <2>4. FilledChain(codec'.filled, v4l2Seen'.last, Before', input'.epoch)
    BY <1>2, FilledNone
  <2>5. v4l2Seen'.last < Before'
    BY <1>5, <1>6, <2>1, <2>2
  <2>6. input'.epoch > 0 /\ dec'.target = -1 => PastTarget(codec'.in, codec'.filled, input'.pos)
    BY <1>1, <1>2, <1>4, <2>1 DEF PastTarget
  <2>. QED  BY <1>3, <2>1, <2>3, <2>4, <2>5, <2>6 DEF OrderInv
<1>. QED  BY <1>7, <1>8

LEMMA OrderFlush ==
    ASSUME V4l2Types, ControlInv, OrderInv, ChangeInv, OnV4l2Flush
    PROVE  OrderInv' /\ ChangeInv'
<1>1. v4l2Handler = "idle" /\ v4l2Handler' = "idle"
  BY DEF OnV4l2Flush, NextIs
<1>2. CASE dec.changing /\ dec' = [dec EXCEPT !.deferred = Append(@, "flush")] /\ UNCHANGED <<codec, input, v4l2Seen>>
  <2>1. dec'.state = dec.state /\ dec'.changing = dec.changing /\ dec'.target = dec.target
    BY <1>2 DEF V4l2Types, DecRecord
  <2>2. OrderKept
    BY <1>2, <2>1 DEF OrderKept
  <2>. QED  BY <1>1, <2>1, <2>2, OrderSame
<1>3. CASE ~dec.configured /\ Notify("flush") /\ UNCHANGED <<dec, codec, v4l2Seen>>
  <2>1. CASE Seeking
    <3>1. dec.state = "prepared"
      BY <1>3, <2>1, OrderFields DEF ControlInv, ModeInv, StopsInv, StopAsked, Seeking, V4l2Types, PipeRecord, V4l2Modes
    <3>2. input'.pos = 1
      BY <2>1, <1>3 DEF Notify
    <3>. QED  BY <1>1, <1>3, <3>1, <3>2 DEF OrderInv, ChangeInv, Active
  <2>2. CASE ~Seeking
    <3>1. OrderKept
      BY <1>3, <2>2 DEF Notify, OrderKept
    <3>. QED  BY <1>1, <1>3, <3>1, OrderSame
  <2>. QED  BY <2>1, <2>2
<1>4. CASE ~dec.changing /\ dec.configured /\ Flushes(dec) /\ Notify("flush")
  <2>1. dec.state \in Active /\ dec \in DecRecord
    BY <1>1, <1>4 DEF ControlInv, PlacesInv, Active, V4l2Types
  <2>. QED  BY <1>4, <2>1, OrderFlushed
<1>. QED  BY <1>2, <1>3, <1>4 DEF OnV4l2Flush

LEMMA OrderDeferredFlush ==
    ASSUME V4l2Types, ControlInv, OrderInv, ChangeInv, DeferredFlush
    PROVE  OrderInv' /\ ChangeInv'
<1>1. v4l2Handler = "deferred" /\ ~dec.changing /\ dec.state \in Active /\ Tail(dec.deferred) \in Seq({"flush", "stop"})
  BY DeferredIs DEF DeferredFlush, ChangeInv
<1>2. PICK d \in DecRecord : d = [dec EXCEPT !.deferred = Tail(@)]
  <2>1. [dec EXCEPT !.deferred = Tail(@)] \in DecRecord
    BY <1>1 DEF V4l2Types, DecRecord
  <2>. QED  BY <2>1
<1>3. d.state = dec.state /\ d.changing = dec.changing /\ d.target = dec.target
  BY <1>2 DEF V4l2Types, DecRecord
<1>4. Flushes(d) /\ Notify("flush")
  BY <1>2 DEF DeferredFlush
<1>. QED  BY <1>1, <1>3, <1>4, OrderFlushed

LEMMA OrderJoined ==
    ASSUME V4l2Types, ChangeInv, StopJoined \/ ResetJoined
    PROVE  OrderInv' /\ ChangeInv'
<1>1. dec'.state = "stopped" /\ dec'.changing = dec.changing /\ UNCHANGED v4l2Seen /\ v4l2Handler' = "idle"
  BY StoppedIs DEF StopJoined, ResetJoined
<1>. QED  BY <1>1 DEF OrderInv, ChangeInv, Active

(* The frames that the codec gives back hold no packet.                    *)
LEMMA OrderGivenBack ==
    ASSUME V4l2Types, V4l2Types', OrderInv, ChangeInv, OnHandleResolutionChange
    PROVE  OrderInv' /\ ChangeInv'
<1>1. UNCHANGED input /\ v4l2Handler' = "idle"
  BY DEF OnHandleResolutionChange, NextIs
<1>2. CASE UNCHANGED <<dec, codec, v4l2Seen>>
  <2>1. OrderKept
    BY <1>1, <1>2 DEF OrderKept
  <2>. QED  BY <1>1, <1>2, <2>1, OrderSame
<1>3. CASE codec.event
  <2>1. PICK s \in Seq(Outputs), fs \in SUBSET Frames : s = codec.filled /\ fs = codec.free
    BY FieldsAre DEF CodecFields
  <2>2. IsFiniteSet(fs)
    BY FramesFinite, FS_Subset
  <2> DEFINE B == {[frame |-> f, pkt |-> Packet(NumPackets + 1), last |-> FALSE] : f \in fs}
  <2>3. codec'.in = codec.in /\ codec'.filled = s \o SetToSeq(B)
    BY <1>3, <2>1 DEF OnHandleResolutionChange, V4l2Types, CodecRecord
  <2>4. IsFiniteSet(B)
    BY <2>2, GivenBackFinite
  <2>5. Packet(NumPackets + 1).n = EosPacket
    BY V4l2Assumption DEF Packet
  <2>6. Packet(NumPackets + 1) \in Packets
    BY FieldsAre, V4l2Assumption DEF Packet, Packets, EosPacket, OtherFields
  <2>7. \A b \in B : FromTarget(b.pkt) /\ b \in Outputs
    <3>1. \A f \in fs : GivenBack(f) \in Outputs /\ FromTarget(GivenBack(f).pkt)
      BY <2>5, <2>6 DEF Outputs, GivenBack, FromTarget
    <3>2. B = {GivenBack(f) : f \in fs}
      BY DEF GivenBack
    <3> HIDE DEF B
    <3>. QED  BY <3>1, <3>2
  <2> HIDE DEF B
  <2>8. PICK t \in Seq(B) : t = SetToSeq(B)
    <3>1. SetToSeq(B) \in Seq(B)
      BY <2>4, SetToSeqIs
    <3>. QED  BY <3>1
  <2>9. t \in Seq(Outputs) /\ \A k \in 1 .. Len(t) : FromTarget(t[k].pkt)
    BY <2>7, <2>8
  <2>10. dec'.changing /\ dec'.state = dec.state /\ dec'.target = dec.target
    BY <1>3 DEF OnHandleResolutionChange, V4l2Types, DecRecord
  <2>11. v4l2Seen'.last = v4l2Seen.last /\ v4l2Seen'.lossy
    BY <1>3 DEF OnHandleResolutionChange, V4l2Types, V4l2SeenRecord
  <2>12. PastTarget(codec.in, s, input.pos) => PastTarget(codec.in, s \o t, input.pos)
    <3>1. /\ Len(s \o t) = Len(s) + Len(t) /\ Len(s) \in Nat /\ Len(t) \in Nat
          /\ \A k \in 1 .. Len(s) : (s \o t)[k] = s[k]
          /\ \A k \in 1 .. Len(t) : (s \o t)[Len(s) + k] = t[k]
      BY <2>9
    <3>2. PICK u : u = s \o t
      OBVIOUS
    <3>3. ASSUME PastTarget(codec.in, s, input.pos), NEW k \in 1 .. Len(u)
          PROVE  FromTarget(u[k].pkt)
      <4>1. CASE k <= Len(s)
        BY <3>1, <3>2, <3>3, <4>1 DEF PastTarget
      <4>2. CASE ~(k <= Len(s))
        <5>1. k - Len(s) \in 1 .. Len(t) /\ k = Len(s) + (k - Len(s))
          BY <3>1, <3>2, <4>2
        <5>. QED  BY <2>9, <3>1, <3>2, <5>1
      <4>. QED  BY <4>1, <4>2
    <3>. QED  BY <3>2, <3>3 DEF PastTarget
  <2>13. Before' = Before
    BY <1>1, <2>3 DEF Before
  <2>14. OrderInv'
    <3>1. input'.epoch > 0 /\ dec'.target = -1 /\ dec.state \in Active => PastTarget(codec'.in, codec'.filled, input'.pos)
      BY <1>1, <2>1, <2>3, <2>8, <2>10, <2>12 DEF OrderInv
    <3>. QED  BY <1>1, <2>3, <2>10, <2>11, <2>13, <3>1 DEF OrderInv
  <2>15. ChangeInv'
    BY <1>1, <2>10, <2>11 DEF ChangeInv
  <2>. QED  BY <2>14, <2>15
<1>. QED  BY <1>2, <1>3 DEF OnHandleResolutionChange

LEMMA DecodedIs ==
    ASSUME V4l2Types, CodecStep
    PROVE  /\ codec.in # <<>> /\ codec'.in = Tail(codec.in)
           /\ \/ codec'.filled = codec.filled /\ Head(codec.in).pkt.n = EosPacket
              \/ \E o \in Outputs : /\ o.pkt = Head(codec.in).pkt /\ (o.last <=> o.pkt.n = EosPacket)
                                    /\ codec'.filled = Append(codec.filled, o)
<1>1. codec.in # <<>> /\ codec'.in = Tail(codec.in) /\ Head(codec.in) \in Inputs /\ Head(codec.in).pkt \in Packets
  BY CodecStepIs DEF Inputs
<1>2. Consumed.filled = codec.filled /\ Consumed \in CodecRecord
  <2>1. Tail(codec.in) \in Seq(Inputs) /\ Append(codec.done, Head(codec.in).idx) \in Seq(Indices)
    BY <1>1, CodecStepIs, FieldsAre DEF CodecFields
  <2>. QED  BY <2>1 DEF Consumed, V4l2Types, CodecRecord
<1>3. ASSUME NEW eos \in BOOLEAN, CodecHas(eos), codec.free # {}, Fills(Min(codec.free), eos)
      PROVE  \E o \in Outputs : /\ o.pkt = Head(codec.in).pkt /\ (o.last <=> o.pkt.n = EosPacket)
                                /\ codec'.filled = Append(codec.filled, o)
  <2>1. PICK f \in codec.free : f = Min(codec.free)
    BY <1>3, MinIsOne, FieldsAre DEF CodecFields
  <2>2. f \in Frames
    BY FieldsAre DEF CodecFields
  <2>3. PICK o \in Outputs : o = [frame |-> f, pkt |-> Head(codec.in).pkt, last |-> eos]
    BY <1>1, <2>2 DEF Outputs
  <2>4. codec' = [Consumed EXCEPT !.free = @ \ {f}, !.filled = Append(@, o)]
    BY <1>3, <2>1, <2>3 DEF Fills
  <2>5. codec'.filled = Append(codec.filled, o)
    BY <1>2, <2>4 DEF CodecRecord
  <2>6. (Head(codec.in).pkt.n = EosPacket) = eos
    BY <1>3 DEF CodecHas
  <2>7. o.last = eos /\ o.pkt = Head(codec.in).pkt
    BY <2>3
  <2>8. o.last <=> o.pkt.n = EosPacket
    BY <2>6, <2>7, Zenon
  <2>. QED  BY <2>5, <2>7, <2>8
<1>4. ASSUME CodecHas(TRUE), codec' = [Consumed EXCEPT !.eos = TRUE]
      PROVE  codec'.filled = codec.filled /\ Head(codec.in).pkt.n = EosPacket
  BY <1>2, <1>4 DEF CodecHas, CodecRecord
<1>. QED  BY <1>1, <1>3, <1>4, Zenon DEF CodecStep

(* The codec decodes the packets in their order, one frame for each.       *)
LEMMA OrderDecoded ==
    ASSUME V4l2Types, OrderInv, ChangeInv, CodecGoesOn
    PROVE  OrderInv' /\ ChangeInv'
<1>1. UNCHANGED <<dec, v4l2Handler, input, v4l2Seen>> /\ CodecStep
  BY DEF CodecGoesOn
<1>2. ChangeInv'
  BY <1>1 DEF ChangeInv
<1>3. SUFFICES ASSUME dec.state \in Active PROVE OrderInv'
  BY <1>1, <1>2 DEF OrderInv
<1>4. PICK in \in Seq(Inputs), out \in Seq(Outputs), pos \in Nat \ {0}, e \in Nat, last \in Nat :
         in = codec.in /\ out = codec.filled /\ pos = input.pos /\ e = input.epoch /\ last = v4l2Seen.last
  BY OrderFields, Zenon
<1>5. PICK l \in Nat : l = Len(in)
  <2>1. Len(in) \in Nat
    OBVIOUS
  <2>. QED  BY <2>1, Zenon
<1>6. in # <<>> /\ codec'.in = Tail(in)
  BY <1>1, <1>4, DecodedIs
<1>7. /\ ReadChain(in, pos, e) /\ last < Before
      /\ ~dec.changing => FilledChain(out, last, Before, e)
      /\ ~dec.changing /\ ~v4l2Seen.lossy => NoGap(out, last, Before, ReadAll)
      /\ e > 0 /\ dec.target = -1 => PastTarget(in, out, pos)
  BY <1>3, <1>4 DEF OrderInv
<1>8. l < pos
  BY <1>5, <1>7 DEF ReadChain
<1>9. PICK next \in Nat : next = Before /\ next = pos - l
  <2>1. pos - l \in Nat /\ Before = pos - l
    BY <1>4, <1>5, <1>8 DEF Before
  <2>. QED  BY <2>1, Zenon
<1>10. PICK p \in Packets : p = Head(in).pkt
  <2>1. Head(in) \in Inputs
    BY <1>6, TailIs
  <2>. QED  BY <2>1 DEF Inputs
<1>11. /\ ReadChain(Tail(in), pos, e) /\ Len(Tail(in)) = l - 1
       /\ p.epoch = e /\ p.n <= NumPackets /\ Place(p) = next
       /\ p.n = EosPacket => Tail(in) = <<>> /\ pos = NumPackets + 2
  BY <1>5, <1>6, <1>7, <1>9, <1>10, ReadTaken
<1>12. Before' = next + 1
  <2>1. Before' = pos - (l - 1)
    BY <1>1, <1>4, <1>6, <1>11 DEF Before
  <2>. QED  BY <1>9, <2>1
<1>13. last < next /\ last < next + 1
  BY <1>7, <1>9
<1>14. ~ReadAll
  BY <1>4, <1>6 DEF ReadAll
<1>15. e > 0 /\ dec.target = -1 => PastTarget(Tail(in), out, pos) /\ FromTarget(p)
  BY <1>6, <1>7, <1>10, TargetTaken
<1>16. ~dec.changing => FilledChain(out, last, next, e)
  BY <1>7, <1>9
<1>17. ~dec.changing /\ ~v4l2Seen.lossy => NoGap(out, last, next, FALSE)
  BY <1>7, <1>9, <1>14 DEF NoGap
<1>18. CASE codec'.filled = out /\ p.n = EosPacket
  <2>1. ReadAll'
    BY <1>1, <1>4, <1>6, <1>11, <1>18 DEF ReadAll
  <2>2. ~dec.changing => FilledChain(out, last, next + 1, e)
    BY <1>16, FilledBefore
  <2>3. ~dec.changing /\ ~v4l2Seen.lossy => NoGap(out, last, next + 1, ReadAll')
    BY <1>17, <2>1 DEF NoGap
  <2>. QED  BY <1>1, <1>4, <1>6, <1>11, <1>12, <1>13, <1>15, <1>18, <2>2, <2>3 DEF OrderInv
<1>19. ASSUME NEW o \in Outputs, o.pkt = p, o.last <=> p.n = EosPacket, codec'.filled = Append(out, o)
       PROVE  OrderInv'
  <2>1. ~dec.changing => /\ FilledChain(Append(out, o), last, next + 1, e)
                         /\ \A ended : NoGap(out, last, next, FALSE) => NoGap(Append(out, o), last, next + 1, ended)
    BY <1>11, <1>13, <1>16, <1>19, FilledMore
  <2>2. ~dec.changing /\ ~v4l2Seen.lossy => NoGap(Append(out, o), last, next + 1, ReadAll')
    BY <1>17, <2>1
  <2>3. e > 0 /\ dec.target = -1 => PastTarget(Tail(in), Append(out, o), pos)
    BY <1>15, <1>19, TargetMore
  <2>. QED  BY <1>1, <1>4, <1>6, <1>11, <1>12, <1>13, <1>19, <2>1, <2>2, <2>3 DEF OrderInv
<1>. QED  BY <1>1, <1>4, <1>10, <1>18, <1>19, DecodedIs

-----------------------------------------------------------------------------
LEMMA OrderStep ==
    ASSUME V4l2Types, V4l2Types', ControlInv, FramesInv, InputsInv, OrderInv, ChangeInv, V4l2Next
    PROVE  OrderInv' /\ ChangeInv'
<1>1. CASE OnStartInput
  BY <1>1, OrderStarted
<1>2. CASE OnStartOutput
  BY <1>2, OrderStartedOut, StatesMove, OrderSame
<1>3. CASE OnHandleInputBuffer
  BY <1>3, OrderRead
<1>4. CASE OutputFrame \/ OutputKept
  BY <1>4, OrderOut, OrderKeptFrame
<1>5. CASE OnSchedule \/ OnHandleResolutionChange
  BY <1>5, OrderScheduled, OrderGivenBack
<1>6. CASE OnV4l2Flush \/ DeferredFlush
  BY <1>6, OrderFlush, OrderDeferredFlush
<1>7. CASE StopJoined \/ ResetJoined \/ CodecGoesOn
  BY <1>7, OrderJoined, OrderDecoded
<1>8. CASE \/ \E op \in V4l2Ops : V4l2Call(op)
           \/ OnV4l2Prepare \/ OnV4l2Pause \/ OnV4l2Resume
           \/ OnInputIgnored \/ OnInputUnlinked \/ ReallocateRefused \/ InputStarves \/ RetryDue
           \/ OnOutputIgnored \/ OutputOver \/ OnScheduleIgnored \/ RenderFails
           \/ OnV4l2Stop \/ DeferredStop \/ OnV4l2Reset
           \/ PollThread \/ CodecChanges \/ ClientReleases
  <2>1. OrderKept /\ (v4l2Handler' = "deferred" => v4l2Handler = "deferred")
    BY <1>8, OrderAlone
  <2>2. /\ dec'.state \in Active => dec.state \in Active
        /\ dec'.state \in {"null", "prepared"} => dec.state \in {"null", "prepared"}
    BY <1>8, StatesMove
  <2>. QED  BY <2>1, <2>2, OrderSame
<1>. QED  BY <1>1, <1>2, <1>3, <1>4, <1>5, <1>6, <1>7, <1>8, Zenon DEF V4l2Next, V4l2MessageThread

VideoOrderInv == V4l2Inv /\ OrderInv /\ ChangeInv

LEMMA VideoOrderInvariant == V4l2Spec => []VideoOrderInv
<1>1. V4l2Init => VideoOrderInv
  <2>1. V4l2Init => OrderInv /\ ChangeInv
    BY DEF V4l2Init, OrderInv, ChangeInv, Active
  <2>. QED  BY <2>1, V4l2Start DEF VideoOrderInv
<1>2. VideoOrderInv /\ [V4l2Next]_v4l2Vars => VideoOrderInv'
  <2>1. ASSUME VideoOrderInv, V4l2Next PROVE VideoOrderInv'
    <3>1. V4l2Inv'
      BY <2>1, V4l2Step DEF VideoOrderInv
    <3>2. V4l2Types /\ V4l2Types' /\ ControlInv /\ FramesInv /\ InputsInv /\ OrderInv /\ ChangeInv
      BY <2>1, <3>1 DEF VideoOrderInv, V4l2Inv, V4l2Next
    <3>. QED  BY <2>1, <3>1, <3>2, OrderStep DEF VideoOrderInv
  <2>2. ASSUME VideoOrderInv, UNCHANGED v4l2Vars PROVE VideoOrderInv'
    <3>1. V4l2Inv'
      BY <2>2, V4l2Step DEF VideoOrderInv
    <3>2. OrderInv' /\ ChangeInv'
      BY <2>2 DEF VideoOrderInv, OrderInv, ChangeInv, v4l2Vars, Before, ReadAll
    <3>. QED  BY <3>1, <3>2 DEF VideoOrderInv
  <2>. QED  BY <2>1, <2>2
<1>. QED  BY <1>1, <1>2, PTL DEF V4l2Spec

(* Only a frame that is not skipped is given to the sink.                  *)
LEMMA GivenByOutput ==
    ASSUME V4l2Next, held' \ held # {}
    PROVE  OutputFrame /\ ~Skipped
<1>1. CASE OutputFrame
  BY <1>1 DEF OutputFrame
<1>2. CASE ClientReleases
  BY <1>2 DEF ClientReleases
<1>3. ~OutputFrame /\ ~ClientReleases => UNCHANGED held
  BY DEF V4l2Next, V4l2MessageThread, V4l2Call,
         OnV4l2Prepare, OnStartInput, OnStartOutput, OnV4l2Pause, OnV4l2Resume, OnInputIgnored, OnHandleInputBuffer,
         OnInputUnlinked, ReallocateRefused, InputStarves, RetryDue, OnOutputIgnored, OutputOver, OutputKept, OnScheduleIgnored, OnSchedule, RenderFails,
         OnHandleResolutionChange, OnV4l2Flush, OnV4l2Stop, StopJoined, DeferredFlush, DeferredStop, OnV4l2Reset, ResetJoined,
         PollThread, PollEnds, PollSleeps, PollPosts, CodecGoesOn, CodecChanges
<1>. QED  BY <1>1, <1>2, <1>3

(* Whatever is flushed, reconfigured, skipped, put off and dropped as too     *)
(* big, the sink gets the frames of the packets that fit an input buffer, in *)
(* the order of the stream: the next one, unless frames were lost at a        *)
(* change of the resolution or a flush without a seek; none from before a     *)
(* seek, and after it none from before its target (onHandleOutputBuffer).    *)
THEOREM VideoFramesInOrder == V4l2Spec => FramesInOrder
<1> DEFINE Ordered == held' \ held # {} =>
         LET n == Frame.pkt.n
         IN /\ Frame.pkt.epoch = input.epoch
            /\ n = EosPacket \/ n = v4l2Seen.last + 1 \/ (v4l2Seen.lossy /\ n > v4l2Seen.last)
            /\ n # EosPacket /\ input.epoch > 0 => n >= SeekTarget
<1>1. VideoOrderInv /\ VideoOrderInv' /\ [V4l2Next]_v4l2Vars => [Ordered]_v4l2Vars
  <2>1. SUFFICES ASSUME VideoOrderInv, VideoOrderInv', V4l2Next, held' \ held # {}
                 PROVE  /\ Frame.pkt.epoch = input.epoch
                        /\ Frame.pkt.n = EosPacket \/ Frame.pkt.n = v4l2Seen.last + 1
                             \/ (v4l2Seen.lossy /\ Frame.pkt.n > v4l2Seen.last)
                        /\ Frame.pkt.n # EosPacket /\ input.epoch > 0 => Frame.pkt.n >= SeekTarget
    BY Zenon
  <2>2. OutputFrame /\ ~Skipped
    BY <2>1, GivenByOutput
  <2>3. V4l2Types /\ V4l2Types' /\ ControlInv /\ OrderInv /\ ChangeInv
    BY <2>1 DEF VideoOrderInv, V4l2Inv
  <2>. QED  BY <2>2, <2>3, OrderOut
<1>2. V4l2Spec => [][Ordered]_v4l2Vars
  BY <1>1, VideoOrderInvariant, PTL DEF V4l2Spec
<1>. QED  BY <1>2 DEF FramesInOrder

=============================================================================
