----------------------- MODULE SurfaceCommits_proofs -----------------------
(***************************************************************************)
(* Theorems about SurfaceCommits, for every set of surfaces and buffers.   *)
(*                                                                         *)
(* The invariant that makes NeverGoesBack inductive says why a commit      *)
(* without a buffer may empty the queue: the pending state has no texture  *)
(* only when what was attached last is in shared memory or null, and then  *)
(* nothing waits any more once that was committed.                         *)
(*                                                                         *)
(* The invariant of the counts says what is counted: the references of the *)
(* attached, current and queued states and of the frames.  A step of one   *)
(* surface changes the count by what that surface refers to (StepCounts),  *)
(* a step of one frame by what the frame does (FrameCounts).               *)
(***************************************************************************)
EXTENDS SurfaceCommits, SequenceTheorems, FiniteSetTheorems, TLAPS

States == [buffer : Buffers, id : Ids]

Shapes ==
    /\ pending \in [Surfaces -> [new : BOOLEAN, buffer : MaybeBuffer, tex : BOOLEAN]]
    /\ queued \in [Surfaces -> Seq(States)]
    /\ shown \in [Surfaces -> MaybeBuffer]
    /\ last \in [Surfaces -> MaybeBuffer]

\* An attached dmabuf has a texture and nothing else has, and the surfaces with a syncobj attach
\* no other buffers.
Textured(s) ==
    /\ pending[s].buffer \in Buffers \ Shm => pending[s].tex
    /\ pending[s].buffer \in Shm => s \notin Explicit
    /\ pending[s].buffer # Nothing => pending[s].new
    /\ pending[s].new /\ pending[s].buffer = Nothing => ~ pending[s].tex

\* A pending state that was reset and has no texture has nothing that waits before it.
NothingBefore(s) == ~ pending[s].new /\ ~ pending[s].tex => queued[s] = << >>

Newest(s) ==
    last[s] = IF queued[s] = << >> THEN shown[s] ELSE queued[s][Len(queued[s])].buffer

SInv == Shapes /\ \A s \in Surfaces : Textured(s) /\ NothingBefore(s) /\ Newest(s)

\* The variables SInv speaks of.
svars == <<pending, queued, shown, last>>

LEMMA InitSInv == SurfaceAssumption /\ Init => SInv
BY DEF SurfaceAssumption, Init, SInv, Shapes, Textured, NothingBefore, Newest, Blank, MaybeBuffer, States

LEMMA SInvStutter == SInv /\ UNCHANGED svars => SInv'
BY DEF SInv, svars, Shapes, Textured, NothingBefore, Newest

\* A step that gives s new values and leaves the other surfaces alone keeps the invariant when it
\* holds of the new values.
LEMMA OneSurface ==
    ASSUME SInv, NEW s \in Surfaces,
           NEW p \in [new : BOOLEAN, buffer : MaybeBuffer, tex : BOOLEAN],
           NEW q \in Seq(States), NEW x \in MaybeBuffer, NEW y \in MaybeBuffer,
           pending' = [pending EXCEPT ![s] = p], queued' = [queued EXCEPT ![s] = q],
           shown' = [shown EXCEPT ![s] = x], last' = [last EXCEPT ![s] = y],
           p.buffer \in Buffers \ Shm => p.tex,
           p.buffer \in Shm => s \notin Explicit,
           p.buffer # Nothing => p.new,
           p.new /\ p.buffer = Nothing => ~ p.tex,
           ~ p.new /\ ~ p.tex => q = << >>,
           y = IF q = << >> THEN x ELSE q[Len(q)].buffer
    PROVE  SInv'
<1>1. Shapes'
  BY DEF SInv, Shapes
<1>2. ASSUME NEW t \in Surfaces PROVE (Textured(t) /\ NothingBefore(t) /\ Newest(t))'
  <2>1. CASE t = s
    BY <2>1 DEF SInv, Shapes, Textured, NothingBefore, Newest
  <2>2. CASE t # s
    BY <2>2 DEF SInv, Shapes, Textured, NothingBefore, Newest
  <2> QED BY <2>1, <2>2
<1> QED BY <1>1, <1>2 DEF SInv

\* The part of Apply the invariant speaks of: s shows the n-th state, and the rest waits.
LEMMA AppliedTail ==
    ASSUME NEW q \in Seq(States), NEW n \in DOMAIN q
    PROVE  /\ q[n].buffer \in Buffers
           /\ SubSeq(q, n + 1, Len(q)) \in Seq(States)
           /\ (SubSeq(q, n + 1, Len(q)) = << >>) <=> n = Len(q)
           /\ n # Len(q) => LET r == SubSeq(q, n + 1, Len(q)) IN r[Len(r)] = q[Len(q)]
<1>1. n \in 1..Len(q) /\ Len(q) \in Nat /\ q[n] \in States
  OBVIOUS
<1>2. q[n].buffer \in Buffers
  BY <1>1 DEF States
<1> DEFINE r == SubSeq(q, n + 1, Len(q))
<1>3. \A i \in (n + 1)..Len(q) : q[i] \in States
  BY <1>1
<1>4. /\ r \in Seq(States)
      /\ Len(r) = IF n + 1 <= Len(q) THEN Len(q) - (n + 1) + 1 ELSE 0
      /\ \A i \in 1..(Len(q) - (n + 1) + 1) : r[i] = q[(n + 1) + i - 1]
  BY <1>1, <1>3, SubSeqProperties
<1> HIDE DEF r
<1>5. Len(r) = Len(q) - n
  BY <1>1, <1>4
<1>6. (r = << >>) <=> n = Len(q)
  <2>1. (r = << >>) <=> Len(r) = 0
    BY <1>4, EmptySeq
  <2> QED BY <1>1, <1>5, <2>1
<1>7. ASSUME n # Len(q) PROVE r[Len(r)] = q[Len(q)]
  <2>1. Len(r) \in 1..(Len(q) - (n + 1) + 1) /\ (n + 1) + Len(r) - 1 = Len(q)
    <3>1. n \in Int /\ Len(q) \in Int /\ 1 <= n /\ n < Len(q)
      BY <1>1, <1>7
    <3>2. \A k, l, m \in Int : 1 <= k /\ k < l /\ m = l - k => m \in 1..(l - (k + 1) + 1) /\ (k + 1) + m - 1 = l
      OBVIOUS
    <3>3. Len(r) \in Int
      BY <3>1, <1>5
    <3> QED BY <3>1, <3>2, <3>3, <1>5
  <2>2. r[Len(r)] = q[(n + 1) + Len(r) - 1]
    BY <1>4, <2>1
  <2> QED BY <2>1, <2>2
<1>8. r \in Seq(States) /\ ((r = << >>) <=> n = Len(q)) /\ (n # Len(q) => r[Len(r)] = q[Len(q)])
  BY <1>4, <1>6, <1>7
<1> QED BY <1>2, <1>8 DEF r

LEMMA AttachSInv ==
    ASSUME SInv, SurfaceAssumption, NEW s \in Surfaces, NEW b \in MaybeBuffer, Attach(s, b)
    PROVE  SInv'
<1> DEFINE p == [new |-> TRUE, buffer |-> b, tex |-> b \in Buffers \ Shm]
<1>1. /\ pending' = [pending EXCEPT ![s] = p]
      /\ queued' = [queued EXCEPT ![s] = queued[s]]
      /\ shown' = [shown EXCEPT ![s] = shown[s]]
      /\ last' = [last EXCEPT ![s] = last[s]]
  BY DEF Attach, SInv, Shapes
<1>2. s \in Explicit => b \notin Shm
  BY DEF Attach
<1>3. p \in [new : BOOLEAN, buffer : MaybeBuffer, tex : BOOLEAN]
  OBVIOUS
<1>4. /\ queued[s] \in Seq(States) /\ shown[s] \in MaybeBuffer /\ last[s] \in MaybeBuffer
      /\ last[s] = IF queued[s] = << >> THEN shown[s] ELSE queued[s][Len(queued[s])].buffer
  BY DEF SInv, Shapes, Newest
<1>5. /\ p.buffer \in Buffers \ Shm => p.tex
      /\ p.buffer \in Shm => s \notin Explicit
      /\ p.buffer # Nothing => p.new
      /\ p.new /\ p.buffer = Nothing => ~ p.tex
      /\ ~ p.new /\ ~ p.tex => queued[s] = << >>
  BY <1>2 DEF SurfaceAssumption
<1> HIDE DEF p
<1> QED BY <1>1, <1>3, <1>4, <1>5, OneSurface

\* Resetting the pending state keeps its texture.
LEMMA ResetIs ==
    ASSUME Shapes, NEW s \in Surfaces, Reset(s)
    PROVE  /\ pending' = [pending EXCEPT ![s] = [new |-> FALSE, buffer |-> Nothing, tex |-> pending[s].tex]]
           /\ [new |-> FALSE, buffer |-> Nothing, tex |-> pending[s].tex]
                \in [new : BOOLEAN, buffer : MaybeBuffer, tex : BOOLEAN]
<1>1. pending[s] \in [new : BOOLEAN, buffer : MaybeBuffer, tex : BOOLEAN]
  BY DEF Shapes
<1> QED BY <1>1 DEF Reset, Shapes, MaybeBuffer

-----------------------------------------------------------------------------
\* A commit that applies at once keeps the invariant.
LEMMA CommitNowSInv ==
    ASSUME SInv, SurfaceAssumption, NEW s \in Surfaces, CommitNow(s)
    PROVE  SInv'
<1> DEFINE p == [new |-> FALSE, buffer |-> Nothing, tex |-> pending[s].tex]
           q == IF pending[s].buffer = Nothing /\ ~ pending[s].tex THEN << >> ELSE queued[s]
           x == IF pending[s].new THEN Nothing ELSE shown[s]
           y == IF pending[s].new THEN Nothing ELSE last[s]
<1>1. /\ pending' = [pending EXCEPT ![s] = p]
      /\ p \in [new : BOOLEAN, buffer : MaybeBuffer, tex : BOOLEAN]
  BY ResetIs DEF CommitNow, SInv
<1>2. /\ queued' = [queued EXCEPT ![s] = q]
      /\ shown' = [shown EXCEPT ![s] = x]
      /\ last' = [last EXCEPT ![s] = y]
  BY DEF CommitNow, SInv, Shapes
<1>3. /\ q \in Seq(States) /\ x \in MaybeBuffer /\ y \in MaybeBuffer
  BY DEF SInv, Shapes, MaybeBuffer
<1>4. /\ p.buffer \in Buffers \ Shm => p.tex
      /\ p.buffer \in Shm => s \notin Explicit
      /\ p.buffer # Nothing => p.new
      /\ p.new /\ p.buffer = Nothing => ~ p.tex
  BY DEF SurfaceAssumption
<1>5. pending[s].buffer = Nothing
  BY DEF CommitNow, SInv, Textured
<1>6. ~ p.new /\ ~ p.tex => q = << >>
  BY <1>5
<1>7. y = IF q = << >> THEN x ELSE q[Len(q)].buffer
  <2>1. CASE pending[s].new /\ ~ pending[s].tex
    BY <1>5, <2>1
  <2>2. CASE ~ pending[s].new
    BY <1>5, <2>2 DEF SInv, NothingBefore, Newest
  <2>3. pending[s].new => ~ pending[s].tex
    BY <1>5 DEF SInv, Textured
  <2> QED BY <2>1, <2>2, <2>3
<1> HIDE DEF p, q, x, y
<1> QED BY <1>1, <1>2, <1>3, <1>4, <1>6, <1>7, OneSurface

\* A commit of a buffer that is applied, or that waits.
LEMMA CommitBufferSInv ==
    ASSUME SInv, SurfaceAssumption, NEW s \in Surfaces, CommitBuffer(s)
    PROVE  SInv'
<1> DEFINE b     == pending[s].buffer
           entry == [buffer |-> b, id |-> FreshId(s)]
           q     == Append(queued[s], entry)
           p     == [new |-> FALSE, buffer |-> Nothing, tex |-> pending[s].tex]
<1>1. /\ pending' = [pending EXCEPT ![s] = p]
      /\ p \in [new : BOOLEAN, buffer : MaybeBuffer, tex : BOOLEAN]
      /\ last' = [last EXCEPT ![s] = b]
  BY ResetIs DEF CommitBuffer, SInv
<1>2. b \in Buffers /\ b \in MaybeBuffer
  BY DEF CommitBuffer, SInv, Shapes, MaybeBuffer
<1>3. FreshId(s) \in Ids
  <2>1. FreeIds(s) # {} /\ FreeIds(s) \subseteq Ids
    BY DEF CommitBuffer, FreeIds, Ids
  <2> QED BY <2>1 DEF FreshId
<1>4. queued[s] \in Seq(States) /\ entry \in States
  BY <1>2, <1>3 DEF SInv, Shapes, States
<1>5. /\ q \in Seq(States) /\ Len(q) \in DOMAIN q /\ q[Len(q)] = entry /\ q # << >>
  BY <1>4
<1>6. /\ p.buffer \in Buffers \ Shm => p.tex
      /\ p.buffer \in Shm => s \notin Explicit
      /\ p.buffer # Nothing => p.new
      /\ p.new /\ p.buffer = Nothing => ~ p.tex
  BY DEF SurfaceAssumption
<1>7. CASE Apply(s, q, Len(q), {b}, [points EXCEPT ![b] = IF s \in Explicit THEN @ \cup {{}} ELSE @])
  <2>1. /\ queued' = [queued EXCEPT ![s] = SubSeq(q, Len(q) + 1, Len(q))]
        /\ shown' = [shown EXCEPT ![s] = q[Len(q)].buffer]
    BY <1>7 DEF Apply
  <2>2. SubSeq(q, Len(q) + 1, Len(q)) = << >> /\ SubSeq(q, Len(q) + 1, Len(q)) \in Seq(States)
    BY <1>5, AppliedTail
  <2>3. q[Len(q)].buffer = b
    BY <1>5
  <2>4. queued' = [queued EXCEPT ![s] = << >>] /\ shown' = [shown EXCEPT ![s] = b] /\ << >> \in Seq(States)
    BY <2>1, <2>2, <2>3
  <2>5. b = IF << >> = << >> THEN b ELSE << >>[Len(<< >>)].buffer
    OBVIOUS
  <2>6. ~ p.new /\ ~ p.tex => << >> = << >>
    OBVIOUS
  <2> HIDE DEF b, entry, q, p
  <2> QED BY <1>1, <1>2, <1>6, <2>4, <2>5, <2>6, OneSurface
<1>8. CASE /\ s \in Explicit \/ b \notin Shm
           /\ queued' = [queued EXCEPT ![s] = q]
           /\ UNCHANGED shown
  <2>1. shown' = [shown EXCEPT ![s] = shown[s]] /\ shown[s] \in MaybeBuffer
    BY <1>8 DEF SInv, Shapes
  <2>2. ~ p.new /\ ~ p.tex => q = << >>
    <3>1. b \notin Shm
      BY <1>8 DEF SInv, Textured
    <3> QED BY <3>1, <1>2 DEF SInv, Textured
  <2>3. b = IF q = << >> THEN shown[s] ELSE q[Len(q)].buffer
    BY <1>5
  <2> HIDE DEF b, entry, q, p
  <2> QED BY <1>1, <1>2, <1>5, <1>6, <1>8, <2>1, <2>2, <2>3, OneSurface
<1> QED BY <1>7, <1>8 DEF CommitBuffer

LEMMA ReadableSInv ==
    ASSUME SInv, SurfaceAssumption, NEW s \in Surfaces, NEW id \in Ids, Readable(s, id)
    PROVE  SInv'
<1>1. CASE UNCHANGED svars
  BY <1>1, SInvStutter
<1>2. ASSUME NEW n \in DOMAIN queued[s], Apply(s, queued[s], n, {}, points)
      PROVE  SInv'
  <2> DEFINE q == queued[s]
             r == SubSeq(q, n + 1, Len(q))
             p == pending[s]
  <2>1. q \in Seq(States) /\ p \in [new : BOOLEAN, buffer : MaybeBuffer, tex : BOOLEAN] /\ last[s] \in MaybeBuffer
    BY DEF SInv, Shapes
  <2>2. /\ q[n].buffer \in Buffers /\ r \in Seq(States)
        /\ (r = << >>) <=> n = Len(q)
        /\ n # Len(q) => r[Len(r)] = q[Len(q)]
    BY <2>1, <1>2, AppliedTail
  <2>3. /\ pending' = [pending EXCEPT ![s] = p]
        /\ queued' = [queued EXCEPT ![s] = r]
        /\ shown' = [shown EXCEPT ![s] = q[n].buffer]
        /\ last' = [last EXCEPT ![s] = last[s]]
    BY <1>2 DEF Readable, Apply, SInv, Shapes
  <2>4. q # << >>
    BY <1>2
  <2>5. last[s] = q[Len(q)].buffer
    BY <2>4 DEF SInv, Newest
  <2>6. last[s] = IF r = << >> THEN q[n].buffer ELSE r[Len(r)].buffer
    BY <2>2, <2>5
  <2>7. /\ p.buffer \in Buffers \ Shm => p.tex
        /\ p.buffer \in Shm => s \notin Explicit
        /\ p.buffer # Nothing => p.new
        /\ p.new /\ p.buffer = Nothing => ~ p.tex
    BY DEF SInv, Textured
  <2>8. ~ p.new /\ ~ p.tex => r = << >>
    BY <2>4 DEF SInv, NothingBefore
  <2>9. q[n].buffer \in MaybeBuffer
    BY <2>2 DEF MaybeBuffer
  <2> HIDE DEF q, r, p
  <2> QED BY <2>1, <2>2, <2>3, <2>6, <2>7, <2>8, <2>9, OneSurface
<1> QED BY <1>1, <1>2 DEF Readable, svars

LEMMA DestroySInv ==
    ASSUME SInv, SurfaceAssumption, NEW s \in Surfaces, Destroy(s)
    PROVE  SInv'
<1> DEFINE p == [new |-> FALSE, buffer |-> Nothing, tex |-> FALSE]
<1>1. /\ pending' = [pending EXCEPT ![s] = p]
      /\ queued' = [queued EXCEPT ![s] = << >>]
      /\ shown' = [shown EXCEPT ![s] = Nothing]
      /\ last' = [last EXCEPT ![s] = Nothing]
  BY DEF Destroy, Blank
<1>2. /\ p \in [new : BOOLEAN, buffer : MaybeBuffer, tex : BOOLEAN]
      /\ Nothing \in MaybeBuffer /\ << >> \in Seq(States)
  BY DEF MaybeBuffer
<1>3. /\ p.buffer \in Buffers \ Shm => p.tex
      /\ p.buffer \in Shm => s \notin Explicit
      /\ p.buffer # Nothing => p.new
      /\ p.new /\ p.buffer = Nothing => ~ p.tex
      /\ ~ p.new /\ ~ p.tex => << >> = << >>
      /\ Nothing = IF << >> = << >> THEN Nothing ELSE << >>[Len(<< >>)].buffer
  BY DEF SurfaceAssumption
<1> HIDE DEF p
<1> QED BY <1>1, <1>2, <1>3, OneSurface

\* Every step keeps the invariant.
LEMMA SInvStep == SurfaceAssumption /\ SInv /\ [Next]_vars => SInv'
<1> SUFFICES ASSUME SurfaceAssumption, SInv, [Next]_vars PROVE SInv'
  OBVIOUS
<1>1. CASE UNCHANGED vars
  BY <1>1, SInvStutter DEF vars, svars
<1>2. ASSUME NEW s \in Surfaces, Request(s) PROVE SInv'
  <2>1. ASSUME NEW b \in MaybeBuffer, Attach(s, b) PROVE SInv'
    BY <2>1, AttachSInv
  <2>2. CASE CommitNow(s)
    BY <2>2, CommitNowSInv
  <2>3. CASE CommitBuffer(s)
    BY <2>3, CommitBufferSInv
  <2>4. CASE TakeRole(s)
    BY <2>4, SInvStutter DEF TakeRole, svars
  <2>5. CASE DropRole(s)
    BY <2>5, SInvStutter DEF DropRole, svars
  <2>6. CASE SetSync(s)
    BY <2>6, SInvStutter DEF SetSync, svars
  <2>7. CASE Destroy(s)
    BY <2>7, DestroySInv
  <2>8. CASE Create(s)
    BY <2>8, SInvStutter DEF Create, svars
  <2> QED BY <1>2, <2>1, <2>2, <2>3, <2>4, <2>5, <2>6, <2>7, <2>8 DEF Request
<1>3. ASSUME NEW s \in Surfaces, NEW id \in Ids, Readable(s, id) PROVE SInv'
  BY <1>3, ReadableSInv
<1>4. ASSUME NEW j \in Jobs, NEW drawn \in SUBSET Surfaces, Render(j, drawn) PROVE SInv'
  BY <1>4, SInvStutter DEF Render, svars
<1>5. ASSUME NEW j \in Jobs, Rendered(j) PROVE SInv'
  BY <1>5, SInvStutter DEF Rendered, svars
<1> QED BY <1>1, <1>2, <1>3, <1>4, <1>5 DEF Next

\* What a surface shows never goes back, for any surfaces, buffers and bounds.
THEOREM NeverGoesBackHolds == Spec => []NeverGoesBack
<1> USE SurfaceAssumption
<1>1. Init => SInv
  BY InitSInv
<1>2. SInv /\ [Next]_vars => SInv'
  BY SInvStep
<1>3. SInv => NeverGoesBack
  BY DEF SInv, Newest, NeverGoesBack
<1> QED BY <1>1, <1>2, <1>3, PTL DEF Spec

-----------------------------------------------------------------------------
(* Counting *)

\* Two subsets of a finite set that differ in s at most: what s counts for is the difference.
LEMMA CountChange ==
    ASSUME NEW S, IsFiniteSet(S), NEW A \in SUBSET S, NEW B \in SUBSET S, NEW s,
           \A t \in S : t # s => (t \in A <=> t \in B)
    PROVE  /\ Cardinality(A) \in Nat /\ Cardinality(B) \in Nat
           /\ Cardinality(B) = Cardinality(A) - (IF s \in A THEN 1 ELSE 0) + (IF s \in B THEN 1 ELSE 0)
<1>1. IsFiniteSet(A) /\ IsFiniteSet(B)
  BY FS_Subset
<1>2. Cardinality(A) \in Nat /\ Cardinality(B) \in Nat
  BY <1>1, FS_CardinalityType
<1>3. A \ {s} = B \ {s}
  OBVIOUS
<1>4. Cardinality(A \ {s}) = IF s \in A THEN Cardinality(A) - 1 ELSE Cardinality(A)
  BY <1>1, FS_RemoveElement
<1>5. Cardinality(B \ {s}) = IF s \in B THEN Cardinality(B) - 1 ELSE Cardinality(B)
  BY <1>1, FS_RemoveElement
<1>6. Cardinality(A \ {s}) = Cardinality(B \ {s})
  BY <1>3
<1> DEFINE c == Cardinality(A)  d == Cardinality(B)  e == Cardinality(A \ {s})
<1>7. c \in Nat /\ d \in Nat /\ e = (IF s \in A THEN c - 1 ELSE c) /\ e = (IF s \in B THEN d - 1 ELSE d)
  BY <1>2, <1>4, <1>5, <1>6
<1> HIDE DEF c, d, e
<1>8. d = c - (IF s \in A THEN 1 ELSE 0) + (IF s \in B THEN 1 ELSE 0)
  BY <1>7
<1> QED BY <1>7, <1>8 DEF c, d

\* The pairs of s and an element of K are as many as the elements of K.
LEMMA Tagged ==
    ASSUME NEW s, NEW K, IsFiniteSet(K)
    PROVE  IsFiniteSet({<<s, i>> : i \in K}) /\ Cardinality({<<s, i>> : i \in K}) = Cardinality(K)
<1> DEFINE T == {<<s, i>> : i \in K}
           f == [i \in K |-> <<s, i>>]
<1>1. f \in Bijection(K, T)
  <2>1. f \in [K -> T] /\ \A t \in T : \E i \in K : f[i] = t
    OBVIOUS
  <2>2. \A i, k \in K : f[i] = f[k] => i = k
    OBVIOUS
  <2> QED BY <2>1, <2>2 DEF Bijection, Injection, Surjection, IsInjective
<1>2. ExistsBijection(K, T)
  BY <1>1 DEF ExistsBijection
<1> QED BY <1>2, FS_Bijection

\* A disjoint union is as large as its two parts.
LEMMA Disjoint ==
    ASSUME NEW A, NEW B, IsFiniteSet(A), IsFiniteSet(B), A \cap B = {}
    PROVE  /\ IsFiniteSet(A \cup B)
           /\ Cardinality(A) \in Nat /\ Cardinality(B) \in Nat
           /\ Cardinality(A \cup B) = Cardinality(A) + Cardinality(B)
<1>1. IsFiniteSet(A \cup B) /\ Cardinality(A \cup B) = Cardinality(A) + Cardinality(B) - Cardinality(A \cap B)
  BY FS_Union
<1>2. Cardinality(A) \in Nat /\ Cardinality(B) \in Nat
  BY FS_CardinalityType
<1>3. Cardinality(A \cap B) = 0
  BY FS_EmptySet
<1> QED BY <1>1, <1>2, <1>3

\* The pairs of each s and the elements of F[s].
Fibres(S, F) == UNION {{<<s, i>> : i \in F[s]} : s \in S}

LEMMA FibresFinite ==
    ASSUME NEW S, IsFiniteSet(S), NEW F, \A s \in S : IsFiniteSet(F[s])
    PROVE  IsFiniteSet(Fibres(S, F)) /\ Cardinality(Fibres(S, F)) \in Nat
<1> DEFINE all == {{<<s, i>> : i \in F[s]} : s \in S}
           f == [s \in S |-> {<<s, i>> : i \in F[s]}]
<1>1. f \in Surjection(S, all)
  BY DEF Surjection
<1>2. IsFiniteSet(all)
  BY <1>1, FS_Surjection
<1>3. \A s \in S : IsFiniteSet({<<s, i>> : i \in F[s]})
  BY Tagged
<1>4. \A X \in all : IsFiniteSet(X)
  BY <1>3
<1>5. IsFiniteSet(UNION all)
  BY <1>2, <1>4, FS_UNION
<1> QED BY <1>5, FS_CardinalityType DEF Fibres

LEMMA FibreChange ==
    ASSUME NEW S, IsFiniteSet(S), NEW F, NEW G, NEW s \in S,
           \A t \in S : IsFiniteSet(F[t]) /\ IsFiniteSet(G[t]),
           \A t \in S \ {s} : F[t] = G[t]
    PROVE  /\ Cardinality(F[s]) \in Nat /\ Cardinality(G[s]) \in Nat
           /\ Cardinality(Fibres(S, F)) \in Nat /\ Cardinality(Fibres(S, G)) \in Nat
           /\ Cardinality(Fibres(S, G)) = Cardinality(Fibres(S, F)) - Cardinality(F[s]) + Cardinality(G[s])
<1> DEFINE R == {x \in Fibres(S, F) : x[1] # s}
           A == {<<s, i>> : i \in F[s]}
           B == {<<s, i>> : i \in G[s]}
<1>1. Fibres(S, F) = R \cup A /\ R \cap A = {}
  BY DEF Fibres
<1>2. Fibres(S, G) = R \cup B /\ R \cap B = {}
  <2>1. \A x : x \in Fibres(S, F) <=> \E t \in S : \E i \in F[t] : x = <<t, i>>
    BY DEF Fibres
  <2>2. \A x : x \in Fibres(S, G) <=> \E t \in S : \E i \in G[t] : x = <<t, i>>
    BY DEF Fibres
  <2>3. \A x \in Fibres(S, G) : x \in R \/ x \in B
    BY <2>1, <2>2
  <2>4. \A x \in R \cup B : x \in Fibres(S, G)
    BY <2>1, <2>2
  <2> QED BY <2>3, <2>4
<1>3. IsFiniteSet(F[s]) /\ IsFiniteSet(G[s]) /\ IsFiniteSet(R)
  BY FibresFinite, FS_Subset
<1>4. /\ IsFiniteSet(A) /\ Cardinality(A) = Cardinality(F[s])
      /\ IsFiniteSet(B) /\ Cardinality(B) = Cardinality(G[s])
  BY <1>3, Tagged
<1> HIDE DEF R, A, B
<1>5. Cardinality(Fibres(S, F)) = Cardinality(R) + Cardinality(A)
  BY <1>1, <1>3, <1>4, Disjoint
<1>6. Cardinality(Fibres(S, G)) = Cardinality(R) + Cardinality(B)
  BY <1>2, <1>3, <1>4, Disjoint
<1>7. Cardinality(R) \in Nat /\ Cardinality(A) \in Nat /\ Cardinality(B) \in Nat
  BY <1>3, <1>4, FS_CardinalityType
<1> QED BY <1>4, <1>5, <1>6, <1>7

\* Where b occurs in a sequence of buffers.
Places(b, refs) == {i \in DOMAIN refs : refs[i] = b}

LEMMA OccursFinite ==
    ASSUME NEW b, NEW T, NEW r \in Seq(T)
    PROVE  IsFiniteSet(Places(b, r)) /\ Occurs(b, r) \in Nat /\ Occurs(b, r) = Cardinality(Places(b, r))
<1>1. DOMAIN r = 1..Len(r) /\ Len(r) \in Nat
  OBVIOUS
<1>2. IsFiniteSet(DOMAIN r)
  BY <1>1, FS_Interval
<1>3. IsFiniteSet(Places(b, r))
  BY <1>2, FS_Subset DEF Places
<1> QED BY <1>3, FS_CardinalityType DEF Occurs, Places

LEMMA OccursOne ==
    ASSUME NEW b, NEW x
    PROVE  /\ Occurs(b, << >>) = 0
           /\ Occurs(b, <<x>>) = IF x = b THEN 1 ELSE 0
<1>1. {i \in DOMAIN << >> : << >>[i] = b} = {}
  OBVIOUS
<1>2. {i \in DOMAIN <<x>> : <<x>>[i] = b} = IF x = b THEN {1} ELSE {}
  OBVIOUS
<1> QED BY <1>1, <1>2, FS_EmptySet, FS_Singleton DEF Occurs

\* What occurs in two sequences occurs in the one after the other.
LEMMA OccursConcat ==
    ASSUME NEW b, NEW T, NEW r \in Seq(T), NEW t \in Seq(T)
    PROVE  Occurs(b, r \o t) = Occurs(b, r) + Occurs(b, t)
<1> DEFINE m == Len(r)
           n == Len(t)
           A == Places(b, r)
           B == Places(b, t)
           C == {m + i : i \in B}
           f == [i \in B |-> m + i]
<1>1. /\ m \in Nat /\ n \in Nat /\ DOMAIN r = 1..m /\ DOMAIN t = 1..n
      /\ r \o t \in Seq(T) /\ DOMAIN (r \o t) = 1..(m + n)
      /\ \A i \in 1..(m + n) : (r \o t)[i] = IF i <= m THEN r[i] ELSE t[i - m]
  BY ConcatProperties
<1>2. IsFiniteSet(A) /\ IsFiniteSet(B) /\ B \subseteq 1..n /\ A \subseteq 1..m
  BY <1>1, OccursFinite DEF Places
<1>3. f \in Bijection(B, C)
  <2>1. f \in [B -> C] /\ \A c \in C : \E i \in B : f[i] = c
    OBVIOUS
  <2>2. \A i, k \in B : f[i] = f[k] => i = k
    BY <1>1, <1>2
  <2> QED BY <2>1, <2>2 DEF Bijection, Injection, Surjection, IsInjective
<1>4. IsFiniteSet(C) /\ Cardinality(C) = Cardinality(B)
  BY <1>2, <1>3, FS_Bijection DEF ExistsBijection
<1>5. Places(b, r \o t) = A \cup C
  <2> SUFFICES ASSUME NEW i
               PROVE  i \in Places(b, r \o t) <=> i \in A \cup C
    OBVIOUS
  <2>1. i \in Places(b, r \o t) <=> i \in 1..(m + n) /\ (r \o t)[i] = b
    BY <1>1 DEF Places
  <2>2. i \in A <=> i \in 1..m /\ r[i] = b
    BY <1>1 DEF Places
  <2>3. i \in C <=> i \in (m + 1)..(m + n) /\ t[i - m] = b
    <3>1. i \in C <=> \E k \in 1..n : t[k] = b /\ i = m + k
      BY <1>1 DEF Places
    <3>2. ASSUME i \in C PROVE i \in (m + 1)..(m + n) /\ t[i - m] = b
      <4>1. PICK k \in 1..n : t[k] = b /\ i = m + k
        BY <3>1, <3>2
      <4>2. i - m = k
        BY <1>1, <4>1
      <4> QED BY <1>1, <4>1, <4>2
    <3>3. ASSUME i \in (m + 1)..(m + n), t[i - m] = b PROVE i \in C
      <4>1. i - m \in 1..n /\ i = m + (i - m)
        BY <1>1, <3>3
      <4> QED BY <3>1, <3>3, <4>1
    <3> QED BY <3>2, <3>3
  <2> HIDE DEF A, B, C, f
  <2>4. CASE i \in 1..m
    <3>1. i \in 1..(m + n) /\ i <= m /\ i \notin (m + 1)..(m + n)
      BY <1>1, <2>4
    <3> QED BY <1>1, <2>1, <2>2, <2>3, <2>4, <3>1
  <2>5. CASE i \in (m + 1)..(m + n)
    <3>1. i \in 1..(m + n) /\ ~ (i <= m) /\ i \notin 1..m
      BY <1>1, <2>5
    <3> QED BY <1>1, <2>1, <2>2, <2>3, <2>5, <3>1
  <2>6. CASE i \notin 1..m /\ i \notin (m + 1)..(m + n)
    <3>1. i \notin 1..(m + n)
      BY <1>1, <2>6
    <3> QED BY <2>1, <2>2, <2>3, <2>6, <3>1
  <2> QED BY <2>4, <2>5, <2>6
<1>6. A \cap C = {}
  BY <1>1, <1>2
<1> HIDE DEF A, B, C, f
<1>7. Cardinality(A \cup C) = Cardinality(A) + Cardinality(C)
  BY <1>2, <1>4, <1>6, Disjoint
<1>8. Occurs(b, r \o t) = Cardinality(A \cup C)
  BY <1>1, <1>5, OccursFinite
<1>9. Occurs(b, r) = Cardinality(A) /\ Occurs(b, t) = Cardinality(B)
  BY OccursFinite DEF A, B
<1> QED BY <1>4, <1>7, <1>8, <1>9

-----------------------------------------------------------------------------
(* The references to a buffer, in four parts, in any states and frames *)

PendingOf(pend, b) == {s \in Surfaces : pend[s].buffer = b}
CurrentOf(cur, b)  == {s \in Surfaces : cur[s] = b}
Waits(que, b)      == [s \in Surfaces |-> {k \in DOMAIN que[s] : que[s][k].buffer = b}]
Holds(frames, b)   == [j \in Jobs |-> {h \in frames[j].holds : h[2] = b}]

Count(pend, cur, que, frames, b) ==
      Cardinality(PendingOf(pend, b)) + Cardinality(CurrentOf(cur, b))
    + Cardinality(Fibres(Surfaces, Waits(que, b))) + Cardinality(Fibres(Jobs, Holds(frames, b)))

\* The states and frames have their types.
Queues == [Surfaces -> Seq(States)]
Frames == [Jobs -> [reads : SUBSET Buffers, holds : SUBSET (Surfaces \X Buffers)]]

LEMMA ReferencesAre ==
    /\ \A b : References(b) = Count(pending, current, queued, jobs, b)
    /\ \A b : References(b)' = Count(pending', current', queued', jobs', b)
<1>1. \A que, b : UNION {{<<s, i>> : i \in {k \in DOMAIN que[s] : que[s][k].buffer = b}} : s \in Surfaces}
               = Fibres(Surfaces, Waits(que, b))
  BY DEF Fibres, Waits
<1>2. \A frames, b : UNION {{<<j, u>> : u \in {h \in frames[j].holds : h[2] = b}} : j \in Jobs}
               = Fibres(Jobs, Holds(frames, b))
  BY DEF Fibres, Holds
<1> QED BY <1>1, <1>2 DEF References, Count, PendingOf, CurrentOf

LEMMA BuffersAre ==
    ASSUME NEW q \in Seq(States)
    PROVE  /\ BuffersOf(q) \in Seq(Buffers) /\ Len(BuffersOf(q)) = Len(q)
           /\ \A b : Places(b, BuffersOf(q)) = {k \in DOMAIN q : q[k].buffer = b}
<1>1. /\ Len(q) \in Nat /\ DOMAIN q = 1..Len(q)
      /\ \A i \in 1..Len(q) : q[i] \in States
  OBVIOUS
<1>2. BuffersOf(q) = [i \in 1..Len(q) |-> q[i].buffer]
  BY <1>1 DEF BuffersOf
<1>3. \A i \in 1..Len(q) : q[i].buffer \in Buffers
  BY <1>1 DEF States
<1> QED BY <1>1, <1>2, <1>3, SeqDef DEF Places

LEMMA WaitsFinite ==
    ASSUME NEW que \in Queues, NEW b, NEW s \in Surfaces
    PROVE  /\ IsFiniteSet(Waits(que, b)[s])
           /\ Cardinality(Waits(que, b)[s]) = Occurs(b, BuffersOf(que[s]))
           /\ Occurs(b, BuffersOf(que[s])) \in Nat
<1>1. que[s] \in Seq(States)
  BY DEF Queues
<1>2. Waits(que, b)[s] = Places(b, BuffersOf(que[s]))
  BY <1>1, BuffersAre DEF Waits
<1> QED BY <1>1, <1>2, BuffersAre, OccursFinite

LEMMA HoldsFinite ==
    ASSUME SurfaceAssumption, NEW frames \in Frames, NEW b, NEW j \in Jobs
    PROVE  IsFiniteSet(Holds(frames, b)[j])
<1>1. IsFiniteSet(Surfaces \X Buffers)
  BY FS_Product DEF SurfaceAssumption
<1>2. Holds(frames, b)[j] \subseteq Surfaces \X Buffers
  BY DEF Holds, Frames
<1> QED BY <1>1, <1>2, FS_Subset

LEMMA CountIsNat ==
    ASSUME SurfaceAssumption, NEW que \in Queues, NEW frames \in Frames, NEW pend, NEW cur, NEW b
    PROVE  /\ Cardinality(PendingOf(pend, b)) \in Nat /\ Cardinality(CurrentOf(cur, b)) \in Nat
           /\ Cardinality(Fibres(Surfaces, Waits(que, b))) \in Nat
           /\ Cardinality(Fibres(Jobs, Holds(frames, b))) \in Nat
           /\ Count(pend, cur, que, frames, b) \in Nat
<1>1. IsFiniteSet(Surfaces) /\ IsFiniteSet(Jobs)
  BY DEF SurfaceAssumption
<1>2. Cardinality(PendingOf(pend, b)) \in Nat /\ Cardinality(CurrentOf(cur, b)) \in Nat
  BY <1>1, FS_Subset, FS_CardinalityType DEF PendingOf, CurrentOf
<1>3. Cardinality(Fibres(Surfaces, Waits(que, b))) \in Nat
  BY <1>1, WaitsFinite, FibresFinite
<1>4. Cardinality(Fibres(Jobs, Holds(frames, b))) \in Nat
  BY <1>1, HoldsFinite, FibresFinite
<1> QED BY <1>2, <1>3, <1>4 DEF Count

One(x, b) == IF x = b THEN 1 ELSE 0

\* States that differ in those of one surface have its references in the place of the others.
LEMMA OneSurfaceCounts ==
    ASSUME SurfaceAssumption, NEW s \in Surfaces, NEW b,
           NEW que \in Queues, NEW que2 \in Queues, NEW frames \in Frames, NEW frames2 \in Frames,
           NEW pend, NEW pend2, NEW cur, NEW cur2,
           \A t \in Surfaces \ {s} : pend2[t].buffer = pend[t].buffer /\ cur2[t] = cur[t] /\ que2[t] = que[t],
           \A j \in Jobs : frames2[j].holds = frames[j].holds
    PROVE  Count(pend2, cur2, que2, frames2, b) =
             Count(pend, cur, que, frames, b) - One(pend[s].buffer, b) + One(pend2[s].buffer, b)
                - One(cur[s], b) + One(cur2[s], b)
                - Occurs(b, BuffersOf(que[s])) + Occurs(b, BuffersOf(que2[s]))
<1>1. IsFiniteSet(Surfaces) /\ IsFiniteSet(Jobs)
  BY DEF SurfaceAssumption
<1>2. Cardinality(PendingOf(pend2, b))
        = Cardinality(PendingOf(pend, b)) - One(pend[s].buffer, b) + One(pend2[s].buffer, b)
  <2> DEFINE A == PendingOf(pend, b)
             B == PendingOf(pend2, b)
  <2>1. A \in SUBSET Surfaces /\ B \in SUBSET Surfaces /\ \A t \in Surfaces : t # s => (t \in A <=> t \in B)
    BY DEF PendingOf
  <2>2. (s \in A <=> pend[s].buffer = b) /\ (s \in B <=> pend2[s].buffer = b)
    BY DEF PendingOf
  <2> HIDE DEF A, B
  <2>3. Cardinality(B) = Cardinality(A) - (IF s \in A THEN 1 ELSE 0) + (IF s \in B THEN 1 ELSE 0)
    BY <1>1, <2>1, CountChange
  <2>4. Cardinality(B) = Cardinality(A) - One(pend[s].buffer, b) + One(pend2[s].buffer, b)
    BY <2>2, <2>3 DEF One
  <2> QED BY <2>4 DEF A, B
<1>3. Cardinality(CurrentOf(cur2, b)) = Cardinality(CurrentOf(cur, b)) - One(cur[s], b) + One(cur2[s], b)
  <2> DEFINE A == CurrentOf(cur, b)
             B == CurrentOf(cur2, b)
  <2>1. A \in SUBSET Surfaces /\ B \in SUBSET Surfaces /\ \A t \in Surfaces : t # s => (t \in A <=> t \in B)
    BY DEF CurrentOf
  <2>2. (s \in A <=> cur[s] = b) /\ (s \in B <=> cur2[s] = b)
    BY DEF CurrentOf
  <2> HIDE DEF A, B
  <2>3. Cardinality(B) = Cardinality(A) - (IF s \in A THEN 1 ELSE 0) + (IF s \in B THEN 1 ELSE 0)
    BY <1>1, <2>1, CountChange
  <2>4. Cardinality(B) = Cardinality(A) - One(cur[s], b) + One(cur2[s], b)
    BY <2>2, <2>3 DEF One
  <2> QED BY <2>4 DEF A, B
<1>4. Cardinality(Fibres(Surfaces, Waits(que2, b)))
        = Cardinality(Fibres(Surfaces, Waits(que, b)))
            - Occurs(b, BuffersOf(que[s])) + Occurs(b, BuffersOf(que2[s]))
  <2> DEFINE F == Waits(que, b)
             G == Waits(que2, b)
  <2>1. \A t \in Surfaces : IsFiniteSet(F[t]) /\ IsFiniteSet(G[t])
    BY WaitsFinite
  <2>2. \A t \in Surfaces \ {s} : F[t] = G[t]
    BY DEF Waits
  <2>3. Cardinality(F[s]) = Occurs(b, BuffersOf(que[s])) /\ Cardinality(G[s]) = Occurs(b, BuffersOf(que2[s]))
    BY WaitsFinite
  <2> HIDE DEF F, G
  <2>4. Cardinality(Fibres(Surfaces, G)) = Cardinality(Fibres(Surfaces, F)) - Cardinality(F[s]) + Cardinality(G[s])
    BY <1>1, <2>1, <2>2, FibreChange
  <2> QED BY <2>3, <2>4 DEF F, G
<1>5. Holds(frames2, b) = Holds(frames, b)
  BY DEF Holds
<1> DEFINE a1 == Cardinality(PendingOf(pend, b))  a2 == Cardinality(PendingOf(pend2, b))
           c1 == Cardinality(CurrentOf(cur, b))  c2 == Cardinality(CurrentOf(cur2, b))
           d1 == Cardinality(Fibres(Surfaces, Waits(que, b)))  d2 == Cardinality(Fibres(Surfaces, Waits(que2, b)))
           e1 == Cardinality(Fibres(Jobs, Holds(frames, b)))
           f1 == Occurs(b, BuffersOf(que[s]))  f2 == Occurs(b, BuffersOf(que2[s]))
<1>6. a1 \in Nat /\ c1 \in Nat /\ d1 \in Nat /\ e1 \in Nat /\ f1 \in Nat /\ f2 \in Nat
  BY CountIsNat, WaitsFinite
<1>7. /\ Count(pend, cur, que, frames, b) = a1 + c1 + d1 + e1
      /\ Count(pend2, cur2, que2, frames2, b) = a2 + c2 + d2 + e1
  BY <1>5 DEF Count
<1>8. /\ a2 = a1 - One(pend[s].buffer, b) + One(pend2[s].buffer, b)
      /\ c2 = c1 - One(cur[s], b) + One(cur2[s], b)
      /\ d2 = d1 - f1 + f2
  BY <1>2, <1>3, <1>4
<1> HIDE DEF a1, a2, c1, c2, d1, d2, e1, f1, f2
<1>9. \A x, y : One(x, y) \in Int
  BY DEF One
<1>10. Count(pend2, cur2, que2, frames2, b) =
         Count(pend, cur, que, frames, b) - One(pend[s].buffer, b) + One(pend2[s].buffer, b)
                - One(cur[s], b) + One(cur2[s], b) - f1 + f2
  BY <1>6, <1>7, <1>8, <1>9
<1> QED BY <1>10 DEF f1, f2

-----------------------------------------------------------------------------
(* The invariant of the counts *)

RoleTypes ==
    /\ alive \in [Surfaces -> BOOLEAN]
    /\ mapped \in [Surfaces -> BOOLEAN]
    /\ role \in [Surfaces -> {"none", "xdg", "sub"}]
    /\ initial \in [Surfaces -> BOOLEAN]
    /\ shell \in [Surfaces -> BOOLEAN]
    /\ sync \in [Surfaces -> BOOLEAN]
    /\ killed \in BOOLEAN

BufferTypes ==
    /\ points \in [Buffers -> SUBSET SUBSET Jobs]
    /\ jobs \in Frames
    /\ lent \in [Buffers -> BOOLEAN]
    /\ replaced \in [Buffers -> BOOLEAN]

StateTypes ==
    /\ waiting \in [Surfaces -> SUBSET Ids]
    /\ current \in [Surfaces -> MaybeBuffer]

Counted == locks = [b \in Buffers |-> References(b)]

\* A frame that reads a buffer references it, or the client hears of the frame by a point.
ReadersKnown ==
    \A j \in Jobs : \A b \in jobs[j].reads :
        (\E s \in Surfaces : <<s, b>> \in jobs[j].holds) \/ (\E p \in points[b] : j \in p)

CInv == SInv /\ RoleTypes /\ BufferTypes /\ StateTypes /\ Counted /\ NoReleaseLost /\ ReadersKnown

\* Counts that are right are natural numbers, and one at least for every reference there is.
LEMMA CountedIs ==
    ASSUME SurfaceAssumption, CInv
    PROVE  /\ locks \in [Buffers -> Nat]
           /\ \A b \in Buffers : locks[b] = Count(pending, current, queued, jobs, b)
<1>1. queued \in Queues /\ jobs \in Frames
  BY DEF CInv, SInv, Shapes, Queues, BufferTypes
<1>2. \A b \in Buffers : locks[b] = Count(pending, current, queued, jobs, b)
  BY ReferencesAre DEF CInv, Counted
<1>3. \A b \in Buffers : Count(pending, current, queued, jobs, b) \in Nat
  BY <1>1, CountIsNat
<1> QED BY <1>2, <1>3 DEF CInv, Counted

LEMMA InitCInv == SurfaceAssumption /\ Init => CInv
<1> SUFFICES ASSUME SurfaceAssumption, Init PROVE CInv
  OBVIOUS
<1>1. SInv
  BY InitSInv
<1>2. RoleTypes /\ BufferTypes /\ StateTypes /\ NoReleaseLost /\ ReadersKnown
  BY DEF Init, RoleTypes, BufferTypes, StateTypes, NoReleaseLost, ReadersKnown, Frames, Idle, MaybeBuffer
<1>3. ASSUME NEW b \in Buffers PROVE References(b) = 0
  <2>1. b # Nothing
    BY DEF SurfaceAssumption
  <2>2. PendingOf(pending, b) = {} /\ CurrentOf(current, b) = {}
    BY <2>1 DEF Init, PendingOf, CurrentOf, Blank
  <2>3. Fibres(Surfaces, Waits(queued, b)) = {}
    BY DEF Init, Fibres, Waits
  <2>4. Fibres(Jobs, Holds(jobs, b)) = {}
    BY DEF Init, Fibres, Holds, Idle
  <2>5. Cardinality({}) = 0
    BY FS_EmptySet
  <2>6. Count(pending, current, queued, jobs, b) = 0
    BY <2>2, <2>3, <2>4, <2>5 DEF Count
  <2> QED BY <2>6, ReferencesAre
<1>4. Counted
  BY <1>3 DEF Counted, Init
<1> QED BY <1>1, <1>2, <1>4 DEF CInv

LEMMA EmitTypes ==
    ASSUME RoleTypes, NEW s \in Surfaces, NEW now, NEW times, Emit(s, now, times)
    PROVE  RoleTypes'
BY DEF Emit, RoleTypes, Refuses

\* What a release does to the buffers: types are kept, the counts are those given, and what it
\* gives back is not counted any more.
LEMMA ReleaseIs ==
    ASSUME BufferTypes, locks \in [Buffers -> Nat], NEW left, NEW given \in SUBSET Buffers,
           NEW kept \in [Buffers -> SUBSET SUBSET Jobs], NEW frames \in Frames,
           Release(left, given, kept, frames)
    PROVE  /\ BufferTypes' /\ locks' = left
           /\ \A j \in Jobs : jobs'[j].holds = frames[j].holds
           /\ \A b \in Buffers : lent[b] /\ ~ lent'[b] => left[b] = 0
<1> DEFINE back == {b \in Buffers : locks[b] > 0 /\ left[b] = 0}
<1>1. /\ locks' = left
      /\ lent' = [b \in Buffers |-> (lent[b] \/ b \in given) /\ b \notin back]
      /\ replaced' = [b \in Buffers |-> replaced[b] /\ b \notin back]
      /\ points' = [b \in Buffers |-> IF b \in back THEN {} ELSE kept[b]]
      /\ jobs' = [j \in Jobs |-> [reads |-> frames[j].reads \ back, holds |-> frames[j].holds]]
  BY DEF Release
<1>2. \A b \in back : left[b] = 0
  OBVIOUS
<1> HIDE DEF back
<1>3. lent' \in [Buffers -> BOOLEAN] /\ replaced' \in [Buffers -> BOOLEAN]
  BY <1>1
<1>4. points' \in [Buffers -> SUBSET SUBSET Jobs]
  BY <1>1
<1>5. jobs' \in Frames /\ \A j \in Jobs : jobs'[j].holds = frames[j].holds
  <2>1. ASSUME NEW j \in Jobs
        PROVE  [reads |-> frames[j].reads \ back, holds |-> frames[j].holds]
                 \in [reads : SUBSET Buffers, holds : SUBSET (Surfaces \X Buffers)]
    <3>1. frames[j] \in [reads : SUBSET Buffers, holds : SUBSET (Surfaces \X Buffers)]
      BY DEF Frames
    <3>2. frames[j].reads \in SUBSET Buffers /\ frames[j].holds \in SUBSET (Surfaces \X Buffers)
      BY <3>1
    <3>3. frames[j].reads \ back \in SUBSET Buffers
      BY <3>2
    <3> QED BY <3>2, <3>3
  <2> QED BY <1>1, <2>1 DEF Frames
<1> QED BY <1>1, <1>2, <1>3, <1>4, <1>5 DEF BufferTypes

\* Each frame is over, or it is as it was and its points still tell of it.
Spared(frames, kept) ==
    \A j \in Jobs : frames[j].reads = {} \/
        (frames[j] = jobs[j] /\ \A b \in Buffers : \A p \in points[b] : j \in p => \E r \in kept[b] : j \in r)

\* A release loses none: a buffer it leaves without a reference was given back by it, or had
\* none before and is a loss no more than it was.
LEMMA ReleaseKeeps ==
    ASSUME BufferTypes, locks \in [Buffers -> Nat], NoReleaseLost, ReadersKnown,
           NEW left, NEW given \in SUBSET Buffers,
           NEW kept \in [Buffers -> SUBSET SUBSET Jobs], NEW frames \in Frames,
           Release(left, given, kept, frames),
           \A b \in given : locks[b] > 0, Spared(frames, kept)
    PROVE  NoReleaseLost' /\ ReadersKnown'
<1> DEFINE back == {b \in Buffers : locks[b] > 0 /\ left[b] = 0}
<1>1. /\ locks' = left
      /\ lent' = [b \in Buffers |-> (lent[b] \/ b \in given) /\ b \notin back]
      /\ replaced' = [b \in Buffers |-> replaced[b] /\ b \notin back]
      /\ points' = [b \in Buffers |-> IF b \in back THEN {} ELSE kept[b]]
      /\ jobs' = [j \in Jobs |-> [reads |-> frames[j].reads \ back, holds |-> frames[j].holds]]
  BY DEF Release
<1>2. NoReleaseLost'
  <2> SUFFICES ASSUME NEW b \in Buffers, lent'[b], locks'[b] = 0
               PROVE  replaced'[b]
    BY DEF NoReleaseLost
  <2>1. b \notin back /\ left[b] = 0
    BY <1>1
  <2>2. locks[b] = 0
    BY <2>1
  <2>3. b \notin given
    BY <2>2
  <2>4. lent[b]
    BY <1>1, <2>3
  <2>5. replaced[b]
    BY <2>2, <2>4 DEF NoReleaseLost
  <2> HIDE DEF back
  <2> QED BY <1>1, <2>1, <2>5
<1>3. ReadersKnown'
  <2> HIDE DEF back
  <2> SUFFICES ASSUME NEW j \in Jobs, NEW b \in jobs'[j].reads
               PROVE  (\E s \in Surfaces : <<s, b>> \in jobs'[j].holds) \/ (\E p \in points'[b] : j \in p)
    BY DEF ReadersKnown
  <2>1. jobs'[j] = [reads |-> frames[j].reads \ back, holds |-> frames[j].holds]
    BY <1>1
  <2>2. b \in frames[j].reads /\ b \notin back /\ jobs'[j].holds = frames[j].holds
    BY <2>1
  <2>3. /\ frames[j] = jobs[j]
        /\ \A c \in Buffers : \A p \in points[c] : j \in p => \E r \in kept[c] : j \in r
    BY <2>2 DEF Spared
  <2>4. jobs[j] \in [reads : SUBSET Buffers, holds : SUBSET (Surfaces \X Buffers)]
    BY DEF BufferTypes, Frames
  <2>5. b \in Buffers /\ b \in jobs[j].reads
    BY <2>2, <2>3, <2>4
  <2>6. points'[b] = kept[b]
    BY <1>1, <2>2, <2>5
  <2>7. (\E s \in Surfaces : <<s, b>> \in jobs[j].holds) \/ (\E p \in points[b] : j \in p)
    BY <2>5 DEF ReadersKnown
  <2>8. \A p \in points[b] : j \in p => \E r \in kept[b] : j \in r
    BY <2>3, <2>5
  <2> QED BY <2>2, <2>3, <2>6, <2>7, <2>8
<1> QED BY <1>2, <1>3

\* A step that changes the references of one surface, and counts them.
LEMMA StepCounts ==
    ASSUME SurfaceAssumption, CInv, SInv', jobs' \in Frames, NEW s \in Surfaces,
           \A t \in Surfaces \ {s} :
               pending'[t].buffer = pending[t].buffer /\ current'[t] = current[t] /\ queued'[t] = queued[t],
           \A j \in Jobs : jobs'[j].holds = jobs[j].holds,
           locks' = [b \in Buffers |->
                        locks[b] - One(pending[s].buffer, b) + One(pending'[s].buffer, b)
                          - One(current[s], b) + One(current'[s], b)
                          - Occurs(b, BuffersOf(queued[s])) + Occurs(b, BuffersOf(queued'[s]))]
    PROVE  Counted'
<1>1. queued \in Queues /\ queued' \in Queues /\ jobs \in Frames
  BY DEF CInv, SInv, Shapes, Queues, BufferTypes
<1>2. \A b \in Buffers : locks[b] = Count(pending, current, queued, jobs, b)
  BY CountedIs
<1>3. ASSUME NEW b \in Buffers PROVE locks'[b] = Count(pending', current', queued', jobs', b)
  <2>1. Count(pending', current', queued', jobs', b) =
             Count(pending, current, queued, jobs, b) - One(pending[s].buffer, b) + One(pending'[s].buffer, b)
                - One(current[s], b) + One(current'[s], b)
                - Occurs(b, BuffersOf(queued[s])) + Occurs(b, BuffersOf(queued'[s]))
    BY <1>1, OneSurfaceCounts
  <2>2. locks[b] = Count(pending, current, queued, jobs, b)
    BY <1>2
  <2> QED BY <2>1, <2>2
<1>4. \A b \in Buffers : locks'[b] = References(b)'
  BY <1>3, ReferencesAre
<1>5. locks' = [b \in Buffers |-> locks'[b]]
  OBVIOUS
<1>6. locks' = [b \in Buffers |-> References(b)']
  BY <1>4, <1>5
<1> QED BY <1>6 DEF Counted

\* A step that leaves the references and their counts alone.
LEMMA SameCounts ==
    ASSUME SurfaceAssumption, CInv, SInv', jobs' \in Frames,
           \A t \in Surfaces :
               pending'[t].buffer = pending[t].buffer /\ current'[t] = current[t] /\ queued'[t] = queued[t],
           \A j \in Jobs : jobs'[j].holds = jobs[j].holds,
           UNCHANGED locks
    PROVE  Counted'
<1>1. ASSUME NEW b PROVE Count(pending', current', queued', jobs', b) = Count(pending, current, queued, jobs, b)
  <2>1. PendingOf(pending', b) = PendingOf(pending, b) /\ CurrentOf(current', b) = CurrentOf(current, b)
    BY DEF PendingOf, CurrentOf
  <2>2. Waits(queued', b) = Waits(queued, b) /\ Holds(jobs', b) = Holds(jobs, b)
    BY DEF Waits, Holds
  <2> QED BY <2>1, <2>2 DEF Count
<1>2. \A b : References(b)' = References(b)
  BY <1>1, ReferencesAre
<1> QED BY <1>2 DEF CInv, Counted

-----------------------------------------------------------------------------
(* The steps *)

\* A buffer is given back when its count comes to nought, and a frame lets all go or nothing.
GivesBack  == \A b \in Buffers : lent[b] /\ ~ lent'[b] => locks'[b] = 0
FramesKeep == \A j \in Jobs : jobs'[j].holds = jobs[j].holds \/ jobs[j].holds = {} \/ jobs'[j].holds = {}

Kept == CInv' /\ GivesBack /\ FramesKeep

LEMMA OneIs == \A x, b : One(x, b) \in Int /\ Occurs(b, <<x>>) = One(x, b) /\ Occurs(b, << >>) = 0
BY OccursOne DEF One

LEMMA QueueOccurs ==
    ASSUME NEW b, NEW q \in Seq(States)
    PROVE  Occurs(b, BuffersOf(q)) \in Nat
<1>1. BuffersOf(q) \in Seq(Buffers)
  BY BuffersAre
<1> QED BY <1>1, OccursFinite

\* A step of s that releases, and only counts what its references become.
LEMMA ReleaseStep ==
    ASSUME SurfaceAssumption, CInv, SInv', RoleTypes', StateTypes', NEW s \in Surfaces,
           NEW left, NEW given \in SUBSET Buffers, NEW kept \in [Buffers -> SUBSET SUBSET Jobs],
           Release(left, given, kept, jobs),
           \A b \in given : locks[b] > 0,
           \A b \in Buffers : points[b] \subseteq kept[b],
           \A t \in Surfaces \ {s} :
               pending'[t].buffer = pending[t].buffer /\ current'[t] = current[t] /\ queued'[t] = queued[t],
           left = [b \in Buffers |->
                        locks[b] - One(pending[s].buffer, b) + One(pending'[s].buffer, b)
                          - One(current[s], b) + One(current'[s], b)
                          - Occurs(b, BuffersOf(queued[s])) + Occurs(b, BuffersOf(queued'[s]))]
    PROVE  Kept
<1>1. locks \in [Buffers -> Nat] /\ BufferTypes /\ jobs \in Frames /\ NoReleaseLost /\ ReadersKnown
  BY CountedIs DEF CInv, BufferTypes
<1>2. /\ BufferTypes' /\ locks' = left
      /\ \A j \in Jobs : jobs'[j].holds = jobs[j].holds
      /\ \A b \in Buffers : lent[b] /\ ~ lent'[b] => left[b] = 0
  BY <1>1, ReleaseIs
<1>3. Spared(jobs, kept)
  BY DEF Spared
<1>4. NoReleaseLost' /\ ReadersKnown'
  BY <1>1, <1>3, ReleaseKeeps
<1>5. jobs' \in Frames
  BY <1>2 DEF BufferTypes
<1>6. Counted'
  BY <1>2, <1>5, StepCounts
<1> QED BY <1>2, <1>4, <1>6 DEF Kept, CInv, GivesBack, FramesKeep

LEMMA AttachKept ==
    ASSUME SurfaceAssumption, CInv, SInv', NEW s \in Surfaces, NEW b \in MaybeBuffer, Attach(s, b)
    PROVE  Kept
<1> DEFINE old == pending[s].buffer
<1>1. locks \in [Buffers -> Nat] /\ pending \in [Surfaces -> [new : BOOLEAN, buffer : MaybeBuffer, tex : BOOLEAN]]
  BY CountedIs DEF CInv, SInv, Shapes
<1>2. /\ pending' = [pending EXCEPT ![s] = [new |-> TRUE, buffer |-> b, tex |-> b \in Buffers \ Shm]]
      /\ UNCHANGED <<queued, current, jobs, points, lent, waiting, roles>>
      /\ replaced' = [c \in Buffers |-> replaced[c] \/ (c = old /\ lent[c])]
  BY DEF Attach
<1>3. pending'[s].buffer = b /\ \A t \in Surfaces \ {s} : pending'[t].buffer = pending[t].buffer
  BY <1>1, <1>2
<1>4. locks' = [c \in Buffers |-> (locks[c] - Occurs(c, <<old>>)) + Occurs(c, <<b>>)]
  BY DEF Attach, Locked, Unlocked
<1>5. \A c \in Buffers : locks'[c] = locks[c] - One(old, c) + One(b, c)
  BY <1>4, OneIs
<1>6. \A c \in Buffers : /\ One(old, c) \in Int /\ One(b, c) \in Int /\ One(current[s], c) \in Int
                        /\ Occurs(c, BuffersOf(queued[s])) \in Nat
  <2>1. queued[s] \in Seq(States)
    BY DEF CInv, SInv, Shapes
  <2> QED BY <2>1, OneIs, QueueOccurs
<1>7. locks' = [c \in Buffers |->
                        locks[c] - One(old, c) + One(b, c)
                          - One(current[s], c) + One(current[s], c)
                          - Occurs(c, BuffersOf(queued[s])) + Occurs(c, BuffersOf(queued[s]))]
  <2>1. ASSUME NEW c \in Buffers
        PROVE  locks'[c] = locks[c] - One(old, c) + One(b, c)
                          - One(current[s], c) + One(current[s], c)
                          - Occurs(c, BuffersOf(queued[s])) + Occurs(c, BuffersOf(queued[s]))
    BY <1>1, <1>5, <1>6
  <2> QED BY <1>4, <2>1
<1>8. jobs' \in Frames /\ current' = current /\ queued' = queued /\ jobs' = jobs
  BY <1>2 DEF CInv, BufferTypes
<1>9. Counted'
  <2>1. locks' = [c \in Buffers |->
                        locks[c] - One(pending[s].buffer, c) + One(pending'[s].buffer, c)
                          - One(current[s], c) + One(current'[s], c)
                          - Occurs(c, BuffersOf(queued[s])) + Occurs(c, BuffersOf(queued'[s]))]
    BY <1>3, <1>7, <1>8
  <2> QED BY <1>3, <1>8, <2>1, StepCounts
<1>10. NoReleaseLost'
  <2> SUFFICES ASSUME NEW c \in Buffers, lent[c], locks'[c] = 0 PROVE replaced'[c]
    BY <1>2 DEF NoReleaseLost
  <2>1. CASE old = c
    BY <1>2, <2>1
  <2>2. CASE old # c
    <3>1. One(old, c) = 0 /\ One(b, c) \in {0, 1}
      BY <2>2 DEF One
    <3>2. locks[c] = 0
      BY <1>1, <1>5, <3>1
    <3>3. replaced[c]
      BY <3>2 DEF CInv, NoReleaseLost
    <3> QED BY <1>2, <3>3
  <2> QED BY <2>1, <2>2
<1>11. RoleTypes' /\ BufferTypes' /\ StateTypes'
  BY <1>2 DEF CInv, RoleTypes, BufferTypes, StateTypes, roles
<1>12. ReadersKnown' /\ GivesBack /\ FramesKeep
  BY <1>2 DEF CInv, ReadersKnown, GivesBack, FramesKeep
<1> QED BY <1>9, <1>10, <1>11, <1>12 DEF CInv, Kept

\* What Unlocked takes is what occurs.
LEMMA UnlockedOne ==
    ASSUME NEW l, NEW x
    PROVE  Unlocked(l, <<x>>) = [b \in Buffers |-> l[b] - One(x, b)]
BY OneIs DEF Unlocked

LEMMA UnlockedMore ==
    ASSUME NEW l, NEW x \in MaybeBuffer, NEW r \in Seq(Buffers)
    PROVE  Unlocked(l, <<x>> \o r) = [b \in Buffers |-> l[b] - (One(x, b) + Occurs(b, r))]
<1>1. <<x>> \in Seq(MaybeBuffer) /\ r \in Seq(MaybeBuffer)
  BY DEF MaybeBuffer
<1>2. \A b : Occurs(b, <<x>> \o r) = Occurs(b, <<x>>) + Occurs(b, r)
  BY <1>1, OccursConcat
<1>3. \A b : Occurs(b, <<x>> \o r) = One(x, b) + Occurs(b, r)
  BY <1>2, OneIs
<1> QED BY <1>3 DEF Unlocked

LEMMA CommitNowKept ==
    ASSUME SurfaceAssumption, CInv, SInv', NEW s \in Surfaces, CommitNow(s)
    PROVE  Kept
<1> DEFINE p == pending[s]
           goes == IF p.new \/ LetsGo(s, current[s]) THEN current[s] ELSE Nothing
           empties == p.buffer = Nothing /\ ~ p.tex
           popped == IF empties THEN BuffersOf(queued[s]) ELSE << >>
           cur == IF goes = current[s] THEN Nothing ELSE current[s]
           que == IF empties THEN << >> ELSE queued[s]
           left == Unlocked(locks, <<goes>> \o popped)
<1>1. /\ pending' = [pending EXCEPT ![s] = [new |-> FALSE, buffer |-> Nothing, tex |-> p.tex]]
      /\ current' = [current EXCEPT ![s] = cur]
      /\ queued' = [queued EXCEPT ![s] = que]
      /\ waiting' = waiting
      /\ p.buffer = Nothing
      /\ Release(left, {}, points, jobs)
  BY ResetIs DEF CommitNow, CInv, SInv, Textured
<1>2. RoleTypes' /\ current \in [Surfaces -> MaybeBuffer] /\ waiting \in [Surfaces -> SUBSET Ids]
  BY EmitTypes DEF CommitNow, CInv, StateTypes
<1>3. StateTypes'
  BY <1>1, <1>2 DEF StateTypes, MaybeBuffer
<1>4. queued \in [Surfaces -> Seq(States)] /\ pending \in [Surfaces -> [new : BOOLEAN, buffer : MaybeBuffer, tex : BOOLEAN]]
  BY DEF CInv, SInv, Shapes
<1>5. /\ pending'[s].buffer = Nothing /\ current'[s] = cur /\ queued'[s] = que
      /\ \A t \in Surfaces \ {s} :
               pending'[t].buffer = pending[t].buffer /\ current'[t] = current[t] /\ queued'[t] = queued[t]
  BY <1>1, <1>2, <1>4
<1>6. goes \in MaybeBuffer /\ popped \in Seq(Buffers) /\ que \in Seq(States)
  BY <1>2, <1>4, BuffersAre DEF MaybeBuffer
<1>7. left = [b \in Buffers |-> locks[b] - (One(goes, b) + Occurs(b, popped))]
  <2> HIDE DEF goes, popped
  <2> QED BY <1>6, UnlockedMore
<1>8. ASSUME NEW b \in Buffers
      PROVE  left[b] = locks[b] - One(p.buffer, b) + One(Nothing, b)
                          - One(current[s], b) + One(cur, b)
                          - Occurs(b, BuffersOf(queued[s])) + Occurs(b, BuffersOf(que))
  <2>1. locks[b] \in Nat /\ Occurs(b, BuffersOf(queued[s])) \in Nat /\ Occurs(b, popped) \in Nat
    BY <1>4, <1>6, CountedIs, QueueOccurs, OccursFinite
  <2>2. One(Nothing, b) = 0 /\ One(p.buffer, b) = 0
    BY <1>1 DEF One, SurfaceAssumption
  <2>3. One(goes, b) = One(current[s], b) - One(cur, b) /\ One(goes, b) \in Int /\ One(current[s], b) \in Int /\ One(cur, b) \in Int
    BY DEF One, SurfaceAssumption
  <2>4. Occurs(b, popped) = Occurs(b, BuffersOf(queued[s])) - Occurs(b, BuffersOf(que)) /\ Occurs(b, BuffersOf(que)) \in Nat
    <3>1. BuffersOf(<< >>) = << >>
      BY DEF BuffersOf
    <3>2. Occurs(b, BuffersOf(<< >>)) = 0
      BY <3>1, OneIs
    <3>3. CASE empties
      BY <2>1, <3>2, <3>3
    <3>4. CASE ~ empties
      BY <2>1, <3>4, OneIs
    <3> QED BY <3>3, <3>4
  <2>5. left[b] = locks[b] - (One(goes, b) + Occurs(b, popped))
    BY <1>7
  <2> HIDE DEF p, goes, empties, popped, cur, que, left
  <2> QED BY <2>1, <2>2, <2>3, <2>4, <2>5
<1> HIDE DEF p, goes, empties, popped, cur, que, left
<1>9. left = [b \in Buffers |->
                        locks[b] - One(pending[s].buffer, b) + One(pending'[s].buffer, b)
                          - One(current[s], b) + One(current'[s], b)
                          - Occurs(b, BuffersOf(queued[s])) + Occurs(b, BuffersOf(queued'[s]))]
  BY <1>5, <1>7, <1>8 DEF p
<1>10. points \in [Buffers -> SUBSET SUBSET Jobs]
  BY DEF CInv, BufferTypes
<1> QED BY <1>1, <1>2, <1>3, <1>5, <1>9, <1>10, ReleaseStep

-----------------------------------------------------------------------------
\* A state in the middle of a queue parts its buffers in three.
LEMMA QueueSplit ==
    ASSUME NEW q \in Seq(States), NEW n \in DOMAIN q
    PROVE  /\ BuffersOf(SubSeq(q, 1, n - 1)) \in Seq(Buffers)
           /\ SubSeq(q, n + 1, Len(q)) \in Seq(States)
           /\ \A b : Occurs(b, BuffersOf(q)) = Occurs(b, BuffersOf(SubSeq(q, 1, n - 1)))
                        + One(q[n].buffer, b) + Occurs(b, BuffersOf(SubSeq(q, n + 1, Len(q))))
<1> DEFINE f == SubSeq(q, 1, n - 1)
           r == SubSeq(q, n + 1, Len(q))
           m == <<q[n]>>
<1>1. n \in 1..Len(q) /\ Len(q) \in Nat /\ \A i \in 1..Len(q) : q[i] \in States
  OBVIOUS
<1>2. /\ f \in Seq(States) /\ Len(f) = n - 1 /\ \A i \in 1..(n - 1) : f[i] = q[i]
  <2>1. \A i \in 1..(n - 1) : q[i] \in States
    BY <1>1
  <2>2. /\ f \in Seq(States)
        /\ Len(f) = IF 1 <= n - 1 THEN (n - 1) - 1 + 1 ELSE 0
        /\ \A i \in 1..((n - 1) - 1 + 1) : f[i] = q[1 + i - 1]
    BY <1>1, <2>1, SubSeqProperties
  <2> HIDE DEF f
  <2>3. Len(f) = n - 1
    BY <1>1, <2>2
  <2>4. ASSUME NEW i \in 1..(n - 1) PROVE f[i] = q[i]
    <3>1. i \in 1..((n - 1) - 1 + 1) /\ 1 + i - 1 = i
      BY <1>1
    <3> QED BY <2>2, <3>1
  <2> QED BY <2>2, <2>3, <2>4
<1>3. /\ r \in Seq(States) /\ Len(r) = Len(q) - n /\ \A i \in 1..(Len(q) - n) : r[i] = q[n + i]
  <2>1. \A i \in (n + 1)..Len(q) : q[i] \in States
    BY <1>1
  <2>2. /\ r \in Seq(States)
        /\ Len(r) = IF n + 1 <= Len(q) THEN Len(q) - (n + 1) + 1 ELSE 0
        /\ \A i \in 1..(Len(q) - (n + 1) + 1) : r[i] = q[(n + 1) + i - 1]
    BY <1>1, <2>1, SubSeqProperties
  <2> HIDE DEF r
  <2>3. Len(r) = Len(q) - n
    BY <1>1, <2>2
  <2>4. ASSUME NEW i \in 1..(Len(q) - n) PROVE r[i] = q[n + i]
    <3>1. i \in 1..(Len(q) - (n + 1) + 1) /\ (n + 1) + i - 1 = n + i
      BY <1>1
    <3> QED BY <2>2, <3>1
  <2> QED BY <2>2, <2>3, <2>4
<1>4. m \in Seq(States) /\ Len(m) = 1 /\ m[1] = q[n]
  BY <1>1
<1> HIDE DEF f, r, m
<1>5. BuffersOf(f) \in Seq(Buffers) /\ BuffersOf(m) \in Seq(Buffers) /\ BuffersOf(r) \in Seq(Buffers)
      /\ Len(BuffersOf(f)) = n - 1 /\ Len(BuffersOf(m)) = 1 /\ Len(BuffersOf(r)) = Len(q) - n
  BY <1>2, <1>3, <1>4, BuffersAre
<1>6. BuffersOf(m) = <<q[n].buffer>>
  BY <1>4 DEF BuffersOf, m
<1> DEFINE fm == BuffersOf(f) \o BuffersOf(m)
           all == fm \o BuffersOf(r)
<1>7. /\ fm \in Seq(Buffers) /\ Len(fm) = n
      /\ \A i \in 1..n : fm[i] = IF i <= n - 1 THEN BuffersOf(f)[i] ELSE BuffersOf(m)[i - (n - 1)]
  <2>1. /\ fm \in Seq(Buffers) /\ Len(fm) = (n - 1) + 1
        /\ \A i \in 1..((n - 1) + 1) : fm[i] = IF i <= n - 1 THEN BuffersOf(f)[i] ELSE BuffersOf(m)[i - (n - 1)]
    <3> DEFINE u == BuffersOf(f)
               v == BuffersOf(m)
    <3>1. u \in Seq(Buffers) /\ v \in Seq(Buffers) /\ Len(u) = n - 1 /\ Len(v) = 1 /\ fm = u \o v
      BY <1>5
    <3> HIDE DEF u, v, fm
    <3>2. /\ fm \in Seq(Buffers) /\ Len(fm) = Len(u) + Len(v)
          /\ \A i \in 1..(Len(u) + Len(v)) : fm[i] = IF i <= Len(u) THEN u[i] ELSE v[i - Len(u)]
      BY <3>1, ConcatProperties
    <3> QED BY <3>1, <3>2 DEF u, v
  <2>2. (n - 1) + 1 = n
    BY <1>1
  <2> QED BY <2>1, <2>2
<1> HIDE DEF fm
<1>8. /\ all \in Seq(Buffers) /\ Len(all) = Len(q)
      /\ \A i \in 1..Len(q) : all[i] = IF i <= n THEN fm[i] ELSE BuffersOf(r)[i - n]
  <2>1. /\ all \in Seq(Buffers) /\ Len(all) = n + (Len(q) - n)
        /\ \A i \in 1..(n + (Len(q) - n)) : all[i] = IF i <= n THEN fm[i] ELSE BuffersOf(r)[i - n]
    <3> DEFINE v == BuffersOf(r)
    <3>1. v \in Seq(Buffers) /\ Len(v) = Len(q) - n /\ all = fm \o v
      BY <1>5
    <3> HIDE DEF v, all
    <3>2. /\ all \in Seq(Buffers) /\ Len(all) = Len(fm) + Len(v)
          /\ \A i \in 1..(Len(fm) + Len(v)) : all[i] = IF i <= Len(fm) THEN fm[i] ELSE v[i - Len(fm)]
      BY <1>7, <3>1, ConcatProperties
    <3> QED BY <1>7, <3>1, <3>2 DEF v
  <2>2. n + (Len(q) - n) = Len(q)
    BY <1>1
  <2> QED BY <2>1, <2>2
<1> HIDE DEF all
<1>9. ASSUME NEW i \in 1..Len(q) PROVE all[i] = q[i].buffer
  <2>1. CASE i <= n - 1
    <3>1. i \in 1..(n - 1) /\ i \in 1..n /\ i <= n
      BY <1>1, <2>1
    <3>2. all[i] = BuffersOf(f)[i]
      BY <1>7, <1>8, <2>1, <3>1
    <3>3. i \in DOMAIN f
      BY <1>2, <3>1
    <3> QED BY <1>2, <3>1, <3>2, <3>3 DEF BuffersOf
  <2>2. CASE i = n
    <3>1. i \in 1..n /\ i <= n /\ ~ (i <= n - 1) /\ i - (n - 1) = 1
      BY <1>1, <2>2
    <3>2. all[i] = BuffersOf(m)[1]
      BY <1>7, <1>8, <3>1
    <3> QED BY <1>6, <2>2, <3>2
  <2>3. CASE i > n
    <3>1. i - n \in 1..(Len(q) - n) /\ ~ (i <= n) /\ n + (i - n) = i
      BY <1>1, <2>3
    <3>2. all[i] = BuffersOf(r)[i - n]
      BY <1>8, <3>1
    <3>3. i - n \in DOMAIN r
      BY <1>3, <3>1
    <3> QED BY <1>3, <3>1, <3>2, <3>3 DEF BuffersOf
  <2> QED BY <1>1, <2>1, <2>2, <2>3
<1>10. BuffersOf(q) = all
  <2>1. BuffersOf(q) \in Seq(Buffers) /\ Len(BuffersOf(q)) = Len(q)
    BY BuffersAre
  <2>2. \A i \in 1..Len(q) : BuffersOf(q)[i] = all[i]
    BY <1>9 DEF BuffersOf
  <2> QED BY <1>8, <2>1, <2>2, SeqEqual
<1>11. ASSUME NEW b
       PROVE  Occurs(b, BuffersOf(q)) = Occurs(b, BuffersOf(f)) + One(q[n].buffer, b) + Occurs(b, BuffersOf(r))
  <2>1. Occurs(b, all) = Occurs(b, fm) + Occurs(b, BuffersOf(r))
    BY <1>5, <1>7, OccursConcat DEF all
  <2>2. Occurs(b, fm) = Occurs(b, BuffersOf(f)) + Occurs(b, BuffersOf(m))
    BY <1>5, OccursConcat DEF fm
  <2>3. Occurs(b, BuffersOf(m)) = One(q[n].buffer, b)
    BY <1>6, OneIs
  <2> QED BY <1>10, <2>1, <2>2, <2>3
<1> QED BY <1>3, <1>5, <1>11 DEF f, r

\* Appending a state adds its buffer.
LEMMA QueueAppend ==
    ASSUME NEW q \in Seq(States), NEW e \in States
    PROVE  /\ Append(q, e) \in Seq(States) /\ Len(Append(q, e)) \in DOMAIN Append(q, e)
           /\ Append(q, e)[Len(Append(q, e))] = e
           /\ \A b : Occurs(b, BuffersOf(Append(q, e))) = Occurs(b, BuffersOf(q)) + One(e.buffer, b)
<1> DEFINE a == Append(q, e)
           n == Len(q) + 1
<1>1. /\ Len(q) \in Nat /\ a \in Seq(States) /\ Len(a) = n /\ n \in DOMAIN a /\ a[n] = e
      /\ \A i \in 1..Len(q) : a[i] = q[i]
  OBVIOUS
<1> HIDE DEF a
<1>2. SubSeq(a, 1, n - 1) = q
  <2>1. n - 1 = Len(q)
    BY <1>1
  <2>2. \A i \in 1..Len(q) : a[i] \in States
    BY <1>1
  <2>3. /\ SubSeq(a, 1, Len(q)) \in Seq(States)
        /\ Len(SubSeq(a, 1, Len(q))) = IF 1 <= Len(q) THEN Len(q) - 1 + 1 ELSE 0
        /\ \A i \in 1..(Len(q) - 1 + 1) : SubSeq(a, 1, Len(q))[i] = a[1 + i - 1]
    BY <1>1, <2>2, SubSeqProperties
  <2>4. Len(SubSeq(a, 1, Len(q))) = Len(q)
    BY <1>1, <2>3
  <2>5. ASSUME NEW i \in 1..Len(q) PROVE SubSeq(a, 1, Len(q))[i] = q[i]
    <3>1. i \in 1..(Len(q) - 1 + 1) /\ 1 + i - 1 = i
      BY <1>1
    <3> QED BY <1>1, <2>3, <3>1
  <2> QED BY <2>1, <2>3, <2>4, <2>5, SeqEqual
<1>3. SubSeq(a, n + 1, Len(a)) = << >>
  BY <1>1, AppliedTail
<1>4. BuffersOf(<< >>) = << >>
  BY DEF BuffersOf
<1>5. ASSUME NEW b PROVE Occurs(b, BuffersOf(a)) = Occurs(b, BuffersOf(q)) + One(e.buffer, b)
  <2>1. Occurs(b, BuffersOf(a)) = Occurs(b, BuffersOf(SubSeq(a, 1, n - 1)))
                        + One(a[n].buffer, b) + Occurs(b, BuffersOf(SubSeq(a, n + 1, Len(a))))
    BY <1>1, QueueSplit
  <2>2. Occurs(b, BuffersOf(a)) = Occurs(b, BuffersOf(q)) + One(e.buffer, b) + 0
    BY <1>1, <1>2, <1>3, <1>4, <2>1, OneIs
  <2>3. Occurs(b, BuffersOf(q)) \in Nat /\ One(e.buffer, b) \in Int
    BY QueueOccurs, OneIs
  <2> QED BY <2>2, <2>3
<1> QED BY <1>1, <1>5 DEF a

LEMMA UnlockedThree ==
    ASSUME NEW l, NEW x \in MaybeBuffer, NEW r \in Seq(Buffers), NEW t \in Seq(Buffers)
    PROVE  Unlocked(l, <<x>> \o r \o t) = [b \in Buffers |-> l[b] - (One(x, b) + Occurs(b, r) + Occurs(b, t))]
<1>1. <<x>> \in Seq(MaybeBuffer) /\ r \in Seq(MaybeBuffer) /\ t \in Seq(MaybeBuffer)
  BY DEF MaybeBuffer
<1>2. <<x>> \o r \in Seq(MaybeBuffer)
  BY <1>1, ConcatProperties
<1>3. \A b : Occurs(b, <<x>> \o r \o t) = Occurs(b, <<x>> \o r) + Occurs(b, t)
  BY <1>1, <1>2, OccursConcat
<1>4. \A b : Occurs(b, <<x>> \o r) = Occurs(b, <<x>>) + Occurs(b, r)
  BY <1>1, OccursConcat
<1>5. \A b : Occurs(b, <<x>> \o r \o t) = One(x, b) + Occurs(b, r) + Occurs(b, t)
  BY <1>3, <1>4, OneIs
<1> QED BY <1>5 DEF Unlocked

\* The states that are applied give up their references, but for that of the buffer now current.
LEMMA ApplyKept ==
    ASSUME SurfaceAssumption, CInv, SInv', NEW s \in Surfaces,
           NEW q \in Seq(States), NEW n \in DOMAIN q,
           NEW given \in SUBSET Buffers, NEW kept \in [Buffers -> SUBSET SUBSET Jobs],
           Apply(s, q, n, given, kept),
           waiting' \in [Surfaces -> SUBSET Ids],
           \A b \in given : locks[b] > 0,
           \A b \in Buffers : points[b] \subseteq kept[b],
           \A t \in Surfaces \ {s} : pending'[t].buffer = pending[t].buffer,
           \A b \in Buffers : Occurs(b, BuffersOf(q)) = Occurs(b, BuffersOf(queued[s]))
                                    + One(pending[s].buffer, b) - One(pending'[s].buffer, b)
    PROVE  Kept
<1> DEFINE x == q[n].buffer
           front == BuffersOf(SubSeq(q, 1, n - 1))
           rest == SubSeq(q, n + 1, Len(q))
           lets == LetsGo(s, x)
           over == IF lets THEN <<x>> ELSE << >>
           cur == IF lets THEN Nothing ELSE x
           left == Unlocked(locks, <<current[s]>> \o front \o over)
<1>1. /\ current' = [current EXCEPT ![s] = cur]
      /\ queued' = [queued EXCEPT ![s] = rest]
      /\ Release(left, given, kept, jobs)
      /\ RoleTypes'
  BY EmitTypes DEF Apply, CInv
<1>2. /\ current \in [Surfaces -> MaybeBuffer] /\ queued \in [Surfaces -> Seq(States)]
      /\ locks \in [Buffers -> Nat]
  BY CountedIs DEF CInv, StateTypes, SInv, Shapes
<1>3. x \in Buffers /\ front \in Seq(Buffers) /\ rest \in Seq(States) /\ over \in Seq(Buffers)
  <2>1. x \in Buffers
    BY AppliedTail
  <2> QED BY <2>1, QueueSplit
<1>4. StateTypes'
  BY <1>1, <1>2, <1>3 DEF StateTypes, MaybeBuffer
<1>5. left = [b \in Buffers |-> locks[b] - (One(current[s], b) + Occurs(b, front) + Occurs(b, over))]
  <2> HIDE DEF front, over
  <2> QED BY <1>2, <1>3, UnlockedThree
<1>6. /\ current'[s] = cur /\ queued'[s] = rest
      /\ \A t \in Surfaces \ {s} : current'[t] = current[t] /\ queued'[t] = queued[t]
  BY <1>1, <1>2
<1>7. ASSUME NEW b \in Buffers
      PROVE  left[b] = locks[b] - One(pending[s].buffer, b) + One(pending'[s].buffer, b)
                          - One(current[s], b) + One(cur, b)
                          - Occurs(b, BuffersOf(queued[s])) + Occurs(b, BuffersOf(rest))
  <2>1. locks[b] \in Nat /\ Occurs(b, front) \in Nat /\ Occurs(b, BuffersOf(rest)) \in Nat
        /\ Occurs(b, BuffersOf(queued[s])) \in Nat
    BY <1>2, <1>3, QueueOccurs, OccursFinite
  <2>2. Occurs(b, BuffersOf(q)) = Occurs(b, front) + One(x, b) + Occurs(b, BuffersOf(rest))
    BY QueueSplit
  <2>3. Occurs(b, over) = One(x, b) - One(cur, b)
    <3>1. CASE lets
      BY <3>1, OneIs DEF One, SurfaceAssumption
    <3>2. CASE ~ lets
      BY <3>2, OneIs
    <3> QED BY <3>1, <3>2
  <2>4. Occurs(b, BuffersOf(q)) = Occurs(b, BuffersOf(queued[s]))
                                    + One(pending[s].buffer, b) - One(pending'[s].buffer, b)
    OBVIOUS
  <2>5. left[b] = locks[b] - (One(current[s], b) + Occurs(b, front) + Occurs(b, over))
    BY <1>5
  <2>6. /\ One(x, b) \in Int /\ One(cur, b) \in Int /\ One(current[s], b) \in Int
        /\ One(pending[s].buffer, b) \in Int /\ One(pending'[s].buffer, b) \in Int
    BY OneIs
  <2> HIDE DEF x, front, rest, lets, over, cur, left
  <2> DEFINE a == One(pending[s].buffer, b)
             c == One(pending'[s].buffer, b)
             d == Occurs(b, BuffersOf(queued[s]))
             e == Occurs(b, BuffersOf(rest))
             f == Occurs(b, front)
             g == Occurs(b, over)
             i == One(x, b)
             k == One(cur, b)
             m == One(current[s], b)
  <2>7. /\ locks[b] \in Int /\ a \in Int /\ c \in Int /\ d \in Int /\ e \in Int /\ f \in Int
        /\ i \in Int /\ k \in Int /\ m \in Int /\ g = i - k
        /\ d + a - c = f + i + e /\ left[b] = locks[b] - (m + f + g)
    BY <2>1, <2>2, <2>3, <2>4, <2>5, <2>6
  <2> HIDE DEF a, c, d, e, f, g, i, k, m
  <2>8. left[b] = locks[b] - a + c - m + k - d + e
    BY <2>7
  <2> QED BY <2>8 DEF a, c, d, e, k, m
<1> HIDE DEF x, front, rest, lets, over, cur, left
<1>8. left = [b \in Buffers |->
                        locks[b] - One(pending[s].buffer, b) + One(pending'[s].buffer, b)
                          - One(current[s], b) + One(current'[s], b)
                          - Occurs(b, BuffersOf(queued[s])) + Occurs(b, BuffersOf(queued'[s]))]
  BY <1>5, <1>6, <1>7
<1> QED BY <1>1, <1>4, <1>6, <1>8, ReleaseStep

\* A buffer some state has attached is counted.
LEMMA AttachedIsCounted ==
    ASSUME SurfaceAssumption, CInv, NEW s \in Surfaces, pending[s].buffer \in Buffers
    PROVE  locks[pending[s].buffer] > 0
<1> DEFINE b == pending[s].buffer
           P == PendingOf(pending, b)
<1>1. IsFiniteSet(P) /\ s \in P
  BY FS_Subset DEF PendingOf, SurfaceAssumption
<1>2. Cardinality(P) > 0
  <2> HIDE DEF P
  <2> QED BY <1>1, FS_EmptySet, FS_CardinalityType
<1>3. queued \in Queues /\ jobs \in Frames
  BY DEF CInv, SInv, Shapes, Queues, BufferTypes
<1>4. locks[b] = Count(pending, current, queued, jobs, b)
  BY CountedIs
<1>5. /\ Cardinality(P) \in Nat /\ Cardinality(CurrentOf(current, b)) \in Nat
      /\ Cardinality(Fibres(Surfaces, Waits(queued, b))) \in Nat
      /\ Cardinality(Fibres(Jobs, Holds(jobs, b))) \in Nat
  BY <1>3, CountIsNat
<1> DEFINE i == Cardinality(P)
           k == Cardinality(CurrentOf(current, b))
           l == Cardinality(Fibres(Surfaces, Waits(queued, b)))
           m == Cardinality(Fibres(Jobs, Holds(jobs, b)))
<1>6. locks[b] = i + k + l + m
  BY <1>4 DEF Count
<1>7. i \in Nat /\ k \in Nat /\ l \in Nat /\ m \in Nat /\ i > 0
  BY <1>2, <1>5
<1> HIDE DEF i, k, l, m
<1>8. locks[b] > 0
  BY <1>6, <1>7
<1> QED BY <1>8

LEMMA CommitBufferKept ==
    ASSUME SurfaceAssumption, CInv, SInv', NEW s \in Surfaces, CommitBuffer(s)
    PROVE  Kept
<1> DEFINE b     == pending[s].buffer
           entry == [buffer |-> b, id |-> FreshId(s)]
           q     == Append(queued[s], entry)
           added == [points EXCEPT ![b] = IF s \in Explicit THEN @ \cup {{}} ELSE @]
<1>1. /\ queued \in [Surfaces -> Seq(States)] /\ points \in [Buffers -> SUBSET SUBSET Jobs]
      /\ pending \in [Surfaces -> [new : BOOLEAN, buffer : MaybeBuffer, tex : BOOLEAN]]
      /\ waiting \in [Surfaces -> SUBSET Ids] /\ current \in [Surfaces -> MaybeBuffer]
  BY DEF CInv, SInv, Shapes, BufferTypes, StateTypes
<1>2. b \in Buffers
  BY <1>1 DEF CommitBuffer, MaybeBuffer
<1>3. FreshId(s) \in Ids
  <2>1. FreeIds(s) # {} /\ FreeIds(s) \subseteq Ids
    BY DEF CommitBuffer, FreeIds, Ids
  <2> QED BY <2>1 DEF FreshId
<1>4. entry \in States
  BY <1>2, <1>3 DEF States
<1>5. /\ q \in Seq(States) /\ Len(q) \in DOMAIN q
      /\ \A c : Occurs(c, BuffersOf(q)) = Occurs(c, BuffersOf(queued[s])) + One(entry.buffer, c)
  <2> HIDE DEF entry
  <2> QED BY <1>1, <1>4, QueueAppend
<1>6. pending'[s].buffer = Nothing /\ \A t \in Surfaces \ {s} : pending'[t].buffer = pending[t].buffer
  <2>1. pending' = [pending EXCEPT ![s] = [new |-> FALSE, buffer |-> Nothing, tex |-> pending[s].tex]]
    BY ResetIs DEF CommitBuffer, CInv, SInv
  <2> QED BY <1>1, <2>1
<1>7. ASSUME NEW c \in Buffers
      PROVE  /\ Occurs(c, BuffersOf(q)) = Occurs(c, BuffersOf(queued[s])) + One(b, c) - One(pending'[s].buffer, c)
             /\ One(pending'[s].buffer, c) = 0
             /\ Occurs(c, BuffersOf(queued[s])) \in Nat
  <2>1. One(pending'[s].buffer, c) = 0
    BY <1>6 DEF One, SurfaceAssumption
  <2>2. Occurs(c, BuffersOf(q)) = Occurs(c, BuffersOf(queued[s])) + One(b, c)
    BY <1>5
  <2>3. Occurs(c, BuffersOf(queued[s])) \in Nat /\ One(b, c) \in Int
    BY <1>1, OneIs, QueueOccurs
  <2> HIDE DEF b, q
  <2> QED BY <2>1, <2>2, <2>3
<1>8. added \in [Buffers -> SUBSET SUBSET Jobs] /\ \A c \in Buffers : points[c] \subseteq added[c]
  BY <1>1, <1>2
<1>9. waiting' \in [Surfaces -> SUBSET Ids]
  <2>1. waiting' = waiting \/ waiting' = [waiting EXCEPT ![s] = @ \cup {FreshId(s)}]
    BY DEF CommitBuffer
  <2>2. waiting \in [Surfaces -> SUBSET Ids]
    BY <1>1
  <2>3. waiting[s] \cup {FreshId(s)} \in SUBSET Ids
    BY <1>3, <2>2
  <2>4. [waiting EXCEPT ![s] = waiting[s] \cup {FreshId(s)}] \in [Surfaces -> SUBSET Ids]
    BY <2>2, <2>3
  <2> QED BY <2>1, <2>2, <2>4
<1>10. locks \in [Buffers -> Nat] /\ locks[b] > 0
  BY <1>2, CountedIs, AttachedIsCounted
<1>11. CASE Apply(s, q, Len(q), {b}, added)
  <2>1. {b} \in SUBSET Buffers /\ \A c \in {b} : locks[c] > 0
    BY <1>2, <1>10
  <2>2. \A c \in Buffers : Occurs(c, BuffersOf(q)) = Occurs(c, BuffersOf(queued[s]))
                                    + One(pending[s].buffer, c) - One(pending'[s].buffer, c)
    BY <1>7
  <2> HIDE DEF q, added, entry, b
  <2> QED BY <1>5, <1>6, <1>8, <1>9, <1>11, <2>1, <2>2, ApplyKept
<1>12. CASE /\ queued' = [queued EXCEPT ![s] = q]
            /\ lent' = [lent EXCEPT ![b] = TRUE]
            /\ points' = added
            /\ UNCHANGED <<current, shown, roles, locks, jobs, replaced>>
  <2>1. RoleTypes' /\ BufferTypes' /\ StateTypes'
    BY <1>1, <1>8, <1>9, <1>12 DEF CInv, RoleTypes, BufferTypes, StateTypes, roles
  <2>2. NoReleaseLost' /\ GivesBack
    BY <1>2, <1>10, <1>12 DEF CInv, NoReleaseLost, GivesBack, BufferTypes
  <2>3. ReadersKnown' /\ FramesKeep
    <3>1. \A j \in Jobs : jobs[j].reads \subseteq Buffers
      BY DEF CInv, BufferTypes, Frames
    <3> HIDE DEF added
    <3> QED BY <1>8, <1>12, <3>1 DEF CInv, ReadersKnown, FramesKeep
  <2>4. queued'[s] = q /\ current'[s] = current[s]
        /\ \A t \in Surfaces \ {s} : current'[t] = current[t] /\ queued'[t] = queued[t]
    BY <1>1, <1>12
  <2>5. ASSUME NEW c \in Buffers
        PROVE  locks[c] = locks[c] - One(pending[s].buffer, c) + One(pending'[s].buffer, c)
                          - One(current[s], c) + One(current'[s], c)
                          - Occurs(c, BuffersOf(queued[s])) + Occurs(c, BuffersOf(queued'[s]))
    <3>1. /\ Occurs(c, BuffersOf(queued'[s])) = Occurs(c, BuffersOf(queued[s])) + One(b, c)
                                                   - One(pending'[s].buffer, c)
          /\ One(pending'[s].buffer, c) = 0
          /\ Occurs(c, BuffersOf(queued[s])) \in Nat
      BY <1>7, <2>4
    <3>2. One(current'[s], c) = One(current[s], c) /\ One(current[s], c) \in Int /\ One(b, c) \in Int
      BY <2>4, OneIs
    <3>3. locks[c] \in Nat
      BY <1>10
    <3> HIDE DEF q, added, entry
    <3> QED BY <3>1, <3>2, <3>3
  <2>6. locks' = [c \in Buffers |->
                        locks[c] - One(pending[s].buffer, c) + One(pending'[s].buffer, c)
                          - One(current[s], c) + One(current'[s], c)
                          - Occurs(c, BuffersOf(queued[s])) + Occurs(c, BuffersOf(queued'[s]))]
    BY <1>10, <1>12, <2>5
  <2>7. jobs' \in Frames /\ \A j \in Jobs : jobs'[j].holds = jobs[j].holds
    BY <1>12, <2>1 DEF BufferTypes
  <2>8. Counted'
    BY <1>6, <2>4, <2>6, <2>7, StepCounts
  <2> QED BY <2>1, <2>2, <2>3, <2>8 DEF Kept, CInv
<1> QED BY <1>11, <1>12 DEF CommitBuffer

LEMMA SameKept ==
    ASSUME SurfaceAssumption, CInv, SInv', RoleTypes', StateTypes',
           UNCHANGED <<pending, queued, current, locks, points, jobs, lent, replaced>>
    PROVE  Kept
<1>1. BufferTypes' /\ NoReleaseLost' /\ ReadersKnown' /\ GivesBack /\ FramesKeep
  BY DEF CInv, BufferTypes, NoReleaseLost, ReadersKnown, GivesBack, FramesKeep
<1>2. jobs' \in Frames
  BY <1>1 DEF BufferTypes
<1>3. Counted'
  BY <1>2, SameCounts
<1> QED BY <1>1, <1>3 DEF Kept, CInv

LEMMA ReadableKept ==
    ASSUME SurfaceAssumption, CInv, SInv', NEW s \in Surfaces, NEW id \in Ids, Readable(s, id)
    PROVE  Kept
<1>1. waiting' \in [Surfaces -> SUBSET Ids] /\ pending' = pending
  BY DEF Readable, CInv, StateTypes
<1>2. CASE UNCHANGED <<queued, current, shown, roles, locks, points, jobs, lent, replaced>>
  <2>1. RoleTypes' /\ StateTypes'
    BY <1>1, <1>2 DEF CInv, RoleTypes, StateTypes, roles
  <2> QED BY <1>1, <1>2, <2>1, SameKept
<1>3. ASSUME NEW n \in DOMAIN queued[s], Apply(s, queued[s], n, {}, points)
      PROVE  Kept
  <2>1. queued[s] \in Seq(States) /\ points \in [Buffers -> SUBSET SUBSET Jobs]
    BY DEF CInv, SInv, Shapes, BufferTypes
  <2>2. \A c \in Buffers : Occurs(c, BuffersOf(queued[s])) = Occurs(c, BuffersOf(queued[s]))
                                    + One(pending[s].buffer, c) - One(pending'[s].buffer, c)
    BY <1>1, <2>1, OneIs, QueueOccurs
  <2> QED BY <1>1, <1>3, <2>1, <2>2, ApplyKept
<1> QED BY <1>2, <1>3 DEF Readable

LEMMA DropRoleKept ==
    ASSUME SurfaceAssumption, CInv, SInv', NEW s \in Surfaces, DropRole(s)
    PROVE  Kept
<1> DEFINE unmaps == IsSub(s) /\ mapped[s]
           refs == IF unmaps THEN <<current[s]>> ELSE << >>
           cur == IF unmaps THEN Nothing ELSE current[s]
           left == Unlocked(locks, refs)
<1>1. /\ current' = [current EXCEPT ![s] = cur]
      /\ Release(left, {}, points, jobs)
      /\ UNCHANGED <<pending, queued, waiting>>
  BY DEF DropRole
<1>2. RoleTypes'
  BY DEF DropRole, CInv, RoleTypes
<1>3. /\ current \in [Surfaces -> MaybeBuffer] /\ queued \in [Surfaces -> Seq(States)]
      /\ locks \in [Buffers -> Nat] /\ points \in [Buffers -> SUBSET SUBSET Jobs]
      /\ waiting \in [Surfaces -> SUBSET Ids]
  BY CountedIs DEF CInv, StateTypes, SInv, Shapes, BufferTypes
<1>4. StateTypes'
  BY <1>1, <1>3 DEF StateTypes, MaybeBuffer
<1>5. current'[s] = cur /\ \A t \in Surfaces \ {s} : current'[t] = current[t]
  BY <1>1, <1>3
<1>6. left = [b \in Buffers |-> locks[b] - Occurs(b, refs)]
  BY DEF Unlocked
<1>7. ASSUME NEW b \in Buffers
      PROVE  left[b] = locks[b] - One(pending[s].buffer, b) + One(pending[s].buffer, b)
                          - One(current[s], b) + One(cur, b)
                          - Occurs(b, BuffersOf(queued[s])) + Occurs(b, BuffersOf(queued[s]))
  <2>1. Occurs(b, refs) = One(current[s], b) - One(cur, b)
    <3>1. One(Nothing, b) = 0
      BY DEF One, SurfaceAssumption
    <3>2. One(current[s], b) \in Int
      BY OneIs
    <3>3. CASE unmaps
      BY <3>1, <3>2, <3>3, OneIs
    <3>4. CASE ~ unmaps
      BY <3>2, <3>4, OneIs
    <3> QED BY <3>3, <3>4
  <2>2. /\ locks[b] \in Nat /\ Occurs(b, BuffersOf(queued[s])) \in Nat
        /\ One(pending[s].buffer, b) \in Int /\ One(current[s], b) \in Int /\ One(cur, b) \in Int
    BY <1>3, OneIs, QueueOccurs
  <2>3. left[b] = locks[b] - Occurs(b, refs)
    BY <1>6
  <2> HIDE DEF unmaps, refs, cur, left
  <2> QED BY <2>1, <2>2, <2>3
<1> HIDE DEF unmaps, refs, cur, left
<1>8. left = [b \in Buffers |->
                        locks[b] - One(pending[s].buffer, b) + One(pending'[s].buffer, b)
                          - One(current[s], b) + One(current'[s], b)
                          - Occurs(b, BuffersOf(queued[s])) + Occurs(b, BuffersOf(queued'[s]))]
  BY <1>1, <1>5, <1>6, <1>7
<1> QED BY <1>1, <1>2, <1>3, <1>4, <1>5, <1>8, ReleaseStep

LEMMA DestroyKept ==
    ASSUME SurfaceAssumption, CInv, SInv', NEW s \in Surfaces, Destroy(s)
    PROVE  Kept
<1> DEFINE p == pending[s].buffer
           r == BuffersOf(queued[s])
           left == Unlocked(locks, <<p, current[s]>> \o r)
<1>1. /\ current' = [current EXCEPT ![s] = Nothing]
      /\ pending' = [pending EXCEPT ![s] = Blank]
      /\ queued' = [queued EXCEPT ![s] = << >>]
      /\ waiting' = waiting
      /\ Release(left, {}, points, jobs)
  BY DEF Destroy
<1>2. RoleTypes'
  BY DEF Destroy, CInv, RoleTypes
<1>3. /\ current \in [Surfaces -> MaybeBuffer] /\ queued \in [Surfaces -> Seq(States)]
      /\ locks \in [Buffers -> Nat] /\ points \in [Buffers -> SUBSET SUBSET Jobs]
      /\ waiting \in [Surfaces -> SUBSET Ids]
      /\ pending \in [Surfaces -> [new : BOOLEAN, buffer : MaybeBuffer, tex : BOOLEAN]]
  BY CountedIs DEF CInv, StateTypes, SInv, Shapes, BufferTypes
<1>4. StateTypes'
  BY <1>1, <1>3 DEF StateTypes, MaybeBuffer
<1>5. /\ current'[s] = Nothing /\ queued'[s] = << >> /\ pending'[s].buffer = Nothing
      /\ \A t \in Surfaces \ {s} :
             pending'[t].buffer = pending[t].buffer /\ current'[t] = current[t] /\ queued'[t] = queued[t]
  BY <1>1, <1>3 DEF Blank
<1>6. p \in MaybeBuffer /\ current[s] \in MaybeBuffer /\ r \in Seq(Buffers)
  BY <1>3, BuffersAre
<1>7. <<p, current[s]>> = <<p>> \o <<current[s]>>
  <2> HIDE DEF p
  <2> QED BY <1>6
<1>8. ASSUME NEW b \in Buffers PROVE left[b] = locks[b] - (One(p, b) + One(current[s], b) + Occurs(b, r))
  <2> DEFINE x == <<p>>
             y == <<current[s]>>
  <2>1. x \in Seq(MaybeBuffer) /\ y \in Seq(MaybeBuffer) /\ r \in Seq(MaybeBuffer)
    BY <1>6 DEF MaybeBuffer
  <2>2. left[b] = locks[b] - Occurs(b, x \o y \o r)
    BY <1>7 DEF Unlocked
  <2>3. Occurs(b, x) = One(p, b) /\ Occurs(b, y) = One(current[s], b)
    BY OneIs
  <2> HIDE DEF x, y, r
  <2>4. x \o y \in Seq(MaybeBuffer)
    BY <2>1, ConcatProperties
  <2>5. Occurs(b, x \o y \o r) = Occurs(b, x \o y) + Occurs(b, r)
    BY <2>1, <2>4, OccursConcat
  <2>6. Occurs(b, x \o y) = Occurs(b, x) + Occurs(b, y)
    BY <2>1, OccursConcat
  <2> HIDE DEF p, left
  <2> QED BY <2>2, <2>3, <2>5, <2>6
<1>9. ASSUME NEW b \in Buffers
      PROVE  left[b] = locks[b] - One(pending[s].buffer, b) + One(pending'[s].buffer, b)
                          - One(current[s], b) + One(current'[s], b)
                          - Occurs(b, BuffersOf(queued[s])) + Occurs(b, BuffersOf(queued'[s]))
  <2>1. One(pending'[s].buffer, b) = 0 /\ One(current'[s], b) = 0
    BY <1>5 DEF One, SurfaceAssumption
  <2>2. BuffersOf(queued'[s]) = << >>
    BY <1>5 DEF BuffersOf
  <2>3. Occurs(b, BuffersOf(queued'[s])) = 0
    BY <2>2, OneIs
  <2>4. locks[b] \in Nat /\ Occurs(b, r) \in Nat /\ One(p, b) \in Int /\ One(current[s], b) \in Int
    BY <1>3, OneIs, QueueOccurs
  <2>5. left[b] = locks[b] - (One(p, b) + One(current[s], b) + Occurs(b, r))
    BY <1>8
  <2> HIDE DEF left
  <2> QED BY <2>1, <2>3, <2>4, <2>5
<1>10. left = [b \in Buffers |-> left[b]]
  BY DEF Unlocked
<1> HIDE DEF left
<1>11. left = [b \in Buffers |->
                        locks[b] - One(pending[s].buffer, b) + One(pending'[s].buffer, b)
                          - One(current[s], b) + One(current'[s], b)
                          - Occurs(b, BuffersOf(queued[s])) + Occurs(b, BuffersOf(queued'[s]))]
  BY <1>9, <1>10
<1> QED BY <1>1, <1>2, <1>3, <1>4, <1>5, <1>11, ReleaseStep

\* A step that changes the references of one frame, and counts them.
LEMMA FrameCounts ==
    ASSUME SurfaceAssumption, CInv, SInv', jobs' \in Frames, NEW j \in Jobs,
           UNCHANGED <<pending, current, queued>>,
           \A k \in Jobs \ {j} : jobs'[k].holds = jobs[k].holds,
           locks' = [b \in Buffers |-> locks[b] - Cardinality({u \in jobs[j].holds : u[2] = b})
                                                + Cardinality({u \in jobs'[j].holds : u[2] = b})]
    PROVE  Counted'
<1>1. jobs \in Frames /\ queued \in Queues /\ IsFiniteSet(Jobs)
  BY DEF CInv, SInv, Shapes, Queues, BufferTypes, SurfaceAssumption
<1>2. ASSUME NEW b \in Buffers PROVE locks'[b] = Count(pending', current', queued', jobs', b)
  <2> DEFINE F == Holds(jobs, b)
             G == Holds(jobs', b)
             d == Cardinality(PendingOf(pending, b)) + Cardinality(CurrentOf(current, b))
                    + Cardinality(Fibres(Surfaces, Waits(queued, b)))
  <2>1. \A k \in Jobs : IsFiniteSet(F[k]) /\ IsFiniteSet(G[k])
    BY <1>1, HoldsFinite
  <2>2. \A k \in Jobs \ {j} : F[k] = G[k]
    BY DEF Holds
  <2>3. F[j] = {u \in jobs[j].holds : u[2] = b} /\ G[j] = {u \in jobs'[j].holds : u[2] = b}
    BY DEF Holds
  <2>4. /\ Cardinality(PendingOf(pending, b)) \in Nat /\ Cardinality(CurrentOf(current, b)) \in Nat
        /\ Cardinality(Fibres(Surfaces, Waits(queued, b))) \in Nat
    BY <1>1, CountIsNat
  <2>5. d \in Nat
    BY <2>4
  <2>6. /\ Count(pending, current, queued, jobs, b) = d + Cardinality(Fibres(Jobs, F))
        /\ Count(pending', current', queued', jobs', b) = d + Cardinality(Fibres(Jobs, G))
    BY DEF Count
  <2>7. locks[b] = Count(pending, current, queued, jobs, b)
    BY CountedIs
  <2>8. locks'[b] = locks[b] - Cardinality(F[j]) + Cardinality(G[j])
    BY <2>3
  <2> HIDE DEF F, G, d
  <2>9. Cardinality(F[j]) \in Nat /\ Cardinality(G[j]) \in Nat
    BY <2>1, FS_CardinalityType
  <2>10. Cardinality(Fibres(Jobs, F)) \in Nat
    BY <1>1, <2>1, FibresFinite
  <2>11. Cardinality(Fibres(Jobs, G)) = Cardinality(Fibres(Jobs, F)) - Cardinality(F[j]) + Cardinality(G[j])
    BY <1>1, <2>1, <2>2, FibreChange
  <2> QED BY <2>5, <2>6, <2>7, <2>8, <2>9, <2>10, <2>11
<1>3. \A b \in Buffers : locks'[b] = References(b)'
  BY <1>2, ReferencesAre
<1>4. locks' = [b \in Buffers |-> locks'[b]]
  OBVIOUS
<1>5. locks' = [b \in Buffers |-> References(b)']
  BY <1>3, <1>4
<1> QED BY <1>5 DEF Counted

LEMMA RenderKept ==
    ASSUME SurfaceAssumption, CInv, SInv', NEW j \in Jobs, NEW drawn \in SUBSET Surfaces, Render(j, drawn)
    PROVE  Kept
<1> DEFINE used  == {<<s, current[s]>> : s \in {t \in drawn : current[t] \in Buffers \ Shm}}
           kept  == {u \in used : points[u[2]] = {}}
           reads == {u[2] : u \in used}
<1>1. /\ jobs[j] = Idle
      /\ jobs' = [jobs EXCEPT ![j] = [reads |-> reads, holds |-> kept]]
      /\ locks' = [b \in Buffers |-> locks[b] + Cardinality({u \in kept : u[2] = b})]
      /\ points' = [b \in Buffers |-> IF b \in reads THEN {p \cup {j} : p \in points[b]} ELSE points[b]]
      /\ UNCHANGED <<pending, queued, waiting, current, roles, lent, replaced>>
  BY DEF Render
<1>2. used \subseteq Surfaces \X Buffers /\ reads \subseteq Buffers /\ kept \subseteq Surfaces \X Buffers
  OBVIOUS
<1>3. /\ \A b \in reads : points[b] = {} => \E s \in Surfaces : <<s, b>> \in kept
  <2> SUFFICES ASSUME NEW b \in reads, points[b] = {} PROVE \E s \in Surfaces : <<s, b>> \in kept
    OBVIOUS
  <2>1. PICK s \in {t \in drawn : current[t] \in Buffers \ Shm} : <<s, current[s]>>[2] = b
    OBVIOUS
  <2>2. <<s, b>> \in used /\ s \in Surfaces
    BY <2>1
  <2> QED BY <2>2
<1> HIDE DEF used, kept, reads
<1>4. /\ jobs \in Frames /\ points \in [Buffers -> SUBSET SUBSET Jobs] /\ locks \in [Buffers -> Nat]
  BY CountedIs DEF CInv, BufferTypes
<1>5. jobs' \in Frames
  <2>1. [reads |-> reads, holds |-> kept] \in [reads : SUBSET Buffers, holds : SUBSET (Surfaces \X Buffers)]
    BY <1>2
  <2> QED BY <1>1, <1>4, <2>1 DEF Frames
<1>6. points' \in [Buffers -> SUBSET SUBSET Jobs]
  BY <1>1, <1>4
<1>7. /\ jobs'[j].reads = reads /\ jobs'[j].holds = kept /\ jobs[j].holds = {}
      /\ \A k \in Jobs \ {j} : jobs'[k] = jobs[k]
  BY <1>1, <1>4 DEF Frames, Idle
<1>8. Counted'
  <2>1. ASSUME NEW b \in Buffers
        PROVE  locks'[b] = locks[b] - Cardinality({u \in jobs[j].holds : u[2] = b})
                                    + Cardinality({u \in jobs'[j].holds : u[2] = b})
    <3>1. {u \in jobs[j].holds : u[2] = b} = {}
      BY <1>7
    <3>2. Cardinality({u \in jobs[j].holds : u[2] = b}) = 0
      BY <3>1, FS_EmptySet
    <3>3. locks'[b] = locks[b] + Cardinality({u \in jobs'[j].holds : u[2] = b})
      BY <1>1, <1>7
    <3>4. locks[b] \in Nat
      BY <1>4
    <3> QED BY <3>2, <3>3, <3>4
  <2>2. locks' = [b \in Buffers |-> locks[b] - Cardinality({u \in jobs[j].holds : u[2] = b})
                                                + Cardinality({u \in jobs'[j].holds : u[2] = b})]
    BY <1>1, <2>1
  <2> QED BY <1>1, <1>5, <1>7, <2>2, FrameCounts
<1>9. ReadersKnown'
  <2> SUFFICES ASSUME NEW k \in Jobs, NEW b \in jobs'[k].reads
               PROVE  (\E s \in Surfaces : <<s, b>> \in jobs'[k].holds) \/ (\E p \in points'[b] : k \in p)
    BY DEF ReadersKnown
  <2>1. CASE k = j
    <3>1. b \in reads /\ b \in Buffers
      BY <1>2, <1>7, <2>1
    <3>2. CASE points[b] = {}
      BY <1>3, <1>7, <2>1, <3>1, <3>2
    <3>3. CASE points[b] # {}
      <4>1. PICK p \in points[b] : TRUE
        BY <3>3
      <4>2. p \cup {j} \in points'[b]
        BY <1>1, <3>1, <4>1
      <4> QED BY <2>1, <4>2
    <3> QED BY <3>2, <3>3
  <2>2. CASE k # j
    <3>1. jobs'[k] = jobs[k] /\ b \in Buffers
      BY <1>4, <1>7, <2>2 DEF Frames
    <3>2. (\E s \in Surfaces : <<s, b>> \in jobs[k].holds) \/ (\E p \in points[b] : k \in p)
      BY <3>1 DEF CInv, ReadersKnown
    <3>3. ASSUME NEW p \in points[b], k \in p PROVE \E r \in points'[b] : k \in r
      <4>1. p \in points'[b] \/ p \cup {j} \in points'[b]
        BY <1>1, <3>1
      <4> QED BY <3>3, <4>1
    <3> QED BY <3>1, <3>2, <3>3
  <2> QED BY <2>1, <2>2
<1>10. NoReleaseLost' /\ GivesBack
  <2>1. \A b \in Buffers : locks'[b] = 0 => locks[b] = 0
    <3> SUFFICES ASSUME NEW b \in Buffers, locks'[b] = 0 PROVE locks[b] = 0
      OBVIOUS
    <3> DEFINE c == Cardinality({u \in kept : u[2] = b})
    <3>1. IsFiniteSet({u \in kept : u[2] = b})
      <4>1. IsFiniteSet(Surfaces \X Buffers)
        BY FS_Product DEF SurfaceAssumption
      <4> QED BY <1>2, <4>1, FS_Subset
    <3>2. c \in Nat
      BY <3>1, FS_CardinalityType
    <3>3. locks'[b] = locks[b] + c /\ locks[b] \in Nat
      BY <1>1, <1>4
    <3> HIDE DEF c
    <3> QED BY <3>2, <3>3
  <2> QED BY <1>1, <2>1 DEF CInv, NoReleaseLost, GivesBack
<1>11. RoleTypes' /\ BufferTypes' /\ StateTypes' /\ FramesKeep
  BY <1>1, <1>5, <1>6, <1>7 DEF CInv, RoleTypes, BufferTypes, StateTypes, roles, FramesKeep
<1> QED BY <1>8, <1>9, <1>10, <1>11 DEF Kept, CInv

LEMMA RenderedKept ==
    ASSUME SurfaceAssumption, CInv, SInv', NEW j \in Jobs, Rendered(j)
    PROVE  Kept
<1> DEFINE left   == [b \in Buffers |-> locks[b] - Cardinality({u \in jobs[j].holds : u[2] = b})]
           kept   == [b \in Buffers |-> {p \ {j} : p \in points[b]}]
           frames == [jobs EXCEPT ![j] = Idle]
<1>1. /\ Release(left, {}, kept, frames)
      /\ UNCHANGED <<pending, queued, waiting, current, roles>>
  BY DEF Rendered
<1>2. /\ jobs \in Frames /\ points \in [Buffers -> SUBSET SUBSET Jobs] /\ locks \in [Buffers -> Nat]
      /\ BufferTypes /\ NoReleaseLost /\ ReadersKnown
  BY CountedIs DEF CInv, BufferTypes
<1>3. kept \in [Buffers -> SUBSET SUBSET Jobs]
  BY <1>2
<1>4. frames \in Frames /\ frames[j] = Idle /\ \A k \in Jobs \ {j} : frames[k] = jobs[k]
  BY <1>2 DEF Frames, Idle
<1>5. Spared(frames, kept)
  <2> SUFFICES ASSUME NEW k \in Jobs, k # j, NEW b \in Buffers, NEW p \in points[b], k \in p
               PROVE  \E r \in kept[b] : k \in r
    BY <1>4 DEF Idle, Spared
  <2>1. p \ {j} \in kept[b] /\ k \in p \ {j}
    OBVIOUS
  <2> QED BY <2>1
<1> HIDE DEF left, kept, frames
<1>6. /\ BufferTypes' /\ locks' = left
      /\ \A k \in Jobs : jobs'[k].holds = frames[k].holds
      /\ \A b \in Buffers : lent[b] /\ ~ lent'[b] => left[b] = 0
  BY <1>1, <1>2, <1>3, <1>4, ReleaseIs
<1>7. NoReleaseLost' /\ ReadersKnown'
  <2>1. {} \in SUBSET Buffers /\ \A b \in {} : locks[b] > 0
    OBVIOUS
  <2>2. frames \in Frames /\ Release(left, {}, kept, frames)
    BY <1>1, <1>4
  <2> QED BY <1>2, <1>3, <1>5, <2>1, <2>2, ReleaseKeeps
<1>8. jobs'[j].holds = {} /\ \A k \in Jobs \ {j} : jobs'[k].holds = jobs[k].holds
  BY <1>4, <1>6 DEF Idle
<1>9. Counted'
  <2>1. ASSUME NEW b \in Buffers
        PROVE  left[b] = locks[b] - Cardinality({u \in jobs[j].holds : u[2] = b})
                                  + Cardinality({u \in jobs'[j].holds : u[2] = b})
    <3>1. {u \in jobs'[j].holds : u[2] = b} = {}
      BY <1>8
    <3>2. Cardinality({u \in jobs'[j].holds : u[2] = b}) = 0
      BY <3>1, FS_EmptySet
    <3>3. IsFiniteSet(Holds(jobs, b)[j]) /\ Holds(jobs, b)[j] = {u \in jobs[j].holds : u[2] = b}
      BY <1>2, HoldsFinite DEF Holds
    <3>4. Cardinality({u \in jobs[j].holds : u[2] = b}) \in Nat
      BY <3>3, FS_CardinalityType
    <3>5. left[b] = locks[b] - Cardinality({u \in jobs[j].holds : u[2] = b}) /\ locks[b] \in Nat
      BY <1>2 DEF left
    <3> QED BY <3>2, <3>4, <3>5
  <2>2. left = [b \in Buffers |-> left[b]]
    BY DEF left
  <2>3. locks' = [b \in Buffers |-> locks[b] - Cardinality({u \in jobs[j].holds : u[2] = b})
                                                + Cardinality({u \in jobs'[j].holds : u[2] = b})]
    BY <1>6, <2>1, <2>2
  <2>4. jobs' \in Frames
    BY <1>6 DEF BufferTypes
  <2> QED BY <1>1, <1>8, <2>3, <2>4, FrameCounts
<1>10. RoleTypes' /\ StateTypes'
  BY <1>1 DEF CInv, RoleTypes, StateTypes, roles
<1> QED BY <1>6, <1>7, <1>8, <1>9, <1>10 DEF Kept, CInv, GivesBack, FramesKeep

-----------------------------------------------------------------------------
LEMMA CInvStep == SurfaceAssumption /\ CInv /\ [Next]_vars => Kept
<1> SUFFICES ASSUME SurfaceAssumption, CInv, [Next]_vars PROVE Kept
  OBVIOUS
<1>1. SInv'
  BY SInvStep DEF CInv
<1>2. CASE UNCHANGED vars
  BY <1>1, <1>2, SameKept DEF CInv, RoleTypes, StateTypes, vars, roles
<1>3. ASSUME NEW s \in Surfaces, Request(s) PROVE Kept
  <2>1. ASSUME NEW b \in MaybeBuffer, Attach(s, b) PROVE Kept
    BY <1>1, <2>1, AttachKept
  <2>2. CASE CommitNow(s)
    BY <1>1, <2>2, CommitNowKept
  <2>3. CASE CommitBuffer(s)
    BY <1>1, <2>3, CommitBufferKept
  <2>4. CASE TakeRole(s)
    <3>1. RoleTypes' /\ StateTypes'
      BY <2>4 DEF TakeRole, CInv, RoleTypes, StateTypes
    <3> QED BY <1>1, <2>4, <3>1, SameKept DEF TakeRole
  <2>5. CASE DropRole(s)
    BY <1>1, <2>5, DropRoleKept
  <2>6. CASE SetSync(s)
    <3>1. RoleTypes' /\ StateTypes'
      BY <2>6 DEF SetSync, CInv, RoleTypes, StateTypes
    <3> QED BY <1>1, <2>6, <3>1, SameKept DEF SetSync
  <2>7. CASE Destroy(s)
    BY <1>1, <2>7, DestroyKept
  <2>8. CASE Create(s)
    <3>1. RoleTypes' /\ StateTypes'
      BY <2>8 DEF Create, CInv, RoleTypes, StateTypes
    <3> QED BY <1>1, <2>8, <3>1, SameKept DEF Create
  <2> QED BY <1>3, <2>1, <2>2, <2>3, <2>4, <2>5, <2>6, <2>7, <2>8 DEF Request
<1>4. ASSUME NEW s \in Surfaces, NEW id \in Ids, Readable(s, id) PROVE Kept
  BY <1>1, <1>4, ReadableKept
<1>5. ASSUME NEW j \in Jobs, NEW drawn \in SUBSET Surfaces, Render(j, drawn) PROVE Kept
  BY <1>1, <1>5, RenderKept
<1>6. ASSUME NEW j \in Jobs, Rendered(j) PROVE Kept
  BY <1>1, <1>6, RenderedKept
<1> QED BY <1>2, <1>3, <1>4, <1>5, <1>6 DEF Next

\* The counts are the references there are, and none is below nought, however attaches, commits,
\* late fences, frames and destructions come.
THEOREM CountsSoundHolds == Spec => []CountsSound
<1> USE SurfaceAssumption
<1>1. Init => CInv
  BY InitCInv
<1>2. CInv /\ [Next]_vars => CInv'
  BY CInvStep DEF Kept
<1>3. CInv => CountsSound
  <2> SUFFICES ASSUME CInv PROVE CountsSound
    OBVIOUS
  <2>1. TypeOK
    BY CountedIs DEF CInv, SInv, Shapes, States, RoleTypes, BufferTypes, StateTypes, Frames, TypeOK
  <2>2. LocksAreReferences
    BY DEF CInv, Counted, LocksAreReferences
  <2> QED BY <2>1, <2>2 DEF CountsSound
<1> QED BY <1>1, <1>2, <1>3, PTL DEF Spec

\* Every committed buffer is given back to the client, or was replaced by it while lent.
THEOREM NoReleaseLostHolds == Spec => []NoReleaseLost
<1> USE SurfaceAssumption
<1>1. Init => CInv
  BY InitCInv
<1>2. CInv /\ [Next]_vars => CInv'
  BY CInvStep DEF Kept
<1>3. CInv => NoReleaseLost
  BY DEF CInv
<1> QED BY <1>1, <1>2, <1>3, PTL DEF Spec

\* A count of nought leaves no state and no frame that refers to the buffer.
LEMMA NoneRefers ==
    ASSUME SurfaceAssumption, NEW pend, NEW cur, NEW que \in Queues, NEW frames \in Frames, NEW b \in Buffers,
           Count(pend, cur, que, frames, b) = 0
    PROVE  /\ \A s \in Surfaces : cur[s] # b /\ \A i \in DOMAIN que[s] : que[s][i].buffer # b
           /\ \A j \in Jobs : \A s \in Surfaces : <<s, b>> \notin frames[j].holds
<1> DEFINE P == PendingOf(pend, b)
           C == CurrentOf(cur, b)
           W == Fibres(Surfaces, Waits(que, b))
           H == Fibres(Jobs, Holds(frames, b))
<1>1. Cardinality(P) \in Nat /\ Cardinality(C) \in Nat /\ Cardinality(W) \in Nat /\ Cardinality(H) \in Nat
  BY CountIsNat
<1>2. Cardinality(P) + Cardinality(C) + Cardinality(W) + Cardinality(H) = 0
  BY DEF Count
<1>3. IsFiniteSet(Surfaces) /\ IsFiniteSet(Jobs)
  BY DEF SurfaceAssumption
<1>4. IsFiniteSet(C) /\ IsFiniteSet(W) /\ IsFiniteSet(H)
  BY <1>3, FS_Subset, WaitsFinite, HoldsFinite, FibresFinite DEF CurrentOf
<1> HIDE DEF P, C, W, H
<1>5. Cardinality(C) = 0 /\ Cardinality(W) = 0 /\ Cardinality(H) = 0
  BY <1>1, <1>2
<1>6. C = {} /\ W = {} /\ H = {}
  BY <1>4, <1>5, FS_EmptySet
<1>7. \A s \in Surfaces : cur[s] # b
  BY <1>6 DEF C, CurrentOf
<1>8. \A s \in Surfaces : \A i \in DOMAIN que[s] : que[s][i].buffer # b
  <2> SUFFICES ASSUME NEW s \in Surfaces, NEW i \in DOMAIN que[s], que[s][i].buffer = b PROVE FALSE
    OBVIOUS
  <2>1. i \in Waits(que, b)[s]
    BY DEF Waits
  <2>2. <<s, i>> \in W
    BY <2>1 DEF W, Fibres
  <2> QED BY <1>6, <2>2
<1>9. \A j \in Jobs : \A s \in Surfaces : <<s, b>> \notin frames[j].holds
  <2> SUFFICES ASSUME NEW j \in Jobs, NEW s \in Surfaces, <<s, b>> \in frames[j].holds PROVE FALSE
    OBVIOUS
  <2>1. <<s, b>> \in Holds(frames, b)[j]
    BY DEF Holds
  <2>2. <<j, <<s, b>>>> \in H
    BY <2>1 DEF H, Fibres
  <2> QED BY <1>6, <2>2
<1> QED BY <1>7, <1>8, <1>9

\* A buffer the client gets back is in no state, and the frames that read it are over or known.
THEOREM NotReleasedInUseHolds == Spec => NotReleasedInUse
<1> USE SurfaceAssumption
<1>1. Init => CInv
  BY InitCInv
<1>2. CInv /\ [Next]_vars => CInv'
  BY CInvStep DEF Kept
<1>3. CInv /\ [Next]_vars =>
        [\A b \in Buffers : lent[b] /\ ~ lent'[b] =>
           /\ \A s \in Surfaces : current'[s] # b /\ \A i \in DOMAIN queued'[s] : queued'[s][i].buffer # b
           /\ \A j \in Jobs : b \in jobs[j].reads => Ended(j) \/ \E p \in points[b] : j \in p]_vars
  <2> SUFFICES ASSUME CInv, [Next]_vars, NEW b \in Buffers, lent[b], ~ lent'[b]
               PROVE  /\ \A s \in Surfaces : current'[s] # b /\ \A i \in DOMAIN queued'[s] : queued'[s][i].buffer # b
                      /\ \A j \in Jobs : b \in jobs[j].reads => Ended(j) \/ \E p \in points[b] : j \in p
    OBVIOUS
  <2>1. CInv' /\ locks'[b] = 0 /\ FramesKeep
    BY CInvStep DEF Kept, GivesBack
  <2>2. queued' \in Queues /\ jobs' \in Frames
    BY <2>1 DEF CInv, SInv, Shapes, Queues, BufferTypes
  <2>3. locks'[b] = References(b)'
    BY <2>1 DEF CInv, Counted
  <2>4. Count(pending', current', queued', jobs', b) = 0
    BY <2>1, <2>3, ReferencesAre
  <2>5. /\ \A s \in Surfaces : current'[s] # b /\ \A i \in DOMAIN queued'[s] : queued'[s][i].buffer # b
        /\ \A j \in Jobs : \A s \in Surfaces : <<s, b>> \notin jobs'[j].holds
    BY <2>2, <2>4, NoneRefers
  <2>6. ASSUME NEW j \in Jobs, b \in jobs[j].reads, ~ \E p \in points[b] : j \in p PROVE Ended(j)
    <3>1. PICK s \in Surfaces : <<s, b>> \in jobs[j].holds
      BY <2>6 DEF CInv, ReadersKnown
    <3>2. <<s, b>> \notin jobs'[j].holds
      BY <2>5
    <3> QED BY <2>1, <3>1, <3>2 DEF FramesKeep, Ended
  <2> QED BY <2>5, <2>6
<1> QED BY <1>1, <1>2, <1>3, PTL DEF Spec, NotReleasedInUse

=============================================================================
