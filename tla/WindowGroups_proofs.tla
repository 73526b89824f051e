------------------------- MODULE WindowGroups_proofs -------------------------
(***************************************************************************)
(* Proofs about the rings, the trees and the locks of WindowGroups, for    *)
(* every finite set of windows and of nodes.                               *)
(*                                                                         *)
(* The walks of the code are not followed step by step: a set of windows   *)
(* is closed when it has the successor and a predecessor of each of its    *)
(* members, and a ring is the smallest closed set with a window.  Every    *)
(* closed set has a head, and a closed set separates any two heads; that   *)
(* is kept by each of the ways in which a ring is mended.  A tree is a set *)
(* of linked nodes with one root to which all lead; a lock is what a head  *)
(* has, and goes with it or is passed on.                                  *)
(***************************************************************************)
EXTENDS WindowGroups, FiniteSetTheorems, TLAPS

Members(nx) == {v \in Windows : nx[v] # NoWindow}

Closed(nx, S) ==
  /\ S \subseteq Members(nx)
  /\ \A v \in S : nx[v] \in S /\ \E u \in S : nx[u] = v

Permutes(nx) ==
  /\ nx \in [Windows -> Windows \cup {NoWindow}]
  /\ \A v \in Members(nx) : /\ nx[v] \in Members(nx)
                            /\ \E u \in Members(nx) : nx[u] = v
  /\ \A u, v \in Members(nx) : nx[u] = nx[v] => u = v

Headed(nx, hd) ==
  \A S \in SUBSET Windows : Closed(nx, S) /\ S # {} => S \cap hd # {}

Separated(nx, hd) ==
  \A g, h \in hd \cap Members(nx) :
    g # h => \E S \in SUBSET Windows : Closed(nx, S) /\ g \in S /\ h \notin S

Rings(nx, hd) ==
  /\ hd \subseteq Windows
  /\ Permutes(nx) /\ Headed(nx, hd) /\ Separated(nx, hd)

LEMMA MembersClosed ==
  ASSUME NEW nx, Permutes(nx)  PROVE Closed(nx, Members(nx))
BY DEF Closed, Permutes

\* The ring of a window is closed, and every closed set with it has the ring.
LEMMA RingClosed ==
  ASSUME NEW nx, Permutes(nx), NEW w \in Members(nx)
  PROVE  /\ Closed(nx, RingIn(nx, w)) /\ w \in RingIn(nx, w)
         /\ \A S \in SUBSET Windows :
              Closed(nx, S) /\ w \in S => RingIn(nx, w) \subseteq S
<1>1. CASE nx[w] = w
  <2>1. RingIn(nx, w) = {w}
    BY <1>1 DEF RingIn
  <2> QED  BY <1>1, <2>1 DEF Closed
<1>2. CASE nx[w] # w
  <2> DEFINE all == {S \in SUBSET Windows : Closed(nx, S) /\ w \in S}
             R == {v \in Windows : \A S \in all : v \in S}
  <2>1. RingIn(nx, w) = R
    BY <1>2 DEF RingIn, Closed, Members
  <2>2. Members(nx) \in all
    BY MembersClosed DEF Members
  <2>3. w \in R /\ R \subseteq Members(nx)
    BY <2>2 DEF Members
  <2>4. ASSUME NEW v \in R  PROVE nx[v] \in R
    BY <2>2, <2>3 DEF Closed, Members
  <2>5. ASSUME NEW v \in R  PROVE \E u \in R : nx[u] = v
    <3>1. PICK u \in Members(nx) : nx[u] = v
      BY <2>3 DEF Permutes
    <3>2. ASSUME NEW S \in all  PROVE u \in S
      <4>1. PICK x \in S : nx[x] = v
        BY <2>5 DEF Closed
      <4> QED  BY <3>1, <4>1 DEF Permutes, Closed
    <3> QED  BY <3>1, <3>2 DEF Members
  <2> QED  BY <2>1, <2>3, <2>4, <2>5 DEF Closed
<1> QED  BY <1>1, <1>2

\* What is left of a closed set without another one is closed.
LEMMA ClosedWithout ==
  ASSUME NEW nx, Permutes(nx), NEW R \in SUBSET Windows,
         NEW S \in SUBSET Windows, Closed(nx, R), Closed(nx, S)
  PROVE  Closed(nx, R \ S)
<1>1. ASSUME NEW v \in R \ S  PROVE nx[v] \in R \ S
  <2>1. nx[v] \in R /\ v \in Members(nx)
    BY DEF Closed
  <2>2. ASSUME nx[v] \in S  PROVE FALSE
    <3>1. PICK u \in S : nx[u] = nx[v]
      BY <2>2 DEF Closed
    <3> QED  BY <2>1, <3>1 DEF Closed, Permutes
  <2> QED  BY <2>1, <2>2
<1>2. ASSUME NEW v \in R \ S  PROVE \E u \in R \ S : nx[u] = v
  <2>1. PICK u \in R : nx[u] = v
    BY DEF Closed
  <2> QED  BY <2>1 DEF Closed
<1> QED  BY <1>1, <1>2 DEF Closed

\* A ring has one head.
LEMMA RingHead ==
  ASSUME NEW nx, NEW hd, Rings(nx, hd), NEW w \in Members(nx)
  PROVE  \E h \in RingIn(nx, w) :
           h \in hd /\ \A g \in RingIn(nx, w) : g \in hd => g = h
<1> DEFINE R == RingIn(nx, w)
<1>1. /\ R \in SUBSET Windows /\ Closed(nx, R) /\ w \in R
      /\ \A S \in SUBSET Windows : Closed(nx, S) /\ w \in S => R \subseteq S
  BY RingClosed DEF Rings, Closed, Members
<1> HIDE DEF R
<1>2. PICK h \in R : h \in hd
  BY <1>1 DEF Rings, Headed
<1>3. ASSUME NEW g \in R \cap hd, g # h  PROVE FALSE
  <2>1. PICK S \in SUBSET Windows : Closed(nx, S) /\ g \in S /\ h \notin S
    BY <1>1, <1>2, <1>3 DEF Rings, Separated, Closed
  <2>2. CASE w \in S
    BY <1>1, <1>2, <2>1, <2>2
  <2>3. CASE w \notin S
    <3>1. Closed(nx, R \ S) /\ R \ S \in SUBSET Windows
      BY <1>1, <2>1, ClosedWithout DEF Rings
    <3> QED  BY <1>1, <2>1, <2>3, <3>1
  <2> QED  BY <2>2, <2>3
<1> QED  BY <1>2, <1>3 DEF R
-----------------------------------------------------------------------------
(* What depends on the closed sets only.                                    *)

\* The same windows are in the same rings.
SameRings(nx, new) ==
  /\ Members(new) = Members(nx)
  /\ \A S \in SUBSET Windows : Closed(new, S) <=> Closed(nx, S)

\* v and w are in the same ring: no closed set tells them apart.
Together(nx, v, w) ==
  \A S \in SUBSET Windows : Closed(nx, S) => (v \in S <=> w \in S)

\* All members of a ring are in A or none is.
Agrees(nx, A) == Closed(nx, Members(nx) \cap A)

LEMMA SameRingsSameHeads ==
  ASSUME NEW nx, NEW new, NEW hd, Rings(nx, hd), Permutes(new),
         SameRings(nx, new)
  PROVE  Rings(new, hd)
<1>1. Headed(new, hd)
  BY DEF SameRings, Rings, Headed
<1>2. Separated(new, hd)
  BY DEF SameRings, Rings, Separated
<1> QED  BY <1>1, <1>2 DEF Rings

\* Flags of windows in no group do not matter.
LEMMA FlagsOfMembers ==
  ASSUME NEW nx, NEW hd, Rings(nx, hd), NEW hd2 \in SUBSET Windows,
         \A v \in Members(nx) : v \in hd2 <=> v \in hd
  PROVE  Rings(nx, hd2)
<1>1. Headed(nx, hd2)
  <2> SUFFICES ASSUME NEW S \in SUBSET Windows, Closed(nx, S), S # {}
               PROVE  S \cap hd2 # {}
    BY DEF Headed
  <2>1. PICK h \in S : h \in hd
    BY DEF Rings, Headed
  <2> QED  BY <2>1 DEF Closed
<1>2. Separated(nx, hd2)
  BY DEF Rings, Separated
<1> QED  BY <1>1, <1>2 DEF Rings

\* The members of a ring are together.
LEMMA RingTogether ==
  ASSUME NEW nx, Permutes(nx), NEW w \in Members(nx), NEW v \in RingIn(nx, w)
  PROVE  Together(nx, v, w) /\ v \in Members(nx)
<1> DEFINE R == RingIn(nx, w)
<1>1. /\ R \in SUBSET Windows /\ Closed(nx, R) /\ w \in R
      /\ \A S \in SUBSET Windows : Closed(nx, S) /\ w \in S => R \subseteq S
      /\ v \in R
  BY RingClosed DEF Closed, Members
<1> HIDE DEF R
<1>2. ASSUME NEW S \in SUBSET Windows, Closed(nx, S), v \in S, w \notin S
      PROVE  FALSE
  <2>1. Closed(nx, R \ S) /\ R \ S \in SUBSET Windows
    BY <1>1, <1>2, ClosedWithout
  <2> QED  BY <1>1, <1>2, <2>1
<1> QED  BY <1>1, <1>2 DEF Together, Closed

LEMMA TogetherInRing ==
  ASSUME NEW nx, Permutes(nx), NEW w \in Members(nx), NEW v, Together(nx, v, w)
  PROVE  v \in RingIn(nx, w)
<1> HIDE DEF Permutes
<1>1. Closed(nx, RingIn(nx, w)) /\ w \in RingIn(nx, w)
  BY RingClosed
<1> QED  BY <1>1 DEF Together, Closed, Members

\* Neighbours are together.
LEMMA NextTogether ==
  ASSUME NEW nx, Permutes(nx), NEW v \in Members(nx)
  PROVE  Together(nx, v, nx[v]) /\ Together(nx, nx[v], v)
<1> SUFFICES ASSUME NEW S \in SUBSET Windows, Closed(nx, S)
             PROVE  v \in S <=> nx[v] \in S
  BY DEF Together
<1>1. v \in S => nx[v] \in S
  BY DEF Closed
<1>2. ASSUME nx[v] \in S  PROVE v \in S
  <2>1. PICK u \in S : nx[u] = nx[v]
    BY <1>2 DEF Closed
  <2> QED  BY <2>1 DEF Closed, Permutes
<1> QED  BY <1>1, <1>2

\* No two members of a ring have the flag.
LEMMA OneFlag ==
  ASSUME NEW nx, NEW hd, Rings(nx, hd), NEW v \in Members(nx),
         NEW w \in Members(nx), Together(nx, v, w), v \in hd, w \in hd
  PROVE  v = w
BY DEF Rings, Separated, Together

\* The flag goes from one member of a ring to another.
LEMMA TogetherExchanged ==
  ASSUME NEW nx, NEW hd, Rings(nx, hd), NEW v \in Members(nx),
         NEW w \in Members(nx), Together(nx, v, w)
  PROVE  Rings(nx, Exchanged(hd, v, w)) /\ Rings(nx, Exchanged(hd, w, v))
<1> DEFINE hd2 == Exchanged(hd, v, w)
           Other(x) == IF x = v THEN w ELSE IF x = w THEN v ELSE x
<1>1. v \in Windows /\ w \in Windows
  BY DEF Members
<1>2. Exchanged(hd, w, v) = hd2
  BY DEF Exchanged
<1>3. /\ hd2 \subseteq Windows
      /\ \A x \in Windows : x \in hd2 <=> Other(x) \in hd
  BY DEF Exchanged
<1>4. \A S \in SUBSET Windows : Closed(nx, S) => (v \in S <=> w \in S)
  BY DEF Together
<1> HIDE DEF hd2
<1>5. Headed(nx, hd2)
  <2> SUFFICES ASSUME NEW S \in SUBSET Windows, Closed(nx, S), S # {}
               PROVE  S \cap hd2 # {}
    BY DEF Headed
  <2>1. PICK h \in S : h \in hd
    BY DEF Rings, Headed
  <2>2. Other(h) \in S /\ Other(Other(h)) = h
    BY <1>4
  <2> QED  BY <1>3, <2>1, <2>2
<1>6. Separated(nx, hd2)
  <2> SUFFICES ASSUME NEW g \in hd2 \cap Members(nx),
                      NEW h \in hd2 \cap Members(nx), g # h
               PROVE  \E S \in SUBSET Windows :
                        Closed(nx, S) /\ g \in S /\ h \notin S
    BY DEF Separated
  <2>1. /\ Other(g) \in hd \cap Members(nx) /\ Other(h) \in hd \cap Members(nx)
        /\ Other(g) # Other(h)
    BY <1>1, <1>3 DEF Members
  <2>2. PICK S \in SUBSET Windows :
          Closed(nx, S) /\ Other(g) \in S /\ Other(h) \notin S
    BY <2>1 DEF Rings, Separated
  <2>3. g \in S /\ h \notin S
    BY <1>4, <2>2
  <2> QED  BY <2>2, <2>3
<1>7. Rings(nx, hd2)
  BY <1>3, <1>5, <1>6 DEF Rings
<1> QED  BY <1>2, <1>7 DEF hd2

\* The flag goes from the member that has it to another.
LEMMA FlagPassed ==
  ASSUME NEW nx, NEW hd, Rings(nx, hd), NEW v \in Members(nx), v \in hd,
         NEW w \in Members(nx), Together(nx, v, w)
  PROVE  Rings(nx, (hd \ {v}) \cup {w})
<1>1. CASE v = w
  <2>1. (hd \ {v}) \cup {w} = hd
    BY <1>1
  <2> QED  BY <2>1
<1>2. CASE v # w
  <2>1. w \notin hd
    BY <1>2, OneFlag
  <2>2. Exchanged(hd, v, w) = (hd \ {v}) \cup {w}
    BY <1>2, <2>1 DEF Exchanged, Rings, Members
  <2>3. Rings(nx, Exchanged(hd, v, w))
    BY TogetherExchanged
  <2> QED  BY <2>2, <2>3
<1> QED  BY <1>1, <1>2

\* Closed sets that are added or taken away keep a set closed.
LEMMA AgreesWithRing ==
  ASSUME NEW nx, Permutes(nx), NEW A \in SUBSET Windows, Agrees(nx, A),
         NEW R \in SUBSET Windows, Agrees(nx, R)
  PROVE  Agrees(nx, A \cup R) /\ Agrees(nx, A \ R)
<1> DEFINE a == Members(nx) \cap A
           r == Members(nx) \cap R
<1>1. Closed(nx, a) /\ Closed(nx, r) /\ a \in SUBSET Windows
      /\ r \in SUBSET Windows
  BY DEF Agrees
<1>2. /\ Members(nx) \cap (A \cup R) = a \cup r
      /\ Members(nx) \cap (A \ R) = a \ r
  OBVIOUS
<1> HIDE DEF a, r
<1>3. Closed(nx, a \cup r)
  BY <1>1 DEF Closed
<1>4. Closed(nx, a \ r)
  BY <1>1, ClosedWithout
<1> QED  BY <1>2, <1>3, <1>4 DEF Agrees

-----------------------------------------------------------------------------
(* A window leaves its ring.                                                *)

LeftHead(nx, hd, w) == IF w \in hd THEN Exchanged(hd, w, nx[w]) ELSE hd

LEMMA UnlinkedPermutes ==
  ASSUME NEW nx, Permutes(nx), NEW w \in Windows
  PROVE  /\ Permutes(Unlinked(nx, w))
         /\ Members(Unlinked(nx, w)) = Members(nx) \ {w}
<1> DEFINE new == Unlinked(nx, w)
<1>1. new \in [Windows -> Windows \cup {NoWindow}]
  BY DEF Permutes, Unlinked
<1>2. \A v \in Windows :
        new[v] = IF v = w THEN NoWindow ELSE IF nx[v] = w THEN nx[w] ELSE nx[v]
  BY DEF Unlinked
<1> HIDE DEF new
<1>3. Members(new) = Members(nx) \ {w}
  <2>1. ASSUME NEW v \in Windows, v # w, nx[v] # NoWindow
        PROVE  new[v] # NoWindow
    BY <1>2, <2>1 DEF Permutes, Members
  <2>2. ASSUME NEW v \in Windows, v # w, nx[v] = NoWindow
        PROVE  new[v] = NoWindow
    BY <1>2, <2>2, TreeAssumption
  <2> QED  BY <1>2, <2>1, <2>2 DEF Members
<1>4. ASSUME NEW v \in Members(new)  PROVE new[v] \in Members(new)
  <2>1. v \in Members(nx) /\ v # w /\ nx[v] \in Members(nx)
    BY <1>3 DEF Permutes
  <2>2. CASE nx[v] = w
    <3>1. nx[w] \in Members(nx) /\ nx[w] # w
      BY <2>1, <2>2 DEF Permutes
    <3> QED  BY <1>2, <1>3, <2>1, <2>2, <3>1 DEF Members
  <2>3. CASE nx[v] # w
    BY <1>2, <1>3, <2>1, <2>3 DEF Members
  <2> QED  BY <2>2, <2>3
<1>5. ASSUME NEW v \in Members(new)  PROVE \E u \in Members(new) : new[u] = v
  <2>1. PICK u \in Members(nx) : nx[u] = v
    BY <1>3 DEF Permutes
  <2>2. CASE u = w
    <3>1. PICK t \in Members(nx) : nx[t] = w
      BY <2>2 DEF Permutes
    <3>2. t # w
      BY <1>3, <2>1, <2>2, <3>1
    <3> QED  BY <1>2, <1>3, <2>1, <2>2, <3>1, <3>2 DEF Members
  <2>3. CASE u # w
    BY <1>2, <1>3, <2>1, <2>3 DEF Members
  <2> QED  BY <2>2, <2>3
<1>6. ASSUME NEW u \in Members(new), NEW v \in Members(new), new[u] = new[v]
      PROVE  u = v
  <2>1. u \in Members(nx) /\ v \in Members(nx) /\ u # w /\ v # w
    BY <1>3
  <2>2. u \in Windows /\ v \in Windows
    BY <2>1 DEF Members
  <2>3. CASE nx[u] = w /\ nx[v] = w
    BY <2>1, <2>3 DEF Permutes
  <2>4. CASE nx[u] # w /\ nx[v] # w
    BY <1>2, <1>6, <2>1, <2>2, <2>4 DEF Permutes
  <2>5. CASE nx[u] = w /\ nx[v] # w
    <3>1. nx[w] = nx[v] /\ w \in Members(nx)
      BY <1>2, <1>6, <2>1, <2>2, <2>5 DEF Permutes
    <3> QED  BY <2>1, <3>1 DEF Permutes
  <2>6. CASE nx[u] # w /\ nx[v] = w
    <3>1. nx[w] = nx[u] /\ w \in Members(nx)
      BY <1>2, <1>6, <2>1, <2>2, <2>6 DEF Permutes
    <3> QED  BY <2>1, <3>1 DEF Permutes
  <2> QED  BY <2>3, <2>4, <2>5, <2>6
<1>7. Permutes(new)
  BY <1>1, <1>4, <1>5, <1>6 DEF Permutes
<1> QED  BY <1>3, <1>7 DEF new

\* A closed set stays closed without the window, and the other way round.
LEMMA UnlinkedClosed ==
  ASSUME NEW nx, Permutes(nx), NEW w \in Members(nx), nx[w] # w,
         NEW S \in SUBSET Windows, Closed(nx, S)
  PROVE  Closed(Unlinked(nx, w), S \ {w})
<1> DEFINE new == Unlinked(nx, w)
<1>1. \A v \in Windows :
        new[v] = IF v = w THEN NoWindow ELSE IF nx[v] = w THEN nx[w] ELSE nx[v]
  BY DEF Unlinked
<1>2. Members(new) = Members(nx) \ {w}
  BY UnlinkedPermutes DEF Members
<1> HIDE DEF new
<1>3. ASSUME NEW v \in S \ {w}  PROVE new[v] \in S \ {w}
  BY <1>1 DEF Closed
<1>4. ASSUME NEW v \in S \ {w}  PROVE \E u \in S \ {w} : new[u] = v
  <2>1. PICK u \in S : nx[u] = v
    BY DEF Closed
  <2>2. CASE u = w
    <3>1. PICK t \in S : nx[t] = w
      BY <2>2 DEF Closed
    <3> QED  BY <1>1, <2>1, <2>2, <3>1
  <2>3. CASE u # w
    BY <1>1, <2>1, <2>3
  <2> QED  BY <2>2, <2>3
<1>5. Closed(new, S \ {w})
  BY <1>2, <1>3, <1>4 DEF Closed
<1> QED  BY <1>5 DEF new

LEMMA UnlinkedClosedBack ==
  ASSUME NEW nx, Permutes(nx), NEW w \in Members(nx), nx[w] # w,
         NEW S \in SUBSET Windows, Closed(Unlinked(nx, w), S)
  PROVE  Closed(nx, IF nx[w] \in S THEN S \cup {w} ELSE S)
<1> DEFINE new == Unlinked(nx, w)
<1>1. \A v \in Windows :
        new[v] = IF v = w THEN NoWindow ELSE IF nx[v] = w THEN nx[w] ELSE nx[v]
  BY DEF Unlinked
<1>2. Members(new) = Members(nx) \ {w}
  BY UnlinkedPermutes DEF Members
<1> HIDE DEF new
<1>3. /\ S \subseteq Members(nx) \ {w}
      /\ \A v \in S : new[v] \in S /\ \E u \in S : new[u] = v
  BY <1>2 DEF Closed, new
<1>4. CASE nx[w] \in S
  <2>1. ASSUME NEW v \in S \cup {w}  PROVE nx[v] \in S \cup {w}
    BY <1>1, <1>3, <1>4 DEF Members
  <2>2. ASSUME NEW v \in S \cup {w}
        PROVE  \E u \in S \cup {w} : nx[u] = v
    <3>1. CASE v = w
      <4>1. PICK u \in S : new[u] = nx[w]
        BY <1>3, <1>4
      <4>2. nx[u] = w \/ nx[u] = nx[w]
        BY <1>1, <1>3, <4>1 DEF Members
      <4> QED  BY <1>3, <3>1, <4>1, <4>2 DEF Permutes
    <3>2. CASE v # w /\ v = nx[w]
      BY <3>2
    <3>3. CASE v # w /\ v # nx[w]
      <4>1. PICK u \in S : new[u] = v
        BY <1>3, <3>3
      <4> QED  BY <1>1, <1>3, <3>3, <4>1 DEF Members
    <3> QED  BY <3>1, <3>2, <3>3
  <2> QED  BY <1>3, <1>4, <2>1, <2>2 DEF Closed
<1>5. CASE nx[w] \notin S
  BY <1>1, <1>3, <1>5 DEF Closed, Members
<1> QED  BY <1>4, <1>5

LEMMA UnlinkedRings ==
  ASSUME NEW nx, NEW hd, Rings(nx, hd), NEW w \in Members(nx), nx[w] # w
  PROVE  Rings(Unlinked(nx, w), LeftHead(nx, hd, w))
<1> DEFINE new == Unlinked(nx, w)
           hd2 == LeftHead(nx, hd, w)
           n == nx[w]
<1>1. Permutes(new) /\ Members(new) = Members(nx) \ {w}
  BY UnlinkedPermutes DEF Rings, Members
<1>2. n \in Members(nx) /\ n \in Windows /\ w \in Windows
  BY DEF Rings, Permutes, Members
<1>3. /\ hd2 \subseteq Windows
      /\ \A v \in Windows \ {w, n} : v \in hd2 <=> v \in hd
      /\ w \in hd => n \in hd2
      /\ w \notin hd => hd2 = hd
  BY <1>2 DEF LeftHead, Exchanged, Rings
<1>4. \A S \in SUBSET Windows : Closed(nx, S) => Closed(new, S \ {w})
  BY UnlinkedClosed DEF Rings
<1>5. \A S \in SUBSET Windows :
        Closed(new, S) => Closed(nx, IF n \in S THEN S \cup {w} ELSE S)
  BY UnlinkedClosedBack DEF Rings
<1> HIDE DEF new, hd2, n
<1>6. Headed(new, hd2)
  <2> SUFFICES ASSUME NEW S \in SUBSET Windows, Closed(new, S), S # {}
               PROVE  S \cap hd2 # {}
    BY DEF Headed
  <2>1. CASE n \in S
    <3>1. Closed(nx, S \cup {w}) /\ S \cup {w} \in SUBSET Windows
      BY <1>2, <1>5, <2>1
    <3>2. PICK h \in S \cup {w} : h \in hd
      BY <3>1 DEF Rings, Headed
    <3> QED  BY <1>3, <2>1, <3>2
  <2>2. CASE n \notin S
    <3>1. Closed(nx, S)
      BY <1>5, <2>2
    <3>2. PICK h \in S : h \in hd
      BY <3>1 DEF Rings, Headed
    <3>3. w \notin S
      BY <1>1 DEF Closed
    <3> QED  BY <1>3, <2>2, <3>2, <3>3
  <2> QED  BY <2>1, <2>2
<1>7. Separated(new, hd2)
  <2> SUFFICES ASSUME NEW g \in hd2 \cap Members(new),
                      NEW h \in hd2 \cap Members(new), g # h
               PROVE  \E S \in SUBSET Windows :
                        Closed(new, S) /\ g \in S /\ h \notin S
    BY DEF Separated
  <2> DEFINE Old(x) == IF x = n /\ w \in hd THEN w ELSE x
  <2>0. g \in Windows \ {w} /\ h \in Windows \ {w}
    BY <1>1 DEF Members
  <2>1. /\ Old(g) \in hd \cap Members(nx) /\ Old(h) \in hd \cap Members(nx)
        /\ Old(g) # Old(h)
    BY <1>1, <1>3, <2>0
  <2>2. PICK S \in SUBSET Windows :
          Closed(nx, S) /\ Old(g) \in S /\ Old(h) \notin S
    BY <2>1 DEF Rings, Separated
  <2>3. w \in S <=> n \in S
    <3>1. w \in S => n \in S
      BY <2>2 DEF Closed, n
    <3>2. ASSUME n \in S  PROVE w \in S
      <4>1. PICK u \in S : nx[u] = n
        BY <2>2, <3>2 DEF Closed
      <4> QED  BY <2>2, <4>1 DEF n, Closed, Rings, Permutes
    <3> QED  BY <3>1, <3>2
  <2>4. g \in S \ {w} /\ h \notin S \ {w}
    BY <2>0, <2>2, <2>3
  <2> QED  BY <1>4, <2>2, <2>4
<1>8. Rings(new, hd2)
  BY <1>1, <1>3, <1>6, <1>7 DEF Rings
<1> QED  BY <1>8 DEF new, hd2

-----------------------------------------------------------------------------
(* A window joins a ring.                                                   *)

LEMMA SplicedPermutes ==
  ASSUME NEW nx, Permutes(nx), NEW w \in Windows \ Members(nx),
         NEW at \in Members(nx)
  PROVE  /\ Permutes(Spliced(nx, at, w))
         /\ Members(Spliced(nx, at, w)) = Members(nx) \cup {w}
<1> DEFINE new == Spliced(nx, at, w)
<1>1. \A v \in Windows :
        new[v] = IF v = at THEN w ELSE IF v = w THEN nx[at] ELSE nx[v]
  BY DEF Spliced
<1>2. new \in [Windows -> Windows \cup {NoWindow}]
  BY DEF Permutes, Spliced, Members
<1>3. /\ at \in Windows /\ w # at /\ nx[at] \in Members(nx)
      /\ w # NoWindow /\ nx[at] # NoWindow
  BY TreeAssumption DEF Permutes, Members
<1> HIDE DEF new
<1>4. Members(new) = Members(nx) \cup {w}
  BY <1>1, <1>3 DEF Members
<1>5. ASSUME NEW v \in Members(new)  PROVE new[v] \in Members(new)
  BY <1>1, <1>3, <1>4 DEF Permutes, Members
<1>6. ASSUME NEW v \in Members(new)  PROVE \E u \in Members(new) : new[u] = v
  <2>1. CASE v = w
    BY <1>1, <1>3, <1>4, <2>1
  <2>2. CASE v # w
    <3>1. PICK u \in Members(nx) : nx[u] = v
      BY <1>4, <2>2 DEF Permutes
    <3>2. CASE u = at
      BY <1>1, <1>3, <1>4, <3>1, <3>2
    <3>3. CASE u # at
      BY <1>1, <1>4, <3>1, <3>3 DEF Members
    <3> QED  BY <3>2, <3>3
  <2> QED  BY <2>1, <2>2
<1>7. ASSUME NEW u \in Members(new), NEW v \in Members(new), new[u] = new[v]
      PROVE  u = v
  <2> DEFINE Old(x) == IF x = w THEN at ELSE x
  <2>1. CASE u = at \/ v = at
    <3>1. ASSUME NEW x \in Members(new), new[x] = w  PROVE x = at
      BY <1>1, <1>3, <1>4, <3>1 DEF Permutes, Members
    <3> QED  BY <1>1, <1>3, <1>7, <2>1, <3>1
  <2>2. CASE u # at /\ v # at
    <3>1. /\ Old(u) \in Members(nx) /\ Old(v) \in Members(nx)
          /\ nx[Old(u)] = nx[Old(v)]
      BY <1>1, <1>4, <1>7, <2>2 DEF Members
    <3> QED  BY <2>2, <3>1 DEF Permutes
  <2> QED  BY <2>1, <2>2
<1>8. Permutes(new)
  BY <1>2, <1>5, <1>6, <1>7 DEF Permutes
<1> QED  BY <1>4, <1>8 DEF new

LEMMA SplicedClosed ==
  ASSUME NEW nx, Permutes(nx), NEW w \in Windows \ Members(nx),
         NEW at \in Members(nx), NEW S \in SUBSET Windows, Closed(nx, S)
  PROVE  Closed(Spliced(nx, at, w), IF at \in S THEN S \cup {w} ELSE S)
<1> DEFINE new == Spliced(nx, at, w)
<1>1. \A v \in Windows :
        new[v] = IF v = at THEN w ELSE IF v = w THEN nx[at] ELSE nx[v]
  BY DEF Spliced
<1>2. Members(new) = Members(nx) \cup {w}
  BY SplicedPermutes
<1>3. w \notin S /\ at \in Windows /\ w # at
  BY DEF Closed, Members
<1> HIDE DEF new
<1>4. CASE at \in S
  <2>1. ASSUME NEW v \in S \cup {w}  PROVE new[v] \in S \cup {w}
    BY <1>1, <1>3, <1>4 DEF Closed
  <2>2. ASSUME NEW v \in S \cup {w}  PROVE \E u \in S \cup {w} : new[u] = v
    <3>1. CASE v = w
      BY <1>1, <1>3, <1>4, <3>1
    <3>2. CASE v \in S
      <4>1. PICK u \in S : nx[u] = v
        BY <3>2 DEF Closed
      <4>2. CASE u = at
        BY <1>1, <1>3, <4>1, <4>2
      <4>3. CASE u # at
        BY <1>1, <1>3, <4>1, <4>3
      <4> QED  BY <4>2, <4>3
    <3> QED  BY <3>1, <3>2
  <2> QED  BY <1>2, <1>4, <2>1, <2>2 DEF Closed, new
<1>5. CASE at \notin S
  <2>1. ASSUME NEW v \in S  PROVE new[v] \in S
    BY <1>1, <1>3, <1>5 DEF Closed
  <2>2. ASSUME NEW v \in S  PROVE \E u \in S : new[u] = v
    <3>1. PICK u \in S : nx[u] = v
      BY DEF Closed
    <3> QED  BY <1>1, <1>3, <1>5, <3>1
  <2> QED  BY <1>2, <1>5, <2>1, <2>2 DEF Closed, new
<1> QED  BY <1>4, <1>5

LEMMA SplicedClosedBack ==
  ASSUME NEW nx, Permutes(nx), NEW w \in Windows \ Members(nx),
         NEW at \in Members(nx), NEW S \in SUBSET Windows,
         Closed(Spliced(nx, at, w), S)
  PROVE  Closed(nx, S \ {w}) /\ (w \in S => at \in S)
<1> DEFINE new == Spliced(nx, at, w)
<1>1. \A v \in Windows :
        new[v] = IF v = at THEN w ELSE IF v = w THEN nx[at] ELSE nx[v]
  BY DEF Spliced
<1>2. Members(new) = Members(nx) \cup {w}
  BY SplicedPermutes
<1>3. /\ S \subseteq Members(nx) \cup {w}
      /\ \A v \in S : new[v] \in S /\ \E u \in S : new[u] = v
  BY <1>2 DEF Closed, new
<1>4. \A v \in Members(nx) : nx[v] \in Members(nx) /\ nx[v] # w
  BY DEF Permutes
<1> HIDE DEF new
<1>5. ASSUME w \in S  PROVE at \in S
  <2>1. PICK u \in S : new[u] = w
    BY <1>3, <1>5
  <2> QED  BY <1>1, <1>3, <1>4, <2>1
<1>6. ASSUME NEW v \in S \ {w}  PROVE nx[v] \in S \ {w}
  <2>1. CASE v = at
    <3>1. w \in S /\ new[w] = nx[at]
      BY <1>1, <1>3, <2>1
    <3> QED  BY <1>3, <1>4, <2>1, <3>1
  <2>2. CASE v # at
    BY <1>1, <1>3, <1>4, <2>2
  <2> QED  BY <2>1, <2>2
<1>7. ASSUME NEW v \in S \ {w}  PROVE \E u \in S \ {w} : nx[u] = v
  <2>1. PICK u \in S : new[u] = v
    BY <1>3
  <2>2. CASE u = w
    BY <1>1, <1>5, <2>1, <2>2
  <2>3. CASE u # w
    BY <1>1, <2>1, <2>3
  <2> QED  BY <2>2, <2>3
<1> QED  BY <1>3, <1>5, <1>6, <1>7 DEF Closed

LEMMA SplicedRings ==
  ASSUME NEW nx, NEW hd, Rings(nx, hd), NEW w \in Windows \ Members(nx),
         NEW at \in Members(nx)
  PROVE  Rings(Spliced(nx, at, w), hd \ {w})
<1> DEFINE new == Spliced(nx, at, w)
<1>1. Permutes(new) /\ Members(new) = Members(nx) \cup {w}
  BY SplicedPermutes DEF Rings
<1>2. \A S \in SUBSET Windows :
        Closed(nx, S) => Closed(new, IF at \in S THEN S \cup {w} ELSE S)
  BY SplicedClosed DEF Rings
<1>3. \A S \in SUBSET Windows :
        Closed(new, S) => Closed(nx, S \ {w}) /\ (w \in S => at \in S)
  BY SplicedClosedBack DEF Rings
<1>4. at # w
  OBVIOUS
<1> HIDE DEF new
<1>5. Headed(new, hd \ {w})
  <2> SUFFICES ASSUME NEW S \in SUBSET Windows, Closed(new, S), S # {}
               PROVE  S \cap (hd \ {w}) # {}
    BY DEF Headed
  <2>1. Closed(nx, S \ {w}) /\ S \ {w} # {}
    BY <1>3, <1>4
  <2> QED  BY <2>1 DEF Rings, Headed
<1>6. Separated(new, hd \ {w})
  <2> SUFFICES ASSUME NEW g \in (hd \ {w}) \cap Members(new),
                      NEW h \in (hd \ {w}) \cap Members(new), g # h
               PROVE  \E S \in SUBSET Windows :
                        Closed(new, S) /\ g \in S /\ h \notin S
    BY DEF Separated
  <2>1. PICK S \in SUBSET Windows : Closed(nx, S) /\ g \in S /\ h \notin S
    BY <1>1 DEF Rings, Separated
  <2>2. /\ Closed(new, IF at \in S THEN S \cup {w} ELSE S)
        /\ S \cup {w} \in SUBSET Windows
    BY <1>2, <2>1
  <2> QED  BY <2>1, <2>2
<1>7. Rings(new, hd \ {w})
  BY <1>1, <1>5, <1>6 DEF Rings
<1> QED  BY <1>7 DEF new

-----------------------------------------------------------------------------
(* Two neighbours change places.                                            *)

LEMMA TurnedPermutes ==
  ASSUME NEW nx, Permutes(nx), NEW v \in Members(nx), NEW w, nx[v] = w, v # w
  PROVE  /\ Permutes(Turned(nx, v, w))
         /\ Members(Turned(nx, v, w)) = Members(nx)
<1> DEFINE new == Turned(nx, v, w)
<1>1. /\ w \in Members(nx) /\ v \in Windows /\ w \in Windows
      /\ nx[w] \in Members(nx)
  BY DEF Permutes, Members
<1>2. \A x \in Windows :
        new[x] = IF x = w THEN v
                 ELSE IF x = v THEN (IF nx[w] = v THEN w ELSE nx[w])
                 ELSE IF nx[x] = v THEN w ELSE nx[x]
  BY DEF Turned
<1>3. new \in [Windows -> Windows \cup {NoWindow}]
  BY <1>1 DEF Permutes, Turned, Members
<1> HIDE DEF new
<1>4. Members(new) = Members(nx)
  <2>1. ASSUME NEW x \in Windows, nx[x] # NoWindow  PROVE new[x] # NoWindow
    BY <1>1, <1>2, <2>1, TreeAssumption DEF Members
  <2>2. ASSUME NEW x \in Windows, nx[x] = NoWindow  PROVE new[x] = NoWindow
    BY <1>1, <1>2, <2>2, TreeAssumption DEF Members
  <2> QED  BY <2>1, <2>2 DEF Members
<1>5. ASSUME NEW x \in Members(new)  PROVE new[x] \in Members(new)
  BY <1>1, <1>2, <1>4 DEF Permutes, Members
<1>6. ASSUME NEW x \in Members(new)  PROVE \E u \in Members(new) : new[u] = x
  <2>1. PICK u \in Members(nx) : nx[u] = x
    BY <1>4 DEF Permutes
  <2>2. PICK p \in Members(nx) : nx[p] = v
    BY DEF Permutes
  <2>3. p # v
    BY <2>2
  <2>4. CASE x = v
    BY <1>1, <1>2, <1>4, <2>4
  <2>5. CASE x = w /\ p = w
    BY <1>1, <1>2, <1>4, <2>2, <2>5
  <2>6. CASE x = w /\ p # w
    BY <1>1, <1>2, <1>4, <2>2, <2>3, <2>6 DEF Members
  <2>7. CASE x # v /\ x # w /\ u = w
    BY <1>1, <1>2, <1>4, <2>1, <2>7
  <2>8. CASE x # v /\ x # w /\ u # w
    BY <1>1, <1>2, <1>4, <2>1, <2>8 DEF Members
  <2> QED  BY <2>4, <2>5, <2>6, <2>7, <2>8
<1>7. ASSUME NEW x \in Members(new), NEW y \in Members(new), new[x] = new[y]
      PROVE  x = y
  <2> DEFINE Old(z) == IF z = v THEN w
                       ELSE IF z = w THEN v ELSE z
  <2>1. x \in Windows /\ y \in Windows /\ x \in Members(nx) /\ y \in Members(nx)
    BY <1>4 DEF Members
  <2>2. \A z \in Members(nx) : nx[z] = w => z = v
    BY DEF Permutes
  <2>3. \A z \in Members(nx) : /\ nx[z] = v => z # v
                               /\ nx[z] = nx[w] => z = w
    BY <1>1 DEF Permutes
  <2>4. CASE x = w
    BY <1>1, <1>2, <1>7, <2>1, <2>2, <2>3, <2>4
  <2>5. CASE y = w
    BY <1>1, <1>2, <1>7, <2>1, <2>2, <2>3, <2>5
  <2>6. CASE x # w /\ y # w /\ x = v
    BY <1>1, <1>2, <1>7, <2>1, <2>2, <2>3, <2>6
  <2>7. CASE x # w /\ y # w /\ y = v
    BY <1>1, <1>2, <1>7, <2>1, <2>2, <2>3, <2>7
  <2>8. CASE x # w /\ y # w /\ x # v /\ y # v
    <3>1. nx[x] = nx[y]
      BY <1>2, <1>7, <2>1, <2>2, <2>8
    <3> QED  BY <2>1, <3>1 DEF Permutes
  <2> QED  BY <2>4, <2>5, <2>6, <2>7, <2>8
<1>8. Permutes(new)
  BY <1>3, <1>5, <1>6, <1>7 DEF Permutes
<1> QED  BY <1>4, <1>8 DEF new

\* The same sets are closed.
LEMMA TurnedClosed ==
  ASSUME NEW nx, Permutes(nx), NEW v \in Members(nx), NEW w, nx[v] = w, v # w,
         NEW S \in SUBSET Windows
  PROVE  Closed(Turned(nx, v, w), S) <=> Closed(nx, S)
<1> DEFINE new == Turned(nx, v, w)
<1>1. /\ w \in Members(nx) /\ v \in Windows /\ w \in Windows
      /\ nx[w] \in Members(nx)
  BY DEF Permutes, Members
<1>2. \A x \in Windows :
        new[x] = IF x = w THEN v
                 ELSE IF x = v THEN (IF nx[w] = v THEN w ELSE nx[w])
                 ELSE IF nx[x] = v THEN w ELSE nx[x]
  BY DEF Turned
<1>3. Permutes(new) /\ Members(new) = Members(nx)
  BY TurnedPermutes
<1>4. PICK p \in Members(nx) : nx[p] = v
  BY DEF Permutes
<1>5. /\ p # v /\ \A z \in Members(nx) : nx[z] = v => z = p
      /\ \A z \in Members(nx) : nx[z] = w => z = v
  BY <1>4 DEF Permutes
<1> HIDE DEF new
<1>6. ASSUME Closed(nx, S)  PROVE Closed(new, S)
  <2>1. v \in S <=> w \in S
    BY <1>5, <1>6 DEF Closed
  <2>2. ASSUME NEW x \in S  PROVE new[x] \in S
    BY <1>2, <1>6, <2>1 DEF Closed
  <2>3. ASSUME NEW x \in S  PROVE \E u \in S : new[u] = x
    <3>1. PICK u \in S : nx[u] = x
      BY <1>6 DEF Closed
    <3>2. p \in S \/ v \notin S
      BY <1>5, <1>6 DEF Closed
    <3>3. CASE x = v
      BY <1>1, <1>2, <2>1, <2>3, <3>3
    <3>4. CASE x = w /\ p = w
      BY <1>1, <1>2, <1>4, <2>1, <2>3, <3>4
    <3>5. CASE x = w /\ p # w
      BY <1>1, <1>2, <1>4, <1>5, <2>1, <2>3, <3>2, <3>5 DEF Members
    <3>6. CASE x # v /\ x # w /\ u = w
      BY <1>1, <1>2, <2>1, <3>1, <3>6
    <3>7. CASE x # v /\ x # w /\ u # w
      BY <1>2, <3>1, <3>7
    <3> QED  BY <3>3, <3>4, <3>5, <3>6, <3>7
  <2> QED  BY <1>3, <1>6, <2>2, <2>3 DEF Closed
<1>7. ASSUME Closed(new, S)  PROVE Closed(nx, S)
  <2>1. S \subseteq Members(nx) /\ S \subseteq Windows
    BY <1>3, <1>7 DEF Closed
  <2>2. v \in S <=> w \in S
    <3>1. w \in S => v \in S
      BY <1>1, <1>2, <1>7 DEF Closed
    <3>2. ASSUME v \in S  PROVE w \in S
      <4>1. PICK u \in S : new[u] = v
        BY <1>7, <3>2 DEF Closed
      <4>2. new[w] = v
        BY <1>1, <1>2
      <4> QED  BY <1>1, <1>3, <2>1, <4>1, <4>2 DEF Permutes
    <3> QED  BY <3>1, <3>2
  <2>3. ASSUME NEW x \in S  PROVE nx[x] \in S
    <3>1. CASE x = v
      BY <2>2, <3>1
    <3>2. CASE x = w
      <4>1. new[v] \in S
        BY <1>7, <2>2, <3>2 DEF Closed
      <4> QED  BY <1>1, <1>2, <2>2, <3>2, <4>1
    <3>3. CASE x # v /\ x # w
      <4>1. new[x] \in S
        BY <1>7 DEF Closed
      <4> QED  BY <1>2, <2>2, <3>3, <4>1
    <3> QED  BY <3>1, <3>2, <3>3
  <2>4. ASSUME NEW x \in S  PROVE \E u \in S : nx[u] = x
    <3>1. CASE x = w
      BY <2>2, <3>1
    <3>2. CASE x = v /\ p = w
      BY <1>4, <2>2, <3>2
    <3>3. CASE x = v /\ p # w
      <4>1. PICK u \in S : new[u] = w
        BY <1>7, <2>2, <3>3 DEF Closed
      <4>2. new[p] = w
        BY <1>2, <1>4, <1>5, <3>3 DEF Members
      <4>3. u = p
        BY <1>3, <2>1, <4>1, <4>2 DEF Permutes
      <4> QED  BY <1>4, <3>3, <4>1, <4>3
    <3>4. CASE x # v /\ x # w
      <4>1. PICK u \in S : new[u] = x
        BY <1>7 DEF Closed
      <4>2. CASE u = v
        BY <1>1, <1>2, <2>2, <3>4, <4>1, <4>2
      <4>3. CASE u # v
        BY <1>1, <1>2, <2>1, <3>4, <4>1, <4>3
      <4> QED  BY <4>2, <4>3
    <3> QED  BY <3>1, <3>2, <3>3, <3>4
  <2> QED  BY <2>1, <2>3, <2>4 DEF Closed
<1> QED  BY <1>6, <1>7 DEF new

\* With or without the change of places, the flags of two neighbours change.
LEMMA TurnedRings ==
  ASSUME NEW nx, Permutes(nx), NEW v \in Members(nx)
  PROVE  Permutes(Turned(nx, v, nx[v])) /\ SameRings(nx, Turned(nx, v, nx[v]))
<1>1. CASE nx[v] = v
  <2>1. Turned(nx, v, nx[v]) = nx
    BY <1>1 DEF Turned, Permutes
  <2> QED  BY <2>1 DEF SameRings
<1>2. CASE nx[v] # v
  BY <1>2, TurnedPermutes, TurnedClosed DEF SameRings
<1> QED  BY <1>1, <1>2

-----------------------------------------------------------------------------
(* Rings are dissolved, and windows become groups of one.                   *)

Reset(nx, R, again) ==
  [v \in Windows |-> IF v \in again THEN v
                     ELSE IF v \in R THEN NoWindow ELSE nx[v]]

LEMMA ResetRings ==
  ASSUME NEW nx, NEW hd, Rings(nx, hd), NEW R \in SUBSET Windows, Closed(nx, R),
         NEW again \in SUBSET Windows, again \cap Members(nx) \subseteq R,
         NEW hd2 \in SUBSET Windows,
         \A v \in (Members(nx) \ R) \cup again :
           v \in hd2 <=> v \in again \/ v \in hd
  PROVE  /\ Rings(Reset(nx, R, again), hd2)
         /\ Members(Reset(nx, R, again)) = (Members(nx) \ R) \cup again
<1> DEFINE new == Reset(nx, R, again)
<1>1. \A v \in Windows :
        new[v] = IF v \in again THEN v ELSE IF v \in R THEN NoWindow ELSE nx[v]
  BY DEF Reset
<1>2. new \in [Windows -> Windows \cup {NoWindow}]
  BY DEF Reset, Rings, Permutes
<1>3. Members(nx) \subseteq Windows /\ NoWindow \notin Windows
  BY TreeAssumption DEF Members
<1> HIDE DEF new
<1>4. Members(new) = (Members(nx) \ R) \cup again
  BY <1>1, <1>3 DEF Members
<1>5. Closed(nx, Members(nx) \ R)
  BY <1>3, MembersClosed, ClosedWithout DEF Rings
<1>6. \A v \in Members(nx) \ R : v \notin again /\ new[v] = nx[v]
  BY <1>1, <1>3
<1>7. \A v \in again : new[v] = v
  BY <1>1
<1>8. Permutes(new)
  <2>1. ASSUME NEW v \in Members(new)
        PROVE  new[v] \in Members(new) /\ \E u \in Members(new) : new[u] = v
    BY <1>4, <1>5, <1>6, <1>7 DEF Closed
  <2>2. ASSUME NEW u \in Members(new), NEW v \in Members(new), new[u] = new[v]
        PROVE  u = v
    <3>1. CASE u \in again /\ v \in again
      BY <1>7, <2>2, <3>1
    <3>2. CASE u \notin again /\ v \notin again
      BY <1>4, <1>6, <2>2, <3>2 DEF Rings, Permutes
    <3>3. CASE u \in again /\ v \notin again
      BY <1>4, <1>5, <1>6, <1>7, <2>2, <3>3 DEF Closed
    <3>4. CASE u \notin again /\ v \in again
      BY <1>4, <1>5, <1>6, <1>7, <2>2, <3>4 DEF Closed
    <3> QED  BY <3>1, <3>2, <3>3, <3>4
  <2> QED  BY <1>2, <2>1, <2>2 DEF Permutes
<1>9. Headed(new, hd2)
  <2> SUFFICES ASSUME NEW S \in SUBSET Windows, Closed(new, S), S # {}
               PROVE  S \cap hd2 # {}
    BY DEF Headed
  <2>1. S \subseteq (Members(nx) \ R) \cup again
    BY <1>4 DEF Closed
  <2>2. CASE S \cap again # {}
    BY <2>2
  <2>3. CASE S \cap again = {}
    <3>1. Closed(nx, S)
      BY <1>6, <2>1, <2>3 DEF Closed
    <3> QED  BY <2>1, <3>1 DEF Rings, Headed
  <2> QED  BY <2>2, <2>3
<1>10. Separated(new, hd2)
  <2> SUFFICES ASSUME NEW g \in hd2 \cap Members(new),
                      NEW h \in hd2 \cap Members(new), g # h
               PROVE  \E S \in SUBSET Windows :
                        Closed(new, S) /\ g \in S /\ h \notin S
    BY DEF Separated
  <2>1. CASE g \in again
    <3>1. Closed(new, {g})
      BY <1>4, <1>7, <2>1 DEF Closed
    <3> QED  BY <2>1, <3>1
  <2>2. CASE g \notin again /\ h \in again
    <3>1. Closed(new, Members(nx) \ R)
      BY <1>4, <1>5, <1>6 DEF Closed
    <3> QED  BY <1>3, <1>4, <1>6, <2>2, <3>1
  <2>3. CASE g \notin again /\ h \notin again
    <3>1. g \in hd \cap Members(nx) /\ h \in hd \cap Members(nx)
      BY <1>4, <2>3
    <3>2. PICK S \in SUBSET Windows : Closed(nx, S) /\ g \in S /\ h \notin S
      BY <3>1 DEF Rings, Separated
    <3>3. Closed(nx, S \ R)
      BY <3>2, ClosedWithout DEF Rings
    <3>4. Closed(new, S \ R)
      BY <1>4, <1>6, <3>3 DEF Closed
    <3> QED  BY <1>4, <2>3, <3>2, <3>4
  <2> QED  BY <2>1, <2>2, <2>3
<1>11. Rings(new, hd2)
  BY <1>8, <1>9, <1>10 DEF Rings
<1> QED  BY <1>4, <1>11 DEF new

\* A window becomes a group of one.
LEMMA MadeRings ==
  ASSUME NEW nx, NEW hd, Rings(nx, hd), NEW w \in Windows \ Members(nx)
  PROVE  /\ Rings([nx EXCEPT ![w] = w], hd \cup {w})
         /\ Members([nx EXCEPT ![w] = w]) = Members(nx) \cup {w}
<1>1. [nx EXCEPT ![w] = w] = Reset(nx, {}, {w})
  BY DEF Reset, Rings, Permutes
<1>2. Closed(nx, {})
  BY DEF Closed
<1>3. hd \cup {w} \in SUBSET Windows
  BY DEF Rings
<1>4. /\ Rings(Reset(nx, {}, {w}), hd \cup {w})
      /\ Members(Reset(nx, {}, {w})) = (Members(nx) \ {}) \cup {w}
  BY <1>2, <1>3, ResetRings
<1> QED  BY <1>1, <1>4

\* A group of one is dissolved; the flag of the window does not matter.
LEMMA UnmadeRings ==
  ASSUME NEW nx, NEW hd, Rings(nx, hd), NEW w \in Members(nx), nx[w] = w,
         NEW hd2 \in {hd, hd \ {w}}
  PROVE  /\ Rings([nx EXCEPT ![w] = NoWindow], hd2)
         /\ Members([nx EXCEPT ![w] = NoWindow]) = Members(nx) \ {w}
<1>1. [nx EXCEPT ![w] = NoWindow] = Reset(nx, {w}, {})
  BY DEF Reset, Rings, Permutes
<1>2. Closed(nx, {w}) /\ {w} \in SUBSET Windows
  BY DEF Closed, Members
<1>3. hd2 \in SUBSET Windows
  BY DEF Rings
<1> {} \in SUBSET Windows /\ {} \cap Members(nx) \subseteq {w}
  OBVIOUS
<1> \A v \in (Members(nx) \ {w}) \cup {} : v \in hd2 <=> v \in {} \/ v \in hd
  OBVIOUS
<1>4. /\ Rings(Reset(nx, {w}, {}), hd2)
      /\ Members(Reset(nx, {w}, {})) = (Members(nx) \ {w}) \cup {}
  BY <1>2, <1>3, ResetRings
<1> QED  BY <1>1, <1>4

\* The flag of a window in no group does not matter.
LEMMA RingsWithoutFlag ==
  ASSUME NEW nx, NEW hd, Rings(nx, hd), NEW w \in Windows \ Members(nx)
  PROVE  Rings(nx, hd \ {w})
<1>1. Headed(nx, hd \ {w})
  BY DEF Rings, Headed, Closed
<1>2. Separated(nx, hd \ {w})
  BY DEF Rings, Separated
<1> QED  BY <1>1, <1>2 DEF Rings

-----------------------------------------------------------------------------
(* Agreement, when windows join and leave.                                  *)

\* A window alone in its ring, or in none, is nobody's successor.
LEMMA UnlinkedAlone ==
  ASSUME NEW nx, Permutes(nx), NEW w \in Windows, nx[w] \in {NoWindow, w}
  PROVE  \A v \in Windows :
           v # w => nx[v] # w /\ Unlinked(nx, w)[v] = nx[v]
BY TreeAssumption DEF Permutes, Members, Unlinked

LEMMA UnlinkedAgrees ==
  ASSUME NEW nx, Permutes(nx), NEW w \in Windows, NEW A \in SUBSET Windows,
         Agrees(nx, A), NEW B, B \ {w} = A \ {w}
  PROVE  Agrees(Unlinked(nx, w), B)
<1> DEFINE S == Members(nx) \cap A
<1>1. S \in SUBSET Windows /\ Closed(nx, S)
  BY DEF Agrees, Members
<1> HIDE DEF S
<1>2. Closed(Unlinked(nx, w), S \ {w})
  <2>1. CASE nx[w] \in {NoWindow, w}
    <3>1. \A v \in Windows : v # w => nx[v] # w /\ Unlinked(nx, w)[v] = nx[v]
      BY <2>1, UnlinkedAlone
    <3>2. Members(Unlinked(nx, w)) = Members(nx) \ {w}
      BY UnlinkedPermutes
    <3> QED  BY <1>1, <3>1, <3>2 DEF Closed
  <2>2. CASE nx[w] \notin {NoWindow, w}
    BY <1>1, <2>2, UnlinkedClosed DEF Members
  <2> QED  BY <2>1, <2>2
<1>3. Members(Unlinked(nx, w)) \cap B = S \ {w}
  BY UnlinkedPermutes DEF S
<1> QED  BY <1>2, <1>3 DEF Agrees

\* Windows that were together, and are left, still are.
LEMMA UnlinkedTogether ==
  ASSUME NEW nx, Permutes(nx), NEW w \in Windows, NEW u, NEW v,
         Together(nx, u, v), u # w, v # w
  PROVE  Together(Unlinked(nx, w), u, v)
<1> SUFFICES ASSUME NEW S \in SUBSET Windows, Closed(Unlinked(nx, w), S)
             PROVE  u \in S <=> v \in S
  BY DEF Together
<1> DEFINE B == IF nx[w] \in S THEN S \cup {w} ELSE S
<1>1. CASE nx[w] \in {NoWindow, w}
  <2>1. Closed(nx, S)
    BY <1>1, UnlinkedAlone, UnlinkedPermutes DEF Closed
  <2> QED  BY <2>1 DEF Together
<1>2. CASE nx[w] \notin {NoWindow, w}
  <2>1. Closed(nx, B) /\ B \in SUBSET Windows
    BY <1>2, UnlinkedClosedBack DEF Members
  <2> QED  BY <2>1 DEF Together
<1> QED  BY <1>1, <1>2

LEMMA SplicedAgrees ==
  ASSUME NEW nx, Permutes(nx), NEW w \in Windows \ Members(nx),
         NEW at \in Members(nx), NEW A \in SUBSET Windows, Agrees(nx, A),
         NEW B, B \ {w} = A \ {w}, w \in B <=> at \in A
  PROVE  Agrees(Spliced(nx, at, w), B)
<1> DEFINE S == Members(nx) \cap A
<1>1. S \in SUBSET Windows /\ Closed(nx, S) /\ (at \in S <=> at \in A)
  BY DEF Agrees, Members
<1> HIDE DEF S
<1>2. /\ Members(Spliced(nx, at, w)) = Members(nx) \cup {w}
      /\ Closed(Spliced(nx, at, w), IF at \in S THEN S \cup {w} ELSE S)
  BY <1>1, SplicedPermutes, SplicedClosed
<1>3. Members(Spliced(nx, at, w)) \cap B = IF at \in S THEN S \cup {w} ELSE S
  BY <1>1, <1>2 DEF S
<1> QED  BY <1>2, <1>3 DEF Agrees

LEMMA SplicedTogether ==
  ASSUME NEW nx, Permutes(nx), NEW w \in Windows \ Members(nx),
         NEW at \in Members(nx), NEW v \in Members(nx), Together(nx, at, v)
  PROVE  Together(Spliced(nx, at, w), w, v) /\ Together(Spliced(nx, at, w), v, w)
<1> DEFINE new == Spliced(nx, at, w)
<1> SUFFICES ASSUME NEW S \in SUBSET Windows, Closed(new, S)
             PROVE  w \in S <=> v \in S
  BY DEF Together
<1>1. Closed(nx, S \ {w}) /\ (w \in S => at \in S) /\ at # w /\ v # w
  BY SplicedClosedBack
<1>2. at \in S => w \in S
  BY DEF Closed, Spliced, Members
<1> QED  BY <1>1, <1>2 DEF Together

\* A window joins the ring of v and is shown instead of it.
LEMMA ShownInstead ==
  ASSUME NEW nx, NEW sh, Rings(nx, sh), NEW w \in Windows \ Members(nx),
         NEW v \in Members(nx), v \in sh, NEW at \in RingIn(nx, v)
  PROVE  Rings(Spliced(nx, at, w), (sh \ {v}) \cup {w})
<1> DEFINE new == Spliced(nx, at, w)
<1>1. Together(nx, at, v) /\ at \in Members(nx) /\ Permutes(nx)
  BY RingTogether DEF Rings
<1>2. Rings(new, sh \ {w}) /\ Members(new) = Members(nx) \cup {w}
  BY <1>1, SplicedRings, SplicedPermutes
<1>3. Together(new, w, v) /\ Together(new, v, w)
  BY <1>1, SplicedTogether
<1>4. w \in Windows /\ w \in Members(new) /\ v \in Members(new) /\ v # w
      /\ v \in sh \ {w}
  BY <1>2
<1> HIDE DEF new
<1>5. Rings(new, ((sh \ {w}) \ {v}) \cup {w})
  BY <1>2, <1>3, <1>4, FlagPassed
<1>6. ((sh \ {w}) \ {v}) \cup {w} = (sh \ {v}) \cup {w}
  OBVIOUS
<1> QED  BY <1>5, <1>6 DEF new

LEMMA ResetAgrees ==
  ASSUME NEW nx, Permutes(nx), NEW R \in SUBSET Windows, Closed(nx, R),
         NEW again \in SUBSET Windows, again \cap Members(nx) \subseteq R,
         NEW A \in SUBSET Windows, Agrees(nx, A), NEW B,
         \A v \in Members(nx) \ R : v \in B <=> v \in A
  PROVE  Agrees(Reset(nx, R, again), B)
<1> DEFINE new == Reset(nx, R, again)
           S == (Members(nx) \cap A) \ R
<1>1. \A v \in Windows :
        new[v] = IF v \in again THEN v ELSE IF v \in R THEN NoWindow ELSE nx[v]
  BY DEF Reset
<1>2. Members(nx) \subseteq Windows /\ NoWindow \notin Windows
  BY TreeAssumption DEF Members
<1> HIDE DEF new
<1>3. Members(new) = (Members(nx) \ R) \cup again
  BY <1>1, <1>2 DEF Members
<1>4. Closed(nx, S)
  BY ClosedWithout DEF Agrees, Members
<1>5. Members(new) \cap B = S \cup (again \cap B)
  BY <1>3
<1>6. \A v \in S : v \notin again /\ new[v] = nx[v]
  BY <1>1, <1>2
<1>7. \A v \in again : new[v] = v
  BY <1>1
<1> HIDE DEF S
<1>8. Closed(new, S \cup (again \cap B))
  BY <1>3, <1>4, <1>5, <1>6, <1>7 DEF Closed
<1> QED  BY <1>5, <1>8 DEF Agrees, new

-----------------------------------------------------------------------------
(* One ring is put into another.                                            *)

\* nx with the successors of a and b exchanged.
Crossed(nx, a, b) ==
  [v \in Windows |-> IF v = a THEN nx[b] ELSE IF v = b THEN nx[a] ELSE nx[v]]

\* A set that has the successors of its members has their predecessors.
LEMMA PredecessorInside ==
  ASSUME NEW nx, Permutes(nx), NEW S \in SUBSET Members(nx),
         \A v \in S : nx[v] \in S
  PROVE  Closed(nx, S)
<1> DEFINE f == [v \in S |-> nx[v]]
<1>1. f \in Injection(S, S)
  BY DEF Permutes, Injection, IsInjective
<1>2. IsFiniteSet(S)
  BY FS_Subset, TreeAssumption DEF Members
<1>3. f \in Surjection(S, S)
  BY <1>1, <1>2, FS_Injection
<1>4. ASSUME NEW v \in S  PROVE \E u \in S : nx[u] = v
  BY <1>3 DEF Surjection
<1> QED  BY <1>4 DEF Closed

LEMMA CrossedPermutes ==
  ASSUME NEW nx, Permutes(nx), NEW a \in Members(nx), NEW b \in Members(nx)
  PROVE  /\ Permutes(Crossed(nx, a, b))
         /\ Members(Crossed(nx, a, b)) = Members(nx)
         /\ nx = Crossed(Crossed(nx, a, b), a, b)
<1> DEFINE new == Crossed(nx, a, b)
           Other(x) == IF x = a THEN b ELSE IF x = b THEN a ELSE x
<1>1. /\ a \in Windows /\ b \in Windows
      /\ nx[a] \in Members(nx) /\ nx[b] \in Members(nx)
  BY DEF Permutes, Members
<1>2. \A v \in Windows : new[v] = nx[Other(v)] /\ Other(v) \in Windows
  BY <1>1 DEF Crossed
<1>3. new \in [Windows -> Windows \cup {NoWindow}]
  BY <1>1 DEF Permutes, Crossed
<1>4. nx = Crossed(new, a, b)
  BY <1>1 DEF Permutes, Crossed
<1> HIDE DEF new
<1>5. \A v \in Windows : v \in Members(nx) <=> Other(v) \in Members(nx)
  OBVIOUS
<1>6. Members(new) = Members(nx)
  BY <1>2, <1>5 DEF Members
<1>7. ASSUME NEW v \in Members(new)
      PROVE  new[v] \in Members(new) /\ \E u \in Members(new) : new[u] = v
  <2>1. PICK u \in Members(nx) : nx[u] = v
    BY <1>6 DEF Permutes
  <2>2. Other(u) \in Members(nx) /\ Other(Other(u)) = u /\ Other(u) \in Windows
    BY <1>5 DEF Members
  <2>3. new[Other(u)] = v
    BY <1>2, <2>1, <2>2
  <2>4. new[v] \in Members(new)
    BY <1>2, <1>5, <1>6 DEF Permutes, Members
  <2> QED  BY <1>6, <2>2, <2>3, <2>4
<1>8. ASSUME NEW u \in Members(new), NEW v \in Members(new), new[u] = new[v]
      PROVE  u = v
  <2>1. nx[Other(u)] = nx[Other(v)] /\ Other(u) \in Members(nx)
        /\ Other(v) \in Members(nx)
    BY <1>2, <1>5, <1>6, <1>8 DEF Members
  <2>2. Other(u) = Other(v)
    BY <2>1 DEF Permutes
  <2> QED  BY <2>2
<1> QED  BY <1>3, <1>4, <1>6, <1>7, <1>8 DEF Permutes, new

\* Sets with both of the windows or with none of them stay closed.
LEMMA CrossedClosed ==
  ASSUME NEW nx, Permutes(nx), NEW a \in Members(nx), NEW b \in Members(nx),
         NEW S \in SUBSET Windows, Closed(nx, S), a \in S <=> b \in S
  PROVE  Closed(Crossed(nx, a, b), S)
<1> DEFINE new == Crossed(nx, a, b)
<1>1. Members(new) = Members(nx) /\ Permutes(new)
  BY CrossedPermutes
<1>2. \A v \in Windows :
        new[v] = IF v = a THEN nx[b] ELSE IF v = b THEN nx[a] ELSE nx[v]
  BY DEF Crossed
<1> HIDE DEF new
<1>3. S \in SUBSET Members(new) /\ \A v \in S : new[v] \in S
  BY <1>1, <1>2 DEF Closed
<1>4. Closed(new, S)
  BY <1>1, <1>3, PredecessorInside
<1> QED  BY <1>4 DEF new

\* A set that is closed after a ring with b is put behind a, outside of it.
LEMMA CrossedClosedBack ==
  ASSUME NEW nx, Permutes(nx), NEW a \in Members(nx), NEW b \in Members(nx),
         NEW R \in SUBSET Windows, Closed(nx, R), b \in R, a \notin R,
         NEW S \in SUBSET Windows, Closed(Crossed(nx, a, b), S)
  PROVE  Closed(nx, S) /\ (a \in S <=> b \in S)
<1> DEFINE new == Crossed(nx, a, b)
<1>1. /\ Members(new) = Members(nx) /\ Permutes(new)
      /\ nx = Crossed(new, a, b)
  BY CrossedPermutes
<1>2. \A v \in Windows :
        new[v] = IF v = a THEN nx[b] ELSE IF v = b THEN nx[a] ELSE nx[v]
  BY DEF Crossed
<1>3. Closed(new, S)
  OBVIOUS
<1> HIDE DEF new
<1>4. ASSUME NEW Q \in SUBSET Windows, Closed(new, Q), a \in Q, b \notin Q
      PROVE  FALSE
  <2>1. \A v \in Q \cap R : nx[v] \in Q \cap R
    BY <1>2, <1>4 DEF Closed
  <2>2. Q \cap R \in SUBSET Members(nx) /\ Q \cap R \in SUBSET Windows
    BY DEF Closed
  <2>3. Closed(nx, Q \cap R)
    BY <2>1, <2>2, PredecessorInside
  <2>4. nx[b] \in Q \cap R
    BY <1>2, <1>4 DEF Closed, Members
  <2>5. PICK u \in Q \cap R : nx[u] = nx[b]
    BY <2>3, <2>4 DEF Closed
  <2> QED  BY <1>4, <2>2, <2>5 DEF Permutes
<1>5. a \in S => b \in S
  BY <1>3, <1>4
<1>6. ASSUME b \in S, a \notin S  PROVE FALSE
  <2>1. /\ Members(new) \in SUBSET Windows /\ Closed(new, Members(new))
        /\ Closed(new, Members(new) \ S)
    BY <1>1, <1>3, MembersClosed, ClosedWithout DEF Members
  <2> QED  BY <1>1, <1>4, <1>6, <2>1
<1>7. Closed(nx, S)
  BY <1>1, <1>3, <1>5, <1>6, CrossedClosed
<1> QED  BY <1>5, <1>6, <1>7

\* The ring with b joins that with a, and gives up the flag of its member x.
LEMMA CrossedRings ==
  ASSUME NEW nx, NEW hd, Rings(nx, hd), NEW a \in Members(nx),
         NEW b \in Members(nx), a \notin RingIn(nx, b),
         NEW x \in RingIn(nx, b), x \in hd
  PROVE  Rings(Crossed(nx, a, b), hd \ {x})
<1> DEFINE new == Crossed(nx, a, b)
           R == RingIn(nx, b)
<1>1. Permutes(new) /\ Members(new) = Members(nx)
  BY CrossedPermutes DEF Rings
<1>2. /\ R \in SUBSET Windows /\ Closed(nx, R) /\ b \in R /\ a \notin R /\ x \in R
      /\ \A S \in SUBSET Windows : Closed(nx, S) /\ b \in S => R \subseteq S
  BY RingClosed DEF Rings, Closed, Members
<1>3. \A g \in R : /\ g \in Members(nx) /\ Together(nx, g, b)
                   /\ g \in hd => g = x
  <2> SUFFICES ASSUME NEW g \in R
               PROVE  /\ g \in Members(nx) /\ Together(nx, g, b)
                      /\ g \in hd => g = x
    OBVIOUS
  <2>1. /\ Together(nx, g, b) /\ g \in Members(nx)
        /\ Together(nx, x, b) /\ x \in Members(nx)
    BY RingTogether DEF Rings
  <2>2. Together(nx, g, x)
    BY <2>1 DEF Together
  <2> QED  BY <2>1, <2>2, OneFlag
<1> HIDE DEF R
<1>4. \A S \in SUBSET Windows :
        Closed(new, S) => Closed(nx, S) /\ (a \in S <=> b \in S)
  BY <1>2, CrossedClosedBack DEF Rings
<1>5. \A S \in SUBSET Windows :
        Closed(nx, S) /\ (a \in S <=> b \in S) => Closed(new, S)
  BY CrossedClosed DEF Rings
<1> HIDE DEF new
<1>6. Headed(new, hd \ {x})
  <2> SUFFICES ASSUME NEW S \in SUBSET Windows, Closed(new, S), S # {}
               PROVE  S \cap (hd \ {x}) # {}
    BY DEF Headed
  <2>1. Closed(nx, S) /\ (a \in S <=> b \in S)
    BY <1>4
  <2>2. S \ R # {}
    <3>1. CASE b \in S
      BY <1>2, <2>1, <3>1
    <3>2. CASE b \notin S
      <4>1. S \cap R = {}
        BY <1>3, <2>1, <3>2 DEF Together
      <4> QED  BY <4>1
    <3> QED  BY <3>1, <3>2
  <2>3. Closed(nx, S \ R) /\ S \ R \in SUBSET Windows
    BY <1>2, <2>1, ClosedWithout DEF Rings
  <2>4. PICK h \in S \ R : h \in hd
    BY <2>2, <2>3 DEF Rings, Headed
  <2> QED  BY <1>2, <2>4
<1>7. Separated(new, hd \ {x})
  <2> SUFFICES ASSUME NEW g \in (hd \ {x}) \cap Members(new),
                      NEW h \in (hd \ {x}) \cap Members(new), g # h
               PROVE  \E S \in SUBSET Windows :
                        Closed(new, S) /\ g \in S /\ h \notin S
    BY DEF Separated
  <2>1. g \notin R /\ h \notin R
    BY <1>3
  <2>2. PICK S \in SUBSET Windows : Closed(nx, S) /\ g \in S /\ h \notin S
    BY <1>1 DEF Rings, Separated
  <2>3. CASE a \in S
    <3>1. Closed(nx, S \cup R) /\ S \cup R \in SUBSET Windows
      BY <1>2, <2>2 DEF Closed
    <3>2. Closed(new, S \cup R)
      BY <1>2, <1>5, <2>3, <3>1
    <3> QED  BY <2>1, <2>2, <3>1, <3>2
  <2>4. CASE a \notin S
    <3>1. Closed(nx, S \ R) /\ S \ R \in SUBSET Windows
      BY <1>2, <2>2, ClosedWithout DEF Rings
    <3>2. Closed(new, S \ R)
      BY <1>2, <1>5, <2>4, <3>1
    <3> QED  BY <2>1, <2>2, <3>1, <3>2
  <2> QED  BY <2>3, <2>4
<1>8. hd \ {x} \subseteq Windows
  BY DEF Rings
<1>9. Rings(new, hd \ {x})
  BY <1>1, <1>6, <1>7, <1>8 DEF Rings
<1> QED  BY <1>9 DEF new

LEMMA CrossedAgrees ==
  ASSUME NEW nx, Permutes(nx), NEW a \in Members(nx), NEW b \in Members(nx),
         NEW A \in SUBSET Windows, Agrees(nx, A), a \in A <=> b \in A
  PROVE  Agrees(Crossed(nx, a, b), A)
<1> DEFINE S == Members(nx) \cap A
<1>1. S \in SUBSET Windows /\ Closed(nx, S) /\ (a \in S <=> b \in S)
  BY DEF Agrees
<1> HIDE DEF S
<1>2. Closed(Crossed(nx, a, b), S)
  BY <1>1, CrossedClosed
<1>3. Members(Crossed(nx, a, b)) = Members(nx)
  BY CrossedPermutes
<1> QED  BY <1>2, <1>3 DEF Agrees, S

\* The ring with b joins that of v, and its member x is shown instead of v.
LEMMA CrossedShown ==
  ASSUME NEW nx, NEW sh, Rings(nx, sh), NEW v \in Members(nx), v \in sh,
         NEW a \in RingIn(nx, v), NEW b \in Members(nx), a \notin RingIn(nx, b),
         NEW x \in RingIn(nx, b), x \in sh
  PROVE  Rings(Crossed(nx, a, b), sh \ {v})
<1> DEFINE new == Crossed(nx, a, b)
<1>1. /\ Together(nx, a, v) /\ a \in Members(nx)
      /\ Together(nx, x, b) /\ x \in Members(nx)
  BY RingTogether DEF Rings
<1>2. Permutes(new) /\ Members(new) = Members(nx)
  BY <1>1, CrossedPermutes DEF Rings
<1>3. Rings(new, sh \ {x})
  BY <1>1, CrossedRings
<1>4. v # x
  <2> SUFFICES ASSUME v = x  PROVE FALSE
    OBVIOUS
  <2>1. Together(nx, a, b)
    BY <1>1 DEF Together
  <2> QED  BY <2>1, TogetherInRing DEF Rings
<1>5. Together(new, v, x)
  <2>1. /\ RingIn(nx, b) \in SUBSET Windows /\ Closed(nx, RingIn(nx, b))
        /\ b \in RingIn(nx, b)
    BY RingClosed DEF Rings, Closed, Members
  <2>2. \A S \in SUBSET Windows :
          Closed(new, S) => Closed(nx, S) /\ (a \in S <=> b \in S)
    BY <1>1, <2>1, CrossedClosedBack DEF Rings
  <2> QED  BY <1>1, <2>2 DEF Together
<1>6. v \in Members(new) /\ x \in Members(new) /\ v \in sh \ {x}
  BY <1>1, <1>2, <1>4
<1> HIDE DEF new
<1>7. Rings(new, ((sh \ {x}) \ {v}) \cup {x})
  BY <1>3, <1>5, <1>6, FlagPassed
<1>8. ((sh \ {x}) \ {v}) \cup {x} = sh \ {v}
  BY <1>4
<1> QED  BY <1>7, <1>8 DEF new

-----------------------------------------------------------------------------
(* The windows of a ring are on one workspace.                              *)

On(of, ws) == {v \in Windows : of[v] = ws}

PlacesAgree(nx, of) == \A ws \in Workspaces : Agrees(nx, On(of, ws))

LEMMA RingAgrees ==
  ASSUME NEW nx, Permutes(nx), NEW w \in Windows
  PROVE  Agrees(nx, RingIn(nx, w)) /\ RingIn(nx, w) \in SUBSET Windows
<1>1. CASE w \in Members(nx)
  <2>1. Closed(nx, RingIn(nx, w))
    BY <1>1, RingClosed
  <2>2. RingIn(nx, w) \subseteq Members(nx)
    BY <2>1 DEF Closed
  <2>3. Members(nx) \cap RingIn(nx, w) = RingIn(nx, w)
    BY <2>2
  <2> QED  BY <2>1, <2>2, <2>3 DEF Agrees, Members
<1>2. CASE w \notin Members(nx)
  <2>1. RingIn(nx, w) = {w}
    BY <1>2 DEF RingIn, Members
  <2>2. Members(nx) \cap RingIn(nx, w) = {} /\ Closed(nx, {})
    BY <1>2, <2>1 DEF Closed
  <2> QED  BY <2>1, <2>2 DEF Agrees
<1> QED  BY <1>1, <1>2

\* A ring goes to another workspace, or a window that is in no ring.
LEMMA PlacedTogether ==
  ASSUME NEW nx, Permutes(nx), NEW of, PlacesAgree(nx, of),
         NEW R \in SUBSET Windows, Agrees(nx, R), NEW ws
  PROVE  PlacesAgree(nx, [v \in Windows |-> IF v \in R THEN ws ELSE of[v]])
<1> DEFINE of2 == [v \in Windows |-> IF v \in R THEN ws ELSE of[v]]
<1> SUFFICES ASSUME NEW x \in Workspaces  PROVE Agrees(nx, On(of2, x))
  BY DEF PlacesAgree
<1>1. Agrees(nx, On(of, x)) /\ On(of, x) \in SUBSET Windows
  BY DEF PlacesAgree, On
<1>2. On(of2, x) = IF x = ws THEN On(of, x) \cup R ELSE On(of, x) \ R
  BY DEF On
<1> HIDE DEF of2
<1>3. Agrees(nx, On(of, x) \cup R) /\ Agrees(nx, On(of, x) \ R)
  BY <1>1, AgreesWithRing
<1> QED  BY <1>2, <1>3

LEMMA UnlinkedPlaces ==
  ASSUME NEW nx, Permutes(nx), NEW w \in Windows, NEW of, PlacesAgree(nx, of),
         NEW of2, \A v \in Windows \ {w} : of2[v] = of[v]
  PROVE  PlacesAgree(Unlinked(nx, w), of2)
<1> SUFFICES ASSUME NEW x \in Workspaces
             PROVE  Agrees(Unlinked(nx, w), On(of2, x))
  BY DEF PlacesAgree
<1>1. Agrees(nx, On(of, x)) /\ On(of, x) \in SUBSET Windows
  BY DEF PlacesAgree, On
<1>2. On(of2, x) \ {w} = On(of, x) \ {w}
  BY DEF On
<1> QED  BY <1>1, <1>2, UnlinkedAgrees

LEMMA SplicedPlaces ==
  ASSUME NEW nx, Permutes(nx), NEW w \in Windows \ Members(nx),
         NEW at \in Members(nx), NEW of, PlacesAgree(nx, of),
         NEW of2, \A v \in Windows \ {w} : of2[v] = of[v], of2[w] = of[at]
  PROVE  PlacesAgree(Spliced(nx, at, w), of2)
<1> SUFFICES ASSUME NEW x \in Workspaces
             PROVE  Agrees(Spliced(nx, at, w), On(of2, x))
  BY DEF PlacesAgree
<1>1. Agrees(nx, On(of, x)) /\ On(of, x) \in SUBSET Windows
  BY DEF PlacesAgree, On
<1>2. On(of2, x) \ {w} = On(of, x) \ {w} /\ (w \in On(of2, x) <=> at \in On(of, x))
  BY DEF On, Members
<1> QED  BY <1>1, <1>2, SplicedAgrees

LEMMA ResetPlaces ==
  ASSUME NEW nx, Permutes(nx), NEW R \in SUBSET Windows, Closed(nx, R),
         NEW again \in SUBSET Windows, again \cap Members(nx) \subseteq R,
         NEW of, PlacesAgree(nx, of), NEW of2,
         \A v \in Members(nx) \ R : of2[v] = of[v]
  PROVE  PlacesAgree(Reset(nx, R, again), of2)
<1> SUFFICES ASSUME NEW x \in Workspaces
             PROVE  Agrees(Reset(nx, R, again), On(of2, x))
  BY DEF PlacesAgree
<1>1. Agrees(nx, On(of, x)) /\ On(of, x) \in SUBSET Windows
  BY DEF PlacesAgree, On
<1>2. \A v \in Members(nx) \ R : v \in On(of2, x) <=> v \in On(of, x)
  BY DEF On, Members
<1> QED  BY <1>1, <1>2, ResetAgrees

\* The windows v and w are together, so they are on one workspace, or on none.
LEMMA TogetherPlaced ==
  ASSUME NEW nx, Permutes(nx), NEW of, PlacesAgree(nx, of),
         of \in [Windows -> Workspaces \cup {NoWorkspace}],
         NEW v \in Members(nx), NEW w \in Members(nx), Together(nx, v, w)
  PROVE  of[w] = of[v]
<1>1. ASSUME NEW x \in Members(nx), NEW y \in Members(nx), Together(nx, x, y),
             of[x] \in Workspaces
      PROVE  of[y] = of[x]
  <2>1. Agrees(nx, On(of, of[x]))
    BY <1>1 DEF PlacesAgree
  <2>2. x \in Members(nx) \cap On(of, of[x])
    BY <1>1 DEF On, Members
  <2>3. Members(nx) \cap On(of, of[x]) \in SUBSET Windows
    BY DEF Members
  <2>4. y \in On(of, of[x])
    BY <1>1, <2>1, <2>2, <2>3 DEF Agrees, Together
  <2> QED  BY <2>4 DEF On
<1>2. Together(nx, w, v)
  BY DEF Together
<1>3. v \in Windows /\ w \in Windows
  BY DEF Members
<1>4. of[v] \in Workspaces \/ of[w] \in Workspaces \/ of[v] = of[w]
  BY <1>3
<1> QED  BY <1>1, <1>2, <1>4

-----------------------------------------------------------------------------
(* The inductive invariant.                                                 *)

\* Where the windows are; those of a torn group count as nowhere.
Place == [w \in Windows |-> IF w \in torn THEN NoWorkspace ELSE workspace[w]]

\* Every group has one head and shows one member; its members float together
\* and are on one workspace, or all are in a torn group.
GroupInv ==
  /\ Rings(next, head)
  /\ Rings(next, Windows \ hidden) /\ hidden \subseteq Members(next)
  /\ floating \in SUBSET Windows /\ Agrees(next, floating)
  /\ torn \subseteq mapped /\ PlacesAgree(next, Place)
  /\ workspace \in [Windows -> Workspaces \cup {NoWorkspace}]
  /\ mapped = {w \in Windows : workspace[w] # NoWorkspace}
  /\ Members(next) \subseteq mapped
  /\ last \in (mapped \ hidden) \cup {NoWindow}

LEMMA PlaceTyped ==
  ASSUME GroupInv
  PROVE  Place \in [Windows -> Workspaces \cup {NoWorkspace}]
BY DEF GroupInv, Place

\* onWindowRemoved: the window is in no ring and the others are intact.
LEMMA WithoutRings ==
  ASSUME Rings(next, head), NEW w \in Windows
  PROVE  /\ Rings(Unlinked(next, w), HeadWithout(w))
         /\ Rings(Unlinked(next, w), HeadWithout(w) \ {w})
         /\ Members(Unlinked(next, w)) = Members(next) \ {w}
<1> DEFINE new == Unlinked(next, w)
<1>1. Members(new) = Members(next) \ {w}
  BY UnlinkedPermutes DEF Rings
<1>2. Rings(new, HeadWithout(w))
  <2>1. CASE w \notin Members(next)
    <3>1. next[w] = NoWindow /\ \A v \in Windows : next[v] # w
      BY <2>1, TreeAssumption DEF Rings, Permutes, Members
    <3>2. new = next
      BY <3>1 DEF Unlinked, Rings, Permutes
    <3>3. HeadWithout(w) = head
      BY <3>1 DEF HeadWithout, Alone
    <3> QED  BY <3>2, <3>3
  <2>2. CASE w \in Members(next) /\ next[w] = w
    <3>1. \A v \in Windows : v # w => next[v] # w
      BY <2>2, TreeAssumption DEF Rings, Permutes, Members
    <3>2. new = [next EXCEPT ![w] = NoWindow]
      BY <3>1 DEF Unlinked, Rings, Permutes
    <3>3. HeadWithout(w) = head
      BY <2>2 DEF HeadWithout, Alone
    <3>4. Rings([next EXCEPT ![w] = NoWindow], head)
      BY <2>2, UnmadeRings
    <3> QED  BY <3>2, <3>3, <3>4
  <2>3. CASE w \in Members(next) /\ next[w] # w
    <3>1. HeadWithout(w) = LeftHead(next, head, w)
      BY <2>3 DEF HeadWithout, Alone, LeftHead, Members
    <3> QED  BY <2>3, <3>1, UnlinkedRings
  <2> QED  BY <2>1, <2>2, <2>3
<1>3. w \in Windows \ Members(new)
  BY <1>1
<1> HIDE DEF new
<1>4. Rings(new, HeadWithout(w) \ {w})
  BY <1>2, <1>3, RingsWithoutFlag
<1> QED  BY <1>1, <1>2, <1>4 DEF new

\* The place at which a window joins a ring is in it: getGroupTail finds one.
LEMMA TailInRing ==
  ASSUME NEW nx, NEW hd, Rings(nx, hd), NEW v \in Members(nx)
  PROVE  TailIn(nx, hd, v) \in RingIn(nx, v) /\ TailIn(nx, hd, v) \in Members(nx)
<1>1. Closed(nx, RingIn(nx, v))
  BY RingClosed DEF Rings
<1>2. PICK h \in RingIn(nx, v) : h \in hd
  BY RingHead
<1>3. PICK u \in RingIn(nx, v) : nx[u] = h
  BY <1>1, <1>2 DEF Closed
<1>4. TailIn(nx, hd, v) \in RingIn(nx, v)
  BY <1>2, <1>3 DEF TailIn
<1> QED  BY <1>1, <1>4 DEF Closed

LEMMA RingOfMembers ==
  ASSUME Rings(next, head), NEW w \in Members(next)
  PROVE  Closed(next, Ring(w)) /\ Ring(w) \subseteq Members(next)
BY RingClosed DEF Ring, Rings, Closed

\* The window before w, or after it, is another member of its ring.
LEMMA HeirOf ==
  ASSUME Permutes(next), NEW w \in Windows, ~Alone(w)
  PROVE  /\ w \in Members(next)
         /\ Previous(w) \in Members(next) /\ next[Previous(w)] = w
         /\ Previous(w) # w /\ Together(next, w, Previous(w))
         /\ Heir(w) \in Members(next) /\ Heir(w) # w
         /\ Together(next, w, Heir(w))
<1>1. w \in Members(next) /\ next[w] # w
  BY DEF Alone, Members
<1>2. Previous(w) \in Members(next) /\ next[Previous(w)] = w
  BY <1>1, TreeAssumption DEF Permutes, Members, Previous
<1>3. Together(next, w, next[w]) /\ next[w] \in Members(next)
  BY <1>1, NextTogether DEF Permutes
<1>4. Together(next, w, Previous(w)) /\ Previous(w) # w
  BY <1>1, <1>2, NextTogether
<1> QED  BY <1>1, <1>2, <1>3, <1>4 DEF Heir

\* onWindowRemoved: the group that is left shows one member.
LEMMA WithoutShown ==
  ASSUME Rings(next, Windows \ hidden), hidden \subseteq Members(next),
         NEW w \in Windows
  PROVE  /\ Rings(Unlinked(next, w), Windows \ HiddenWithout(w))
         /\ HiddenWithout(w) \subseteq Members(Unlinked(next, w))
<1> DEFINE new == Unlinked(next, w)
           sh == Windows \ hidden
           sh2 == Windows \ HiddenWithout(w)
<1>1. Permutes(next) /\ Permutes(new) /\ Members(new) = Members(next) \ {w}
      /\ Rings(next, sh)
  BY UnlinkedPermutes DEF Rings
<1>2. CASE Alone(w)
  <2>1. HiddenWithout(w) = hidden
    BY <1>2 DEF HiddenWithout
  <2>2. \A v \in Windows : v # w => next[v] # w /\ new[v] = next[v]
    BY <1>1, <1>2, UnlinkedAlone DEF Alone
  <2>3. CASE w \in Members(next)
    <3>1. next[w] = w /\ Closed(next, {w})
      BY <1>2, <2>3 DEF Alone, Members, Closed
    <3>2. w \notin hidden
      BY <3>1 DEF Rings, Headed
    <3>3. new = [next EXCEPT ![w] = NoWindow]
      BY <1>1, <2>2 DEF Unlinked, Permutes
    <3>4. Rings([next EXCEPT ![w] = NoWindow], sh)
      BY <1>1, <2>3, <3>1, UnmadeRings
    <3> QED  BY <1>1, <2>1, <3>2, <3>3, <3>4
  <2>4. CASE w \notin Members(next)
    <3>1. new = next
      BY <1>1, <2>2, <2>4 DEF Unlinked, Permutes, Members
    <3> QED  BY <1>1, <2>1, <2>4, <3>1
  <2> QED  BY <2>3, <2>4
<1>3. CASE ~Alone(w)
  <2>1. /\ w \in Members(next) /\ next[w] # w
        /\ Heir(w) \in Members(next) /\ Heir(w) # w /\ Together(next, w, Heir(w))
    BY <1>1, <1>3, HeirOf DEF Alone
  <2>2. HiddenWithout(w) \subseteq Members(new)
    BY <1>1, <1>3 DEF HiddenWithout
  <2>3. sh2 \in SUBSET Windows
    OBVIOUS
  <2>4. CASE w \in hidden
    <3>1. w \notin sh /\ Rings(new, LeftHead(next, sh, w))
      BY <1>1, <2>1, <2>4, UnlinkedRings
    <3>2. Rings(new, sh)
      BY <3>1 DEF LeftHead
    <3>3. \A v \in Members(new) : v \in sh2 <=> v \in sh
      BY <1>1, <1>3, <2>4 DEF HiddenWithout, Gives, Members
    <3> HIDE DEF new, sh, sh2
    <3>4. Rings(new, sh2)
      BY <2>3, <3>2, <3>3, FlagsOfMembers
    <3> QED  BY <2>2, <3>4 DEF new, sh2
  <2>5. CASE w \notin hidden
    <3> DEFINE passed == (sh \ {w}) \cup {Heir(w)}
    <3>1. w \in sh
      BY <2>1, <2>5 DEF Members
    <3>2. \A v \in Members(new) : v \in sh2 <=> v \in passed
      BY <1>1, <1>3, <2>5 DEF HiddenWithout, Gives, Members
    <3>3. w \notin passed
      BY <2>1
    <3> HIDE DEF sh, sh2
    <3>4. Rings(next, passed)
      BY <1>1, <2>1, <3>1, FlagPassed
    <3> HIDE DEF passed
    <3>5. Rings(new, LeftHead(next, passed, w))
      BY <2>1, <3>4, UnlinkedRings
    <3>6. Rings(new, passed)
      BY <3>3, <3>5 DEF LeftHead
    <3> HIDE DEF new
    <3>7. Rings(new, sh2)
      BY <2>3, <3>2, <3>6, FlagsOfMembers
    <3> QED  BY <2>2, <3>7 DEF new, sh2
  <2> QED  BY <2>4, <2>5
<1> QED  BY <1>2, <1>3

LEMMA AgreesOfMembers ==
  ASSUME NEW nx, NEW A, Agrees(nx, A), NEW B,
         \A v \in Members(nx) : v \in B <=> v \in A
  PROVE  Agrees(nx, B)
<1>1. Members(nx) \cap B = Members(nx) \cap A
  OBVIOUS
<1> QED  BY <1>1 DEF Agrees

LEMMA PlacesOfMembers ==
  ASSUME NEW nx, NEW of, PlacesAgree(nx, of), NEW of2,
         \A v \in Members(nx) : of2[v] = of[v]
  PROVE  PlacesAgree(nx, of2)
<1> SUFFICES ASSUME NEW x \in Workspaces  PROVE Agrees(nx, On(of2, x))
  BY DEF PlacesAgree
<1>1. \A v \in Members(nx) : v \in On(of2, x) <=> v \in On(of, x)
  BY DEF On
<1>2. Agrees(nx, On(of, x))
  BY DEF PlacesAgree
<1> QED  BY <1>1, <1>2, AgreesOfMembers

LEMMA TogetherAgree ==
  ASSUME NEW nx, NEW A, Agrees(nx, A), NEW v \in Members(nx),
         NEW w \in Members(nx), Together(nx, v, w)
  PROVE  v \in A <=> w \in A
<1>1. Members(nx) \cap A \in SUBSET Windows
  BY DEF Members
<1> QED  BY <1>1 DEF Agrees, Together

\* A window becomes a group of one: it agrees with itself.
LEMMA MadeAgrees ==
  ASSUME NEW nx, Permutes(nx), NEW w \in Windows \ Members(nx)
  PROVE  /\ \A A \in SUBSET Windows : Agrees(nx, A) =>
              \A B : B \ {w} = A \ {w} => Agrees([nx EXCEPT ![w] = w], B)
         /\ \A of, of2 : /\ PlacesAgree(nx, of)
                         /\ \A v \in Windows \ {w} : of2[v] = of[v]
                         => PlacesAgree([nx EXCEPT ![w] = w], of2)
<1>1. [nx EXCEPT ![w] = w] = Reset(nx, {}, {w})
  BY DEF Reset, Permutes
<1>2. /\ Closed(nx, {}) /\ {w} \in SUBSET Windows /\ {} \in SUBSET Windows
      /\ {w} \cap Members(nx) \subseteq {} /\ Members(nx) \ {} \subseteq Windows \ {w}
  BY DEF Closed, Members
<1>3. ASSUME NEW A \in SUBSET Windows, Agrees(nx, A), NEW B, B \ {w} = A \ {w}
      PROVE  Agrees(Reset(nx, {}, {w}), B)
  <2>1. \A v \in Members(nx) \ {} : v \in B <=> v \in A
    BY <1>2, <1>3
  <2> QED  BY <1>2, <1>3, <2>1, ResetAgrees
<1>4. ASSUME NEW of, NEW of2, PlacesAgree(nx, of),
             \A v \in Windows \ {w} : of2[v] = of[v]
      PROVE  PlacesAgree(Reset(nx, {}, {w}), of2)
  <2>1. \A v \in Members(nx) \ {} : of2[v] = of[v]
    BY <1>2, <1>4
  <2> QED  BY <1>2, <1>4, <2>1, ResetPlaces
<1> QED  BY <1>1, <1>3, <1>4

-----------------------------------------------------------------------------
(* Windows come and go.                                                     *)

LEMMA MapStep ==
  ASSUME GroupInv, NEW w \in Windows, Map(w)  PROVE GroupInv'
<1>1. PICK ws \in Workspaces, floats \in BOOLEAN :
        /\ workspace' = [workspace EXCEPT ![w] = ws]
        /\ MapAlone(w, ws, floats) \/ MapIntoGroup(w, ws, floats)
  BY DEF Map
<1>2. /\ w \notin mapped /\ w \in Windows \ Members(next)
      /\ mapped' = mapped \cup {w} /\ w \notin hidden
      /\ Permutes(next) /\ Members(next) \subseteq Windows
  BY DEF Map, GroupInv, Rings, Members
<1>3. /\ workspace' \in [Windows -> Workspaces \cup {NoWorkspace}]
      /\ mapped' = {v \in Windows : workspace'[v] # NoWorkspace}
      /\ \A v \in Windows \ {w} : workspace'[v] = workspace[v]
      /\ workspace'[w] = ws
  BY <1>1, <1>2, GroupAssumption DEF GroupInv
<1>4. CASE MapAlone(w, ws, floats)
  <2>1. /\ last' \in {last, w} /\ hidden' = hidden /\ torn' = torn
        /\ floating' \in {floating \cup {w}, floating \ {w}}
    BY <1>4 DEF MapAlone
  <2>2. /\ last' \in (mapped' \ hidden') \cup {NoWindow}
        /\ floating' \in SUBSET Windows /\ floating' \ {w} = floating \ {w}
    BY <1>2, <2>1 DEF GroupInv
  <2>7. torn' \subseteq mapped' /\ \A v \in Windows \ {w} : Place'[v] = Place[v]
    BY <1>2, <1>3, <2>1 DEF GroupInv, Place
  <2>3. CASE MadeGroup(w)
    <3> DEFINE new == [next EXCEPT ![w] = w]
    <3>1. next' = new /\ head' = head \cup {w}
      BY <1>4, <2>3 DEF MapAlone
    <3>2. /\ Rings(new, head \cup {w})
          /\ Rings(new, (Windows \ hidden) \cup {w})
          /\ Members(new) = Members(next) \cup {w}
      BY <1>2, MadeRings DEF GroupInv
    <3>3. (Windows \ hidden) \cup {w} = Windows \ hidden
      BY <1>2
    <3>4. Agrees(new, floating')
      BY <1>2, <2>2, MadeAgrees DEF GroupInv
    <3>5. PlacesAgree(new, Place')
      BY <1>2, <2>7, MadeAgrees DEF GroupInv
    <3> HIDE DEF new
    <3>6. hidden' \subseteq Members(new) /\ Members(new) \subseteq mapped'
      BY <1>2, <2>1, <3>2 DEF GroupInv
    <3> QED  BY <1>2, <1>3, <2>1, <2>2, <2>7, <3>1, <3>2, <3>3, <3>4, <3>5, <3>6
             DEF GroupInv
  <2>4. CASE ~MadeGroup(w)
    <3>1. next' = next /\ head' = head
      BY <1>4, <2>4 DEF MapAlone, groups
    <3>2. Agrees(next, floating')
      <4>1. \A v \in Members(next) : v \in floating' <=> v \in floating
        BY <1>2, <2>2
      <4> QED  BY <4>1, AgreesOfMembers DEF GroupInv
    <3>3. PlacesAgree(next, Place')
      BY <1>2, <2>7, PlacesOfMembers DEF GroupInv
    <3> QED  BY <1>2, <1>3, <2>1, <2>2, <2>7, <3>1, <3>2, <3>3 DEF GroupInv
  <2> QED  BY <2>3, <2>4
<1>5. CASE MapIntoGroup(w, ws, floats)
  <2>1. PICK v \in OpeningOn(ws), at \in Windows :
          /\ Joins(w, v, floats) /\ at \in {v, TailOf(v)}
          /\ floating' = IF v \in floating THEN floating \cup {w}
                                           ELSE floating \ {w}
          /\ next' = Spliced(next, at, w) /\ head' = head \ {w}
          /\ hidden' = hidden \cup {v}
          /\ torn' = IF v \in torn THEN torn \cup {w} ELSE torn
          /\ last' \in IF last = v THEN {w} ELSE {last, w}
    BY <1>5 DEF MapIntoGroup
  <2>2. /\ v \in Members(next) /\ v # w
        /\ v \in mapped \ hidden /\ workspace[v] = ws
    BY <2>1, TreeAssumption DEF Joins, Grouped, Members, OpeningOn, GroupInv
  <2>3. at \in RingIn(next, v)
    BY <1>2, <2>1, <2>2, TailInRing, RingClosed DEF TailOf, GroupInv
  <2>4. at \in Members(next) /\ Together(next, at, v)
    BY <1>2, <2>2, <2>3, RingTogether
  <2>5. /\ Rings(next', head') /\ Members(next') = Members(next) \cup {w}
    BY <1>2, <2>1, <2>4, SplicedRings, SplicedPermutes DEF GroupInv
  <2>6. Rings(next', Windows \ hidden') /\ hidden' \subseteq Members(next')
    <3>1. Rings(next', ((Windows \ hidden) \ {v}) \cup {w})
      BY <1>2, <2>1, <2>2, <2>3, ShownInstead DEF GroupInv
    <3>2. ((Windows \ hidden) \ {v}) \cup {w} = Windows \ hidden'
      BY <1>2, <2>1, <2>2
    <3> QED  BY <2>1, <2>2, <2>5, <3>1, <3>2 DEF GroupInv
  <2>7. floating' \in SUBSET Windows /\ Agrees(next', floating')
    <3>1. /\ floating' \ {w} = floating \ {w} /\ floating' \in SUBSET Windows
          /\ w \in floating' <=> at \in floating
      BY <2>1, <2>2, <2>4, TogetherAgree DEF GroupInv
    <3> QED  BY <1>2, <2>1, <2>4, <3>1, SplicedAgrees DEF GroupInv
  <2>8. torn' \subseteq mapped' /\ PlacesAgree(next', Place')
    <3>1. Place[at] = Place[v]
      <4>1. Together(next, v, at) /\ PlacesAgree(next, Place)
        BY <2>4 DEF Together, GroupInv
      <4> QED  BY <1>2, <2>2, <2>4, <4>1, PlaceTyped, TogetherPlaced
    <3>2. /\ torn' \subseteq mapped' /\ \A x \in Windows \ {w} : Place'[x] = Place[x]
      BY <1>2, <1>3, <2>1 DEF GroupInv, Place
    <3>3. Place'[w] = Place[v]
      BY <1>2, <1>3, <2>1, <2>2 DEF GroupInv, Place
    <3> QED  BY <1>2, <2>1, <2>4, <3>1, <3>2, <3>3, SplicedPlaces DEF GroupInv
  <2>9. Members(next') \subseteq mapped' /\ last' \in (mapped' \ hidden') \cup {NoWindow}
    BY <1>2, <2>1, <2>2, <2>5 DEF GroupInv
  <2> QED  BY <1>2, <1>3, <2>5, <2>6, <2>7, <2>8, <2>9 DEF GroupInv
<1> QED  BY <1>1, <1>4, <1>5

LEMMA UnmapStep ==
  ASSUME GroupInv, NEW w \in Windows, Unmap(w)  PROVE GroupInv'
<1>1. /\ next' = Unlinked(next, w) /\ head' = HeadWithout(w) \ {w}
      /\ hidden' = HiddenWithout(w) /\ floating' = floating \ {w}
      /\ mapped' = mapped \ {w} /\ workspace' = Unplaced(w) /\ torn' = torn \ {w}
      /\ last' \in IF last = w THEN {NoWindow} \cup (mapped' \ hidden') ELSE {last}
  BY DEF Unmap
<1>2. Permutes(next)
  BY DEF GroupInv, Rings
<1>3. Rings(next', head') /\ Members(next') = Members(next) \ {w}
  BY <1>1, WithoutRings DEF GroupInv
<1>4. Rings(next', Windows \ hidden') /\ hidden' \subseteq Members(next')
  BY <1>1, WithoutShown DEF GroupInv
<1>5. floating' \in SUBSET Windows /\ Agrees(next', floating')
  BY <1>1, <1>2, UnlinkedAgrees DEF GroupInv
<1>6. /\ workspace' \in [Windows -> Workspaces \cup {NoWorkspace}]
      /\ mapped' = {v \in Windows : workspace'[v] # NoWorkspace}
      /\ torn' \subseteq mapped' /\ \A v \in Windows \ {w} : Place'[v] = Place[v]
  BY <1>1 DEF Unplaced, GroupInv, Place
<1>7. PlacesAgree(next', Place')
  BY <1>1, <1>2, <1>6, UnlinkedPlaces DEF GroupInv
<1>8. hidden' \subseteq hidden
  BY <1>1 DEF HiddenWithout
<1>9. Members(next') \subseteq mapped' /\ last' \in (mapped' \ hidden') \cup {NoWindow}
  BY <1>1, <1>3, <1>8 DEF GroupInv
<1> QED  BY <1>1, <1>3, <1>4, <1>5, <1>6, <1>7, <1>9 DEF GroupInv

\* A window is taken out of its ring, wherever it goes then.
LEMMA LeftGroup ==
  ASSUME GroupInv, NEW w \in Windows
  PROVE  /\ Members(Unlinked(next, w)) = Members(next) \ {w}
         /\ Rings(Unlinked(next, w), HeadWithout(w))
         /\ Rings(Unlinked(next, w), HeadWithout(w) \ {w})
         /\ Rings(Unlinked(next, w), Windows \ HiddenWithout(w))
         /\ HiddenWithout(w) \subseteq Members(next) \ {w}
         /\ HiddenWithout(w) \subseteq hidden
         /\ Agrees(Unlinked(next, w), floating)
         /\ \A of : (\A v \in Windows \ {w} : of[v] = Place[v])
                       => PlacesAgree(Unlinked(next, w), of)
<1>1. Permutes(next)
  BY DEF GroupInv, Rings
<1>2. /\ Members(Unlinked(next, w)) = Members(next) \ {w}
      /\ Rings(Unlinked(next, w), HeadWithout(w))
      /\ Rings(Unlinked(next, w), HeadWithout(w) \ {w})
  BY WithoutRings DEF GroupInv
<1>3. /\ Rings(Unlinked(next, w), Windows \ HiddenWithout(w))
      /\ HiddenWithout(w) \subseteq Members(next) \ {w}
  BY <1>2, WithoutShown DEF GroupInv
<1>4. HiddenWithout(w) \subseteq hidden
  BY DEF HiddenWithout
<1>5. Agrees(Unlinked(next, w), floating)
  BY <1>1, UnlinkedAgrees DEF GroupInv
<1>6. ASSUME NEW of, \A v \in Windows \ {w} : of[v] = Place[v]
      PROVE  PlacesAgree(Unlinked(next, w), of)
  BY <1>1, <1>6, UnlinkedPlaces DEF GroupInv
<1> QED  BY <1>2, <1>3, <1>4, <1>5, <1>6

-----------------------------------------------------------------------------
(* Groups are made and dissolved.                                           *)

LEMMA DissolveStep ==
  ASSUME GroupInv, NEW w \in Members(next),
         IF next[w] = w THEN DissolveAlone(w) ELSE DissolveRing(w),
         UNCHANGED <<mapped, floating, workspace>>, last' \in {last, w}
  PROVE  GroupInv'
<1>1. w \in Windows /\ w \in mapped /\ Permutes(next)
  BY DEF Members, GroupInv, Rings
<1>2. CASE next[w] = w
  <2>1. w \notin hidden
    <3>1. Closed(next, {w})
      BY <1>2 DEF Closed
    <3> QED  BY <1>1, <3>1 DEF GroupInv, Rings, Headed
  <2>2. last' \in (mapped' \ hidden) \cup {NoWindow} /\ hidden' = hidden
    BY <1>1, <1>2, <2>1 DEF GroupInv, DissolveAlone
  <2>5. torn' = torn /\ Place' = Place
    BY <1>2 DEF DissolveAlone, Place
  <2>3. CASE w \in SetAlways
    <3>1. UNCHANGED <<next, head, hidden>>
      BY <1>2, <2>3 DEF DissolveAlone
    <3> QED  BY <2>2, <2>5, <3>1 DEF GroupInv
  <2>4. CASE w \notin SetAlways
    <3>1. /\ next' = [next EXCEPT ![w] = NoWindow] /\ head' = head \ {w}
          /\ hidden' = hidden
      BY <1>2, <2>4 DEF DissolveAlone
    <3>2. \A v \in Windows : v # w => next[v] # w
      BY <1>1, <1>2, UnlinkedAlone
    <3>3. next' = Unlinked(next, w)
      BY <1>1, <3>1, <3>2 DEF Unlinked, Permutes
    <3>4. HeadWithout(w) = head /\ HiddenWithout(w) = hidden
      BY <1>2 DEF HeadWithout, HiddenWithout, Alone
    <3>5. /\ Members(next') = Members(next) \ {w}
          /\ Rings(next', head') /\ Rings(next', Windows \ hidden)
          /\ hidden \subseteq Members(next) \ {w} /\ Agrees(next', floating)
          /\ PlacesAgree(next', Place)
      BY <1>1, <3>1, <3>3, <3>4, LeftGroup
    <3>6. Members(next') \subseteq mapped
      BY <3>5 DEF GroupInv
    <3> QED  BY <2>2, <2>5, <3>5, <3>6 DEF GroupInv
  <2> QED  BY <2>3, <2>4
<1>3. CASE next[w] # w
  <2> DEFINE R == Ring(w)
             again == {v \in R : MadeGroup(v)}
             hd2 == (head \ R) \cup again
             sh2 == Windows \ (hidden \ R)
  <2>1. /\ next' = Reset(next, R, again) /\ head' = hd2
        /\ hidden' = hidden \ R /\ torn' = torn \ R
    BY <1>3 DEF DissolveRing, Reset
  <2>2. /\ Closed(next, R) /\ R \subseteq Members(next) /\ w \in R
        /\ Members(next) \subseteq Windows /\ head \subseteq Windows
    BY <1>1, RingOfMembers, RingClosed DEF GroupInv, Members, Rings, Ring
  <2>3. again \subseteq R
    OBVIOUS
  <2> HIDE DEF R
  <2>4. /\ R \in SUBSET Windows /\ again \in SUBSET Windows
        /\ hd2 \in SUBSET Windows /\ sh2 \in SUBSET Windows
        /\ again \cap Members(next) \subseteq R
    BY <2>2, <2>3
  <2>5. /\ \A v \in (Members(next) \ R) \cup again :
             v \in hd2 <=> v \in again \/ v \in head
        /\ \A v \in (Members(next) \ R) \cup again :
             v \in sh2 <=> v \in again \/ v \in Windows \ hidden
    BY <2>2, <2>3
  <2> HIDE DEF again, hd2, sh2
  <2>6. /\ Rings(next', head') /\ Rings(next', sh2)
        /\ Members(next') = (Members(next) \ R) \cup again
    BY <2>1, <2>2, <2>4, <2>5, ResetRings DEF GroupInv
  <2>7. Agrees(next', floating)
    BY <1>1, <2>1, <2>2, <2>4, ResetAgrees DEF GroupInv
  <2>11. torn' \subseteq mapped' /\ \A v \in Members(next) \ R : Place'[v] = Place[v]
    BY <2>1 DEF GroupInv, Place, Members
  <2>8. PlacesAgree(next', Place')
    BY <1>1, <2>1, <2>2, <2>4, <2>11, ResetPlaces DEF GroupInv
  <2>9. /\ hidden' \subseteq Members(next') /\ Members(next') \subseteq mapped
        /\ last' \in (mapped \ hidden') \cup {NoWindow}
    BY <1>1, <2>1, <2>2, <2>3, <2>6 DEF GroupInv
  <2>10. Rings(next', Windows \ hidden')
    BY <2>1, <2>6 DEF sh2
  <2> QED  BY <2>6, <2>7, <2>8, <2>9, <2>10, <2>11 DEF GroupInv
<1> QED  BY <1>2, <1>3

LEMMA ToggleStep ==
  ASSUME GroupInv, ToggleGroup  PROVE GroupInv'
<1>1. CASE CreateGroup
  <2> DEFINE new == [next EXCEPT ![last] = last]
  <2>1. /\ last \in Windows \ Members(next) /\ last \in mapped
        /\ next' = new /\ head' = head \cup {last}
        /\ UNCHANGED <<mapped, floating, hidden, workspace, last, torn>>
        /\ last \notin hidden /\ Permutes(next)
    BY <1>1, TreeAssumption DEF CreateGroup, Grouped, Members, GroupInv, Rings
  <2>2. /\ Rings(new, head \cup {last})
        /\ Rings(new, (Windows \ hidden) \cup {last})
        /\ Members(new) = Members(next) \cup {last}
    BY <2>1, MadeRings DEF GroupInv
  <2>3. (Windows \ hidden) \cup {last} = Windows \ hidden
    BY <2>1
  <2>4. Agrees(new, floating)
    BY <2>1, MadeAgrees DEF GroupInv
  <2>5. PlacesAgree(new, Place) /\ Place' = Place
    BY <2>1, MadeAgrees DEF GroupInv, Place
  <2> HIDE DEF new
  <2>6. hidden \subseteq Members(new) /\ Members(new) \subseteq mapped
    BY <2>1, <2>2 DEF GroupInv
  <2> QED  BY <2>1, <2>2, <2>3, <2>4, <2>5, <2>6 DEF GroupInv
<1>2. CASE DestroyGroup
  <2>1. /\ last \in Members(next)
        /\ UNCHANGED <<mapped, floating, workspace>> /\ last' \in {last}
        /\ IF next[last] = last THEN DissolveAlone(last) ELSE DissolveRing(last)
    BY <1>2 DEF DestroyGroup, Grouped, Members
  <2> QED  BY <2>1, DissolveStep
<1> QED  BY <1>1, <1>2 DEF ToggleGroup

-----------------------------------------------------------------------------
(* Another member is shown, or moved along the group.                       *)

\* The member that is shown: getGroupCurrent finds one.
LEMMA CurrentInRing ==
  ASSUME GroupInv, NEW w \in Members(next)
  PROVE  /\ Current(w) \in Ring(w) /\ Current(w) \in Members(next)
         /\ Current(w) \notin hidden /\ Together(next, Current(w), w)
<1>1. Permutes(next) /\ Rings(next, Windows \ hidden)
  BY DEF GroupInv, Rings
<1>2. PICK c \in Ring(w) : c \in Windows \ hidden
  BY <1>1, RingHead DEF Ring
<1>3. Current(w) \in Ring(w) /\ Current(w) \notin hidden
  BY <1>2 DEF Current
<1> QED  BY <1>1, <1>3, RingTogether DEF Ring

LEMMA ShowStep ==
  ASSUME GroupInv, NEW w \in mapped, Show(w), last' = w,
         UNCHANGED <<mapped, floating, workspace, groups, torn>>
  PROVE  GroupInv'
<1>1. next' = next /\ head' = head /\ Place' = Place
  BY DEF groups, Place
<1>2. CASE w \notin hidden
  <2>1. hidden' = hidden
    BY <1>2 DEF Show
  <2> QED  BY <1>1, <1>2, <2>1 DEF GroupInv
<1>3. CASE w \in hidden
  <2> DEFINE c == Current(w)
  <2>1. /\ w \in Members(next) /\ w \in Windows
        /\ hidden' = Exchanged(hidden, w, c)
    BY <1>3 DEF Show, GroupInv, Members
  <2>2. c \in Members(next) /\ c \notin hidden /\ Together(next, c, w)
    BY <2>1, CurrentInRing
  <2> HIDE DEF c
  <2>3. /\ hidden' = (hidden \ {w}) \cup {c} /\ c \in Windows \ hidden /\ c # w
        /\ hidden' \subseteq Members(next)
    BY <1>3, <2>1, <2>2 DEF Exchanged, GroupInv, Members
  <2>4. Rings(next, ((Windows \ hidden) \ {c}) \cup {w})
    BY <2>1, <2>2, <2>3, FlagPassed DEF GroupInv
  <2>5. ((Windows \ hidden) \ {c}) \cup {w} = Windows \ hidden'
    BY <2>1, <2>3
  <2> QED  BY <1>1, <2>3, <2>4, <2>5 DEF GroupInv
<1> QED  BY <1>2, <1>3

LEMMA FocusStep ==
  ASSUME GroupInv, ChangeGroupActive \/ \E w \in Windows : FocusWindow(w)
  PROVE  GroupInv'
<1>1. PICK w \in mapped : Show(w) /\ last' = w
  <2>1. ASSUME ChangeGroupActive  PROVE \E w \in mapped : Show(w) /\ last' = w
    BY <2>1, RingOfMembers DEF ChangeGroupActive, Grouped, Members, GroupInv
  <2>2. ASSUME NEW w \in Windows, FocusWindow(w)
        PROVE  \E v \in mapped : Show(v) /\ last' = v
    BY <2>2 DEF FocusWindow
  <2> QED  BY <2>1, <2>2
<1>2. UNCHANGED <<mapped, floating, workspace, groups, torn>>
  BY DEF ChangeGroupActive, FocusWindow
<1> QED  BY <1>1, <1>2, ShowStep

\* Members of the rings change places, and the head with them.
LEMMA TurnStep ==
  ASSUME GroupInv, NEW u \in Members(next), NEW v \in Members(next),
         Together(next, u, v), next' = next \/ next' = Turned(next, u, next[u])
                                  \/ next' = Turned(next, v, next[v]),
         head' = Exchanged(head, u, v) \/ head' = Exchanged(head, v, u),
         UNCHANGED <<mapped, floating, hidden, workspace, torn, last>>
  PROVE  GroupInv'
<1>1. Permutes(next)
  BY DEF GroupInv, Rings
<1>2. Permutes(next') /\ SameRings(next, next')
  <2>1. CASE next' = next
    BY <1>1, <2>1 DEF SameRings
  <2>2. CASE next' = Turned(next, u, next[u])
    BY <1>1, <2>2, TurnedRings
  <2>3. CASE next' = Turned(next, v, next[v])
    BY <1>1, <2>3, TurnedRings
  <2> QED  BY <2>1, <2>2, <2>3
<1>3. Rings(next, head')
  BY TogetherExchanged DEF GroupInv
<1>4. Rings(next', head') /\ Rings(next', Windows \ hidden)
  BY <1>2, <1>3, SameRingsSameHeads DEF GroupInv
<1>5. \A A \in SUBSET Windows : Agrees(next, A) => Agrees(next', A)
  <2>1. \A A : Members(next) \cap A \in SUBSET Windows
    BY DEF Members
  <2> QED  BY <1>2, <2>1 DEF SameRings, Agrees
<1>6. PlacesAgree(next', Place) /\ Place' = Place
  <2>1. \A ws : On(Place, ws) \in SUBSET Windows
    BY DEF On
  <2>2. PlacesAgree(next, Place)
    BY DEF GroupInv
  <2>3. PlacesAgree(next', Place)
    BY <1>5, <2>1, <2>2 DEF PlacesAgree
  <2> QED  BY <2>3 DEF Place
<1>7. Members(next') = Members(next)
  BY <1>2 DEF SameRings
<1> QED  BY <1>4, <1>5, <1>6, <1>7 DEF GroupInv

LEMMA MoveGroupWindowStep ==
  ASSUME GroupInv, MoveGroupWindow  PROVE GroupInv'
<1>1. /\ last \in Members(next) /\ Permutes(next)
      /\ UNCHANGED <<mapped, floating, hidden, workspace, torn, last>>
  BY DEF MoveGroupWindow, Grouped, Members, GroupInv, Rings
<1>2. PICK back \in BOOLEAN :
        LET wraps == IF back THEN last \in head ELSE next[last] \in head
            other == IF back /\ ~wraps THEN Previous(last) ELSE next[last]
        IN /\ next' = IF wraps THEN next
                      ELSE IF back /\ next[last] # other
                           THEN Turned(next, other, last)
                           ELSE Turned(next, last, other)
           /\ head' = Exchanged(head, last, other)
  BY DEF MoveGroupWindow
<1> DEFINE wraps == IF back THEN last \in head ELSE next[last] \in head
           other == IF back /\ ~wraps THEN Previous(last) ELSE next[last]
<1>3. /\ Previous(last) \in Members(next) /\ next[Previous(last)] = last
      /\ next[last] \in Members(next)
  BY <1>1, TreeAssumption DEF Permutes, Members, Previous
<1>4. /\ Together(next, last, next[last]) /\ Together(next, Previous(last), last)
      /\ Together(next, last, Previous(last))
  BY <1>1, <1>3, NextTogether
<1>5. CASE wraps
  <2>1. next' = next /\ head' = Exchanged(head, last, next[last])
    BY <1>2, <1>5
  <2> QED  BY <1>1, <1>3, <1>4, <2>1, TurnStep
<1>6. CASE ~wraps /\ back /\ next[last] # other
  <2>1. /\ next' = Turned(next, Previous(last), next[Previous(last)])
        /\ head' = Exchanged(head, last, Previous(last))
    BY <1>2, <1>3, <1>6
  <2> QED  BY <1>1, <1>3, <1>4, <2>1, TurnStep
<1>7. CASE ~wraps /\ ~(back /\ next[last] # other)
  <2>1. /\ next' = Turned(next, last, next[last])
        /\ head' = Exchanged(head, last, next[last])
    BY <1>2, <1>7
  <2> QED  BY <1>1, <1>3, <1>4, <2>1, TurnStep
<1> QED  BY <1>5, <1>6, <1>7

-----------------------------------------------------------------------------
(* Into groups and out of them.                                             *)

LEMMA IntoGroupStep ==
  ASSUME GroupInv, last \in Windows, NEW v \in InDirection \cap Grouped,
         IntoGroup(v)
  PROVE  GroupInv'
<1> DEFINE left == Unlinked(next, last)
           hd == HeadWithout(last)
           hid == HiddenWithout(last)
<1>1. PICK at \in {v, TailIn(left, hd, v)} :
        /\ next' = Spliced(left, at, last) /\ head' = hd \ {last}
        /\ hidden' = (hid \cup {v}) \ {last}
        /\ workspace' = [workspace EXCEPT ![last] = workspace[v]]
        /\ torn' = IF v \in torn THEN torn \cup {last} ELSE torn \ {last}
        /\ UNCHANGED <<mapped, floating, last>>
  BY DEF IntoGroup
<1>2. /\ Members(left) = Members(next) \ {last}
      /\ Rings(left, hd) /\ Rings(left, Windows \ hid)
      /\ hid \subseteq Members(next) \ {last} /\ hid \subseteq hidden
      /\ Agrees(left, floating) /\ PlacesAgree(left, Place)
  BY LeftGroup
<1>3. Permutes(left)
  BY <1>2 DEF Rings
<1> HIDE DEF left, hd, hid
<1>4. /\ v \in Members(left) /\ v # last /\ v \in mapped \ hidden
      /\ last \in Windows \ Members(left) /\ last \in mapped
      /\ v \in floating <=> last \in floating
      /\ v \notin hid /\ last \notin hid /\ v \in Windows
  BY <1>2, TreeAssumption DEF InDirection, Grouped, Members, GroupInv
<1>5. at \in RingIn(left, v) /\ at \in Members(left) /\ Together(left, at, v)
  <2>1. at \in RingIn(left, v)
    BY <1>1, <1>2, <1>3, <1>4, TailInRing, RingClosed
  <2> QED  BY <1>3, <1>4, <2>1, RingTogether
<1>6. Rings(next', head') /\ Members(next') = Members(left) \cup {last}
  BY <1>1, <1>2, <1>3, <1>4, <1>5, SplicedRings, SplicedPermutes
<1>7. Rings(next', Windows \ hidden') /\ hidden' \subseteq Members(next')
  <2>1. Rings(next', ((Windows \ hid) \ {v}) \cup {last})
    <3>1. v \in Windows \ hid
      BY <1>4
    <3> QED  BY <1>1, <1>2, <1>4, <1>5, <3>1, ShownInstead
  <2>2. ((Windows \ hid) \ {v}) \cup {last} = Windows \ hidden'
    BY <1>1, <1>4
  <2> QED  BY <1>1, <1>2, <1>4, <1>6, <2>1, <2>2
<1>8. Agrees(next', floating)
  <2>1. last \in floating <=> at \in floating
    BY <1>2, <1>4, <1>5, TogetherAgree
  <2> QED  BY <1>1, <1>2, <1>3, <1>4, <1>5, <2>1, SplicedAgrees DEF GroupInv
<1>9. workspace[v] \in Workspaces /\ workspace[last] # NoWorkspace
  BY <1>4 DEF GroupInv
<1>10. /\ workspace' \in [Windows -> Workspaces \cup {NoWorkspace}]
       /\ mapped' = {x \in Windows : workspace'[x] # NoWorkspace}
       /\ \A x \in Windows \ {last} : workspace'[x] = workspace[x]
       /\ workspace'[last] = workspace[v]
  BY <1>1, <1>4, <1>9, GroupAssumption DEF GroupInv
<1>11. torn' \subseteq mapped' /\ PlacesAgree(next', Place')
  <2>1. Place[at] = Place[v]
    <3>1. Together(left, v, at)
      BY <1>5 DEF Together
    <3> QED  BY <1>2, <1>3, <1>4, <1>5, <3>1, PlaceTyped, TogetherPlaced
  <2>2. /\ torn' \subseteq mapped' /\ \A x \in Windows \ {last} : Place'[x] = Place[x]
        /\ Place'[last] = Place[v]
    BY <1>1, <1>4, <1>10 DEF GroupInv, Place
  <2>3. PlacesAgree(Spliced(left, at, last), Place')
    BY <1>2, <1>3, <1>4, <1>5, <2>1, <2>2, SplicedPlaces
  <2> QED  BY <1>1, <2>2, <2>3
<1>12. /\ Members(next') \subseteq mapped'
       /\ last' \in (mapped' \ hidden') \cup {NoWindow}
  BY <1>1, <1>2, <1>4, <1>6 DEF GroupInv
<1> QED  BY <1>1, <1>6, <1>7, <1>8, <1>10, <1>11, <1>12 DEF GroupInv

LEMMA OutOfGroupStep ==
  ASSUME GroupInv, NEW w \in Members(next), OutOfGroup(w)
  PROVE  GroupInv'
<1>1. CASE next[w] = w
  <2>1. /\ DissolveAlone(w) /\ last' \in {last, w}
        /\ UNCHANGED <<mapped, floating, workspace>>
    BY <1>1 DEF OutOfGroup
  <2> QED  BY <1>1, <2>1, DissolveStep
<1>2. CASE next[w] # w
  <2> DEFINE left == Unlinked(next, w)
             hd == HeadWithout(w)
             hid == HiddenWithout(w)
             shown == IF Gives(w) THEN Heir(w) ELSE Current(w)
  <2>1. PICK focused \in {w, Previous(w)} :
          LET stays == focused # w /\ focused # shown
          IN /\ next' = IF MadeGroup(w) THEN [left EXCEPT ![w] = w] ELSE left
             /\ head' = IF MadeGroup(w) THEN hd \cup {w} ELSE hd
             /\ hidden' = IF stays THEN (hid \cup {shown}) \ {focused} ELSE hid
             /\ last' = focused
             /\ torn' = torn \ {w} /\ UNCHANGED <<mapped, floating, workspace>>
    BY <1>2 DEF OutOfGroup
  <2>9. torn' \subseteq mapped' /\ \A v \in Windows \ {w} : Place'[v] = Place[v]
    BY <2>1 DEF GroupInv, Place
  <2>2. /\ Members(left) = Members(next) \ {w}
        /\ Rings(left, hd) /\ Rings(left, Windows \ hid)
        /\ hid \subseteq Members(next) \ {w} /\ hid \subseteq hidden
        /\ Agrees(left, floating) /\ PlacesAgree(left, Place')
    BY <2>9, LeftGroup DEF Members
  <2>3. /\ w \in Windows /\ ~Alone(w) /\ Permutes(next) /\ Permutes(left)
        /\ w \in Windows \ Members(left)
    BY <1>2, <2>2 DEF Members, Alone, GroupInv, Rings
  <2>4. /\ Previous(w) \in Members(next) /\ Previous(w) # w
        /\ Together(next, w, Previous(w))
        /\ Heir(w) \in Members(next) /\ Heir(w) # w /\ Together(next, w, Heir(w))
    BY <2>3, HeirOf
  <2>5. /\ shown \in Members(left) /\ shown # w /\ shown \notin hid
        /\ Together(next, shown, w)
    <3>1. CASE Gives(w)
      BY <2>2, <2>3, <2>4, <3>1 DEF HiddenWithout, Together
    <3>2. CASE ~Gives(w)
      <4>1. Current(w) \in Members(next) /\ Current(w) \notin hidden
            /\ Together(next, Current(w), w)
        BY CurrentInRing
      <4>2. w \in hidden
        BY <2>3, <3>2 DEF Gives
      <4> QED  BY <2>2, <3>2, <4>1, <4>2
    <3> QED  BY <3>1, <3>2
  <2> HIDE DEF shown, hid, hd
  <2>6. /\ Rings(left, Windows \ hidden') /\ hidden' \subseteq Members(left)
        /\ focused \notin hidden'
    <3>1. CASE focused # w /\ focused # shown
      <4>1. focused = Previous(w) /\ focused \in Members(left)
        BY <2>2, <2>4, <3>1
      <4>2. Together(next, shown, focused)
        BY <2>4, <2>5, <4>1 DEF Together
      <4>3. Together(left, shown, focused)
        BY <2>3, <2>5, <3>1, <4>2, UnlinkedTogether
      <4>4. shown \in Windows \ hid
        BY <2>5 DEF Members
      <4>5. Rings(left, ((Windows \ hid) \ {shown}) \cup {focused})
        BY <2>2, <2>5, <4>1, <4>3, <4>4, FlagPassed
      <4>6. hidden' = (hid \cup {shown}) \ {focused}
        BY <2>1, <3>1
      <4>7. ((Windows \ hid) \ {shown}) \cup {focused} = Windows \ hidden'
        BY <3>1, <4>1, <4>6 DEF Members
      <4> QED  BY <2>2, <2>5, <4>5, <4>6, <4>7
    <3>2. CASE focused = w \/ focused = shown
      <4>1. hidden' = hid
        BY <2>1, <3>2
      <4> QED  BY <2>2, <2>5, <3>2, <4>1
    <3> QED  BY <3>1, <3>2
  <2>7. Rings(next', head') /\ Rings(next', Windows \ hidden')
        /\ hidden' \subseteq Members(next') /\ Members(next') \subseteq Members(next)
        /\ Agrees(next', floating) /\ PlacesAgree(next', Place')
    <3>1. CASE MadeGroup(w)
      <4> DEFINE new == [left EXCEPT ![w] = w]
      <4>1. /\ Rings(new, hd \cup {w}) /\ Rings(new, (Windows \ hidden') \cup {w})
            /\ Members(new) = Members(left) \cup {w}
        <5> HIDE DEF left
        <5> QED  BY <2>2, <2>3, <2>6, MadeRings
      <4>2. (Windows \ hidden') \cup {w} = Windows \ hidden'
        BY <2>2, <2>3, <2>6
      <4>3. Agrees(new, floating) /\ PlacesAgree(new, Place')
        <5>1. floating \in SUBSET Windows
          BY DEF GroupInv
        <5> HIDE DEF left
        <5> QED  BY <2>2, <2>3, <5>1, MadeAgrees
      <4>4. next' = new /\ head' = hd \cup {w}
        BY <2>1, <3>1
      <4> HIDE DEF new
      <4> QED  BY <2>2, <2>6, <4>1, <4>2, <4>3, <4>4
    <3>2. CASE ~MadeGroup(w)
      BY <2>1, <2>2, <2>6, <3>2
    <3> QED  BY <3>1, <3>2
  <2>8. last' \in (mapped' \ hidden') \cup {NoWindow}
    BY <2>1, <2>4, <2>6 DEF GroupInv
  <2> QED  BY <2>1, <2>7, <2>8, <2>9 DEF GroupInv
<1> QED  BY <1>1, <1>2

\* All of a ring goes to the workspace ws.
LEMMA PlaceRing ==
  ASSUME GroupInv, NEW w \in mapped, NEW ws \in Workspaces,
         workspace' = [v \in Windows |-> IF v \in Ring(w) THEN ws ELSE workspace[v]],
         mapped' = mapped, torn' = torn \ Ring(w)
  PROVE  /\ workspace' \in [Windows -> Workspaces \cup {NoWorkspace}]
         /\ mapped' = {v \in Windows : workspace'[v] # NoWorkspace}
         /\ torn' \subseteq mapped' /\ PlacesAgree(next, Place')
         /\ Ring(w) \in SUBSET Windows /\ Agrees(next, Ring(w))
         /\ Ring(w) \subseteq mapped
<1>1. w \in Windows /\ Permutes(next)
  BY DEF GroupInv, Rings
<1>2. Agrees(next, Ring(w)) /\ Ring(w) \in SUBSET Windows
  BY <1>1, RingAgrees DEF Ring
<1>3. Ring(w) \subseteq mapped
  <2>1. CASE w \in Members(next)
    BY <2>1, RingOfMembers DEF GroupInv
  <2>2. CASE w \notin Members(next)
    BY <1>1, <2>2 DEF Ring, RingIn, Members
  <2> QED  BY <2>1, <2>2
<1>4. torn' \subseteq mapped' /\ PlacesAgree(next, Place')
  <2>1. Place' = [v \in Windows |-> IF v \in Ring(w) THEN ws ELSE Place[v]]
    BY DEF Place
  <2>2. PlacesAgree(next, Place) /\ torn \subseteq mapped
    BY DEF GroupInv
  <2>3. PlacesAgree(next, [v \in Windows |-> IF v \in Ring(w) THEN ws ELSE Place[v]])
    BY <1>1, <1>2, <2>2, PlacedTogether
  <2> QED  BY <2>1, <2>2, <2>3
<1>5. /\ workspace' \in [Windows -> Workspaces \cup {NoWorkspace}]
      /\ mapped' = {v \in Windows : workspace'[v] # NoWorkspace}
  BY <1>2, <1>3, GroupAssumption DEF GroupInv
<1> QED  BY <1>2, <1>3, <1>4, <1>5

LEMMA MoveTileStep ==
  ASSUME GroupInv, last \in Windows, MoveTile(last)  PROVE GroupInv'
<1>1. PICK ws \in Workspaces :
        /\ workspace' = [v \in Windows |-> IF v \in Ring(last) THEN ws ELSE workspace[v]]
        /\ torn' = torn \ Ring(last)
  BY DEF MoveTile
<1>2. /\ UNCHANGED <<mapped, floating, hidden, next, head, last>>
      /\ last \in mapped
  BY TreeAssumption DEF MoveTile, groups, GroupInv
<1>3. /\ workspace' \in [Windows -> Workspaces \cup {NoWorkspace}]
      /\ mapped' = {v \in Windows : workspace'[v] # NoWorkspace}
      /\ torn' \subseteq mapped' /\ PlacesAgree(next, Place')
  BY <1>1, <1>2, PlaceRing
<1> QED  BY <1>2, <1>3 DEF GroupInv

\* The moves of the focused window, into the group or out of it.
LEMMA MoveStep ==
  ASSUME GroupInv, MoveIntoGroup \/ MoveOutOfGroup \/ MoveWindowOrGroup
  PROVE  GroupInv'
<1>1. CASE MoveIntoGroup
  <2>1. PICK v \in InDirection \cap Grouped : IntoGroup(v)
    BY <1>1 DEF MoveIntoGroup
  <2>2. last \in Windows
    BY <1>1 DEF MoveIntoGroup
  <2> QED  BY <2>1, <2>2, IntoGroupStep
<1>2. CASE MoveOutOfGroup
  <2>1. PICK w \in Grouped : OutOfGroup(w)
    BY <1>2 DEF MoveOutOfGroup
  <2> QED  BY <2>1, OutOfGroupStep DEF Grouped, Members
<1>3. CASE MoveWindowOrGroup
  <2>1. last \in Windows
    BY <1>3 DEF MoveWindowOrGroup
  <2>2. \/ MoveTile(last)
        \/ \E v \in InDirection \cap Grouped : IntoGroup(v)
        \/ last \in Grouped /\ OutOfGroup(last)
    BY <1>3 DEF MoveWindowOrGroup
  <2>3. ASSUME MoveTile(last)  PROVE GroupInv'
    BY <2>1, <2>3, MoveTileStep
  <2>4. ASSUME NEW v \in InDirection \cap Grouped, IntoGroup(v)  PROVE GroupInv'
    BY <2>1, <2>4, IntoGroupStep
  <2>5. ASSUME last \in Grouped, OutOfGroup(last)  PROVE GroupInv'
    BY <2>5, OutOfGroupStep DEF Grouped, Members
  <2> QED  BY <2>2, <2>3, <2>4, <2>5
<1> QED  BY <1>1, <1>2, <1>3

-----------------------------------------------------------------------------
(* The ways to another workspace, and of the tiles.                         *)

LEMMA ToggleFloatingStep ==
  ASSUME GroupInv, NEW w \in Windows, ToggleFloating(w)  PROVE GroupInv'
<1>1. w \in mapped /\ UNCHANGED <<mapped, hidden, next, head, last>>
  BY DEF ToggleFloating, groups
<1>2. \/ floating' = floating \ Ring(w)
      \/ floating' = floating \cup Ring(w)
  BY DEF ToggleFloating
<1>3. Agrees(next, Ring(w)) /\ Ring(w) \in SUBSET Windows /\ Permutes(next)
  BY RingAgrees DEF Ring, GroupInv, Rings
<1>4. floating' \in SUBSET Windows /\ Agrees(next, floating')
  <2>1. floating \in SUBSET Windows /\ Agrees(next, floating)
    BY DEF GroupInv
  <2>2. /\ Agrees(next, floating \cup Ring(w))
        /\ Agrees(next, floating \ Ring(w))
    BY <1>3, <2>1, AgreesWithRing
  <2> QED  BY <1>2, <1>3, <2>1, <2>2
<1>5. /\ workspace' \in [Windows -> Workspaces \cup {NoWorkspace}]
      /\ mapped' = {v \in Windows : workspace'[v] # NoWorkspace}
      /\ torn' \subseteq mapped' /\ PlacesAgree(next, Place')
  <2>1. CASE UNCHANGED <<workspace, torn>>
    BY <1>1, <2>1 DEF GroupInv, Place
  <2>2. CASE \E ws \in Workspaces :
               /\ workspace' = [v \in Windows |-> IF v \in Ring(w) THEN ws
                                                  ELSE workspace[v]]
               /\ torn' = torn \ Ring(w)
    <3>1. PICK ws \in Workspaces :
            /\ workspace' = [v \in Windows |-> IF v \in Ring(w) THEN ws
                                               ELSE workspace[v]]
            /\ torn' = torn \ Ring(w)
      BY <2>2
    <3> QED  BY <1>1, <3>1, PlaceRing
  <2>3. \/ UNCHANGED <<workspace, torn>>
        \/ \E ws \in Workspaces :
             /\ workspace' = [v \in Windows |-> IF v \in Ring(w) THEN ws
                                                ELSE workspace[v]]
             /\ torn' = torn \ Ring(w)
    BY DEF ToggleFloating
  <2> QED  BY <2>1, <2>2, <2>3
<1> QED  BY <1>1, <1>4, <1>5 DEF GroupInv

\* A ring goes behind `at`: what the head and the tail of the ring lead to is
\* exchanged with what `at` and the tail lead to.
LEMMA RingSpliced ==
  ASSUME GroupInv, NEW w \in Members(next), NEW v \in Members(next),
         NEW at \in {v, TailOf(v)}
  PROVE  /\ at \in Members(next) /\ at \in RingIn(next, v) /\ Together(next, at, v)
         /\ TailOf(w) \in Members(next) /\ TailOf(w) \in RingIn(next, w)
         /\ Together(next, TailOf(w), w)
         /\ HeadOf(w) \in Members(next) /\ HeadOf(w) \in RingIn(next, w)
         /\ HeadOf(w) \in head
         /\ SplicedRing(next, at, HeadOf(w), TailOf(w))
              = Crossed(next, at, TailOf(w))
<1> DEFINE h == HeadOf(w)
           b == TailOf(w)
<1>1. Permutes(next) /\ Rings(next, head)
  BY DEF GroupInv, Rings
<1>2. at \in RingIn(next, v) /\ at \in Members(next) /\ Together(next, at, v)
  <2>1. at \in RingIn(next, v)
    BY <1>1, TailInRing, RingClosed DEF TailOf
  <2> QED  BY <1>1, <2>1, RingTogether
<1>3. b \in RingIn(next, w) /\ b \in Members(next) /\ Together(next, b, w)
  <2>1. b \in RingIn(next, w) /\ b \in Members(next)
    BY <1>1, TailInRing DEF TailOf
  <2> QED  BY <1>1, <2>1, RingTogether
<1>4. PICK g \in RingIn(next, w) :
        g \in head /\ \A f \in RingIn(next, w) : f \in head => f = g
  BY <1>1, RingHead
<1>5. h = g
  BY <1>4 DEF HeadOf, Ring
<1>6. next[b] \in head
  <2>1. PICK u \in RingIn(next, w) : next[u] = g
    BY <1>1, <1>4, RingClosed DEF Closed
  <2> QED  BY <1>4, <2>1 DEF TailOf, TailIn
<1>7. next[b] \in RingIn(next, w) /\ g \in Members(next)
  BY <1>1, <1>3, <1>4, RingClosed DEF Closed
<1>8. next[b] = h
  BY <1>4, <1>5, <1>6, <1>7
<1>9. SplicedRing(next, at, h, b) = Crossed(next, at, b)
  BY <1>8 DEF SplicedRing, Crossed
<1> QED  BY <1>2, <1>3, <1>4, <1>5, <1>7, <1>9

\* The members of the ring of w go to one workspace, or are torn.
LEMMA JoinedPlaces ==
  ASSUME GroupInv, NEW w \in Windows, NEW ws \in Workspaces,
         Permutes(next'), RingIn(next', w) \subseteq mapped, Follow(w, ws),
         \/ torn' = torn \cup RingIn(next', w)
         \/ torn' = torn \ RingIn(next', w),
         NEW of, PlacesAgree(next', of),
         \A x \in Windows \ RingIn(next', w) : of[x] = Place[x]
  PROVE  /\ workspace' \in [Windows -> Workspaces \cup {NoWorkspace}]
         /\ mapped' = {x \in Windows : workspace'[x] # NoWorkspace}
         /\ torn' \subseteq mapped' /\ PlacesAgree(next', Place')
<1> DEFINE R == RingIn(next', w)
<1>1. /\ workspace' = [x \in Windows |-> IF x \in R THEN ws ELSE workspace[x]]
      /\ mapped' = mapped
  BY DEF Follow
<1>2. Agrees(next', R) /\ R \in SUBSET Windows
  BY RingAgrees
<1>3. R \subseteq mapped /\ (torn' = torn \cup R \/ torn' = torn \ R)
  OBVIOUS
<1>4. \A x \in Windows \ R : of[x] = Place[x]
  OBVIOUS
<1> HIDE DEF R
<1>5. PICK k : k = IF torn' = torn \cup R THEN NoWorkspace ELSE ws
  OBVIOUS
<1>6. Place' = [x \in Windows |-> IF x \in R THEN k ELSE of[x]]
  <2>1. \A x \in R : (IF x \in torn' THEN NoWorkspace ELSE workspace'[x]) = k
    BY <1>1, <1>2, <1>3, <1>5
  <2>2. \A x \in Windows \ R :
          (IF x \in torn' THEN NoWorkspace ELSE workspace'[x]) = of[x]
    BY <1>1, <1>3, <1>4 DEF Place
  <2> QED  BY <2>1, <2>2 DEF Place
<1>7. PlacesAgree(next', [x \in Windows |-> IF x \in R THEN k ELSE of[x]])
  BY <1>2, PlacedTogether
<1>8. /\ workspace' \in [Windows -> Workspaces \cup {NoWorkspace}]
      /\ mapped' = {x \in Windows : workspace'[x] # NoWorkspace}
      /\ torn' \subseteq mapped'
  BY <1>1, <1>2, <1>3, GroupAssumption DEF GroupInv
<1> QED  BY <1>6, <1>7, <1>8

\* What remains to be shown when w and v are in one ring.
LEMMA JoinedInv ==
  ASSUME GroupInv, NEW w \in mapped \ hidden, NEW ws \in Workspaces,
         NEW v \in mapped, v # w, NEW at,
         Merges(w, v, at), Follow(w, ws), FocusAfter(w, {v, w}),
         Rings(next', head'), Rings(next', (Windows \ hidden) \ {v}),
         Members(next') = Members(next) \cup {w},
         v \in Members(next'), w \in RingIn(next', v),
         floating' \in SUBSET Windows, Agrees(next', floating'),
         NEW of, PlacesAgree(next', of),
         \A x \in Windows \ RingIn(next', w) : of[x] = Place[x]
  PROVE  GroupInv'
<1>1. hidden' = hidden \cup {v}
  BY DEF Merges
<1>2. /\ Permutes(next') /\ w \in Windows /\ w \in Members(next')
      /\ Members(next') \subseteq mapped /\ mapped' = mapped
  BY DEF Rings, GroupInv, Follow
<1>3. RingIn(next', w) \subseteq mapped
  BY <1>2, RingClosed DEF Closed
<1>4. \/ torn' = torn \cup RingIn(next', w)
      \/ torn' = torn \ RingIn(next', w)
  BY DEF Merges
<1>5. /\ workspace' \in [Windows -> Workspaces \cup {NoWorkspace}]
      /\ mapped' = {x \in Windows : workspace'[x] # NoWorkspace}
      /\ torn' \subseteq mapped' /\ PlacesAgree(next', Place')
  BY <1>2, <1>3, <1>4, JoinedPlaces
<1>6. (Windows \ hidden) \ {v} = Windows \ hidden' /\ hidden' \subseteq Members(next')
  BY <1>1 DEF GroupInv
<1>7. last' \in (mapped' \ hidden') \cup {NoWindow}
  BY <1>1, <1>2 DEF FocusAfter, GroupInv
<1> QED  BY <1>2, <1>5, <1>6, <1>7 DEF GroupInv

\* A window that is in no group joins the one on the other workspace.
LEMMA JoinHostStep ==
  ASSUME GroupInv, NEW w \in mapped \ Grouped, NEW ws \in Workspaces,
         workspace[w] # ws, NEW v \in Hosts(w, ws), NEW at \in {v, TailOf(v)},
         Merges(w, v, at), Follow(w, ws), FocusAfter(w, {v, w})
  PROVE  GroupInv' /\ w \in RingIn(next', v)
<1>1. /\ w \in Windows \ Members(next) /\ w \in Windows /\ w \in mapped \ hidden
      /\ Ring(w) = {w} /\ Permutes(next)
  BY DEF GroupInv, Rings, Grouped, Members, Ring, RingIn
<1>2. /\ v \in Members(next) /\ v \in mapped \ hidden /\ workspace[v] = ws
      /\ v \in Windows /\ v # w
  BY <1>1 DEF Hosts, Shown, Grouped, Members
<1>3. /\ next' = Spliced(next, at, w) /\ head' = head \ {w}
      /\ floating' = IF v \in floating THEN floating \cup {w} ELSE floating \ {w}
  BY <1>1 DEF Merges
<1>4. at \in RingIn(next, v) /\ at \in Members(next) /\ Together(next, at, v)
  <2>1. at \in RingIn(next, v)
    BY <1>1, <1>2, TailInRing, RingClosed DEF GroupInv, TailOf
  <2> QED  BY <1>1, <1>2, <2>1, RingTogether
<1>5. Rings(next', head') /\ Members(next') = Members(next) \cup {w}
  BY <1>1, <1>3, <1>4, SplicedRings, SplicedPermutes DEF GroupInv
<1>6. Rings(next', (Windows \ hidden) \ {v})
  <2>1. Rings(next', ((Windows \ hidden) \ {v}) \cup {w})
    <3>1. v \in Windows \ hidden
      BY <1>2
    <3> QED  BY <1>1, <1>2, <1>3, <1>4, <3>1, ShownInstead DEF GroupInv
  <2>2. ((Windows \ hidden) \ {v}) \cup {w} = (Windows \ hidden) \ {v}
    BY <1>1, <1>2
  <2> QED  BY <2>1, <2>2
<1>7. floating' \in SUBSET Windows /\ Agrees(next', floating')
  <2>1. v \in floating <=> at \in floating
    BY <1>2, <1>4, TogetherAgree DEF GroupInv
  <2>2. floating' \ {w} = floating \ {w} /\ floating' \in SUBSET Windows
    BY <1>1, <1>3 DEF GroupInv
  <2>3. w \in floating' <=> at \in floating
    BY <1>1, <1>3, <2>1
  <2> QED  BY <1>1, <1>3, <1>4, <2>2, <2>3, SplicedAgrees DEF GroupInv
<1>8. v \in Members(next') /\ w \in RingIn(next', v)
  <2>1. Together(Spliced(next, at, w), w, v)
    BY <1>1, <1>2, <1>4, SplicedTogether
  <2>2. Permutes(next') /\ v \in Members(next')
    BY <1>2, <1>5 DEF Rings
  <2> QED  BY <1>3, <2>1, <2>2, TogetherInRing
<1>9. w \in RingIn(next', w)
  BY <1>1, <1>5, RingClosed DEF Rings
<1> DEFINE of == [x \in Windows |-> IF x = w THEN Place[at] ELSE Place[x]]
<1>10. /\ \A x \in Windows \ {w} : of[x] = Place[x]
       /\ of[w] = Place[at]
  BY <1>1
<1>11. \A x \in Windows \ RingIn(next', w) : of[x] = Place[x]
  BY <1>9
<1> HIDE DEF of
<1>12. PlacesAgree(next', of)
  BY <1>1, <1>3, <1>4, <1>10, SplicedPlaces DEF GroupInv
<1> QED  BY <1>1, <1>2, <1>5, <1>6, <1>7, <1>8, <1>11, <1>12, JoinedInv

\* A whole group joins the one on the other workspace.
LEMMA JoinHostRingStep ==
  ASSUME GroupInv, NEW w \in (mapped \ hidden) \cap Grouped, NEW ws \in Workspaces,
         workspace[w] # ws, NEW v \in Hosts(w, ws), NEW at \in {v, TailOf(v)},
         Merges(w, v, at), Follow(w, ws), FocusAfter(w, {v, w})
  PROVE  GroupInv' /\ w \in RingIn(next', v)
<1> DEFINE h == HeadOf(w)
           b == TailOf(w)
<1>1. /\ w \in Members(next) /\ w \in mapped \ hidden /\ Permutes(next)
      /\ w \in Windows
  BY DEF GroupInv, Rings, Grouped, Members
<1>2. /\ v \in Members(next) /\ v \in mapped \ hidden /\ workspace[v] = ws
      /\ v \in Windows /\ v # w
  BY <1>1 DEF Hosts, Shown, Grouped, Members
<1>3. /\ at \in Members(next) /\ at \in RingIn(next, v) /\ Together(next, at, v)
      /\ b \in Members(next) /\ b \in RingIn(next, w) /\ Together(next, b, w)
      /\ h \in RingIn(next, w) /\ h \in head /\ h \in Members(next)
      /\ SplicedRing(next, at, h, b) = Crossed(next, at, b)
  BY <1>1, <1>2, RingSpliced
<1>4. /\ next' = Crossed(next, at, b) /\ head' = head \ {h}
      /\ floating' = IF v \in floating THEN floating \cup Ring(w)
                                       ELSE floating \ Ring(w)
  BY <1>3 DEF Merges
<1> HIDE DEF h, b
\* w, which is shown, is the member of its ring that is: v is in another.
<1>6. v \notin RingIn(next, w)
  <2> SUFFICES ASSUME v \in RingIn(next, w)  PROVE FALSE
    OBVIOUS
  <2>1. Together(next, v, w)
    BY <1>1, RingTogether
  <2> QED  BY <1>1, <1>2, <2>1, OneFlag DEF GroupInv
<1>7. at \notin RingIn(next, b)
  <2> SUFFICES ASSUME at \in RingIn(next, b)  PROVE FALSE
    OBVIOUS
  <2>1. Together(next, at, b)
    BY <1>1, <1>3, RingTogether
  <2>2. Together(next, v, w)
    BY <1>3, <2>1 DEF Together
  <2> QED  BY <1>1, <1>6, <2>2, TogetherInRing
<1>9. h \in RingIn(next, b) /\ w \in RingIn(next, b)
  <2>1. Together(next, h, w)
    BY <1>1, <1>3, RingTogether
  <2>2. Together(next, h, b) /\ Together(next, w, b)
    BY <1>3, <2>1 DEF Together
  <2> QED  BY <1>1, <1>3, <2>2, TogetherInRing
<1>10. Rings(next', head') /\ Members(next') = Members(next) \cup {w}
  <2>1. Rings(Crossed(next, at, b), head \ {h})
    BY <1>3, <1>7, <1>9, CrossedRings DEF GroupInv
  <2> QED  BY <1>1, <1>3, <1>4, <2>1, CrossedPermutes
<1>11. Rings(next', (Windows \ hidden) \ {v})
  <2>1. v \in Windows \ hidden /\ w \in Windows \ hidden
    BY <1>1, <1>2
  <2> QED  BY <1>2, <1>3, <1>4, <1>7, <1>9, <2>1, CrossedShown DEF GroupInv
<1>12. Agrees(next, Ring(w)) /\ Ring(w) \in SUBSET Windows
  BY <1>1, RingAgrees DEF Ring
<1>13. b \in Ring(w) /\ at \notin Ring(w)
  <2> SUFFICES ASSUME at \in RingIn(next, w)  PROVE FALSE
    BY <1>3 DEF Ring
  <2>1. Together(next, at, w)
    BY <1>1, RingTogether
  <2>2. Together(next, v, w)
    BY <1>3, <2>1 DEF Together
  <2> QED  BY <1>1, <1>6, <2>2, TogetherInRing
<1>14. floating' \in SUBSET Windows /\ Agrees(next', floating')
  <2>1. v \in floating <=> at \in floating
    BY <1>2, <1>3, TogetherAgree DEF GroupInv
  <2>2. floating' \in SUBSET Windows /\ Agrees(next, floating')
    BY <1>1, <1>4, <1>12, AgreesWithRing DEF GroupInv
  <2>3. at \in floating' <=> b \in floating'
    BY <1>4, <1>13, <2>1
  <2> QED  BY <1>1, <1>3, <1>4, <2>2, <2>3, CrossedAgrees
\* The two rings have become one.
<1>15. /\ Permutes(next') /\ w \in Members(next') /\ v \in Members(next')
       /\ RingIn(next, w) \subseteq RingIn(next', w) /\ w \in RingIn(next', v)
  <2>1. Permutes(next') /\ w \in Members(next') /\ v \in Members(next')
    BY <1>2, <1>10 DEF Rings
  <2>2. /\ RingIn(next, w) \in SUBSET Windows /\ Closed(next, RingIn(next, w))
        /\ b \in RingIn(next, w) /\ at \notin RingIn(next, w)
    BY <1>1, <1>3, <1>12, <1>13, RingClosed DEF Ring
  <2>3. \A S \in SUBSET Windows :
          Closed(next', S) => Closed(next, S) /\ (at \in S <=> b \in S)
    BY <1>1, <1>3, <1>4, <2>2, CrossedClosedBack
  <2>4. Together(next', w, v)
    BY <1>3, <2>3 DEF Together
  <2>5. /\ Closed(next', RingIn(next', w)) /\ w \in RingIn(next', w)
        /\ RingIn(next', w) \in SUBSET Windows
    BY <1>1, <2>1, RingClosed, RingAgrees
  <2>6. Closed(next, RingIn(next', w))
    BY <2>3, <2>5
  <2>7. RingIn(next, w) \subseteq RingIn(next', w)
    BY <1>1, <2>5, <2>6, RingClosed
  <2> QED  BY <2>1, <2>4, <2>7, TogetherInRing
<1> DEFINE of == [x \in Windows |-> IF x \in Ring(w) THEN Place[at] ELSE Place[x]]
<1>16. /\ PlacesAgree(next, of) /\ of[at] = of[b]
       /\ \A x \in Windows \ RingIn(next', w) : of[x] = Place[x]
  <2>1. PlacesAgree(next, of)
    BY <1>1, <1>12, PlacedTogether DEF GroupInv
  <2>2. of[at] = of[b]
    BY <1>3, <1>13 DEF Members
  <2>3. \A x \in Windows \ RingIn(next', w) : of[x] = Place[x]
    BY <1>15 DEF Ring
  <2> QED  BY <2>1, <2>2, <2>3
<1> HIDE DEF of
<1>17. PlacesAgree(next', of)
  <2> SUFFICES ASSUME NEW at2 \in Workspaces  PROVE Agrees(next', On(of, at2))
    BY DEF PlacesAgree
  <2>1. /\ Agrees(next, On(of, at2)) /\ On(of, at2) \in SUBSET Windows
        /\ at \in On(of, at2) <=> b \in On(of, at2)
    BY <1>3, <1>16 DEF PlacesAgree, On, Members
  <2> QED  BY <1>1, <1>3, <1>4, <2>1, CrossedAgrees
<1> QED  BY <1>1, <1>2, <1>10, <1>11, <1>14, <1>15, <1>16, <1>17, JoinedInv

LEMMA MoveToWorkspaceStep ==
  ASSUME GroupInv, NEW w \in Windows, NEW ws \in Workspaces, MoveToWorkspace(w, ws)
  PROVE  GroupInv'
<1>1. w \in mapped \ hidden /\ workspace[w] # ws /\ Follow(w, ws)
  BY DEF MoveToWorkspace
<1>2. CASE /\ UNCHANGED <<floating, next, head, hidden>>
           /\ torn' = torn \ Ring(w) /\ FocusAfter(w, {w})
  <2>1. /\ mapped' = mapped
        /\ workspace' = [x \in Windows |-> IF x \in Ring(w) THEN ws
                                           ELSE workspace[x]]
    BY <1>1, <1>2 DEF Follow, Ring
  <2>2. /\ workspace' \in [Windows -> Workspaces \cup {NoWorkspace}]
        /\ mapped' = {v \in Windows : workspace'[v] # NoWorkspace}
        /\ torn' \subseteq mapped' /\ PlacesAgree(next, Place')
    BY <1>1, <1>2, <2>1, PlaceRing
  <2>3. last' \in (mapped' \ hidden') \cup {NoWindow}
    BY <1>1, <1>2, <2>1 DEF FocusAfter, GroupInv
  <2> QED  BY <1>2, <2>1, <2>2, <2>3 DEF GroupInv
<1>3. CASE \E v \in Hosts(w, ws) : \E at \in {v, TailOf(v)} :
             Merges(w, v, at) /\ FocusAfter(w, {v, w})
  <2>1. PICK v \in Hosts(w, ws) : \E at \in {v, TailOf(v)} :
          Merges(w, v, at) /\ FocusAfter(w, {v, w})
    BY <1>3
  <2>2. PICK at \in {v, TailOf(v)} : Merges(w, v, at) /\ FocusAfter(w, {v, w})
    BY <2>1
  <2>3. CASE w \in Grouped
    BY <1>1, <2>2, <2>3, JoinHostRingStep
  <2>4. CASE w \notin Grouped
    BY <1>1, <2>2, <2>4, JoinHostStep
  <2> QED  BY <2>3, <2>4
<1> QED  BY <1>2, <1>3 DEF MoveToWorkspace

\* A hidden member that floats is moved by name, with its group: nothing is
\* torn, and it may be shown for the member that was.
LEMMA MoveHiddenStep ==
  ASSUME GroupInv, NEW w \in Windows, NEW ws \in Workspaces, MoveHidden(w, ws),
         ~parted'
  PROVE  GroupInv'
<1>1. /\ w \in hidden /\ w \in Members(next) /\ w \in mapped /\ Follow(w, ws)
      /\ torn' = torn \ Ring(w) /\ UNCHANGED <<floating, next, head>>
  BY DEF MoveHidden, GroupInv
<1>2. /\ mapped' = mapped
      /\ workspace' = [x \in Windows |-> IF x \in Ring(w) THEN ws ELSE workspace[x]]
  BY <1>1 DEF Follow, Ring
<1>3. /\ workspace' \in [Windows -> Workspaces \cup {NoWorkspace}]
      /\ mapped' = {v \in Windows : workspace'[v] # NoWorkspace}
      /\ torn' \subseteq mapped' /\ PlacesAgree(next, Place')
  BY <1>1, <1>2, PlaceRing
<1>4. \/ UNCHANGED <<hidden, last>>
      \/ hidden' = Exchanged(hidden, w, Current(w)) /\ last' = w
  BY DEF MoveHidden
<1>5. CASE UNCHANGED <<hidden, last>>
  BY <1>1, <1>2, <1>3, <1>5 DEF GroupInv
<1>6. CASE hidden' = Exchanged(hidden, w, Current(w)) /\ last' = w
  <2> DEFINE c == Current(w)
  <2>1. c \in Members(next) /\ c \notin hidden /\ Together(next, c, w)
    BY <1>1, CurrentInRing
  <2>2. hidden' = Exchanged(hidden, w, c) /\ last' = w
    BY <1>6
  <2> HIDE DEF c
  <2>3. /\ hidden' = (hidden \ {w}) \cup {c} /\ c \in Windows \ hidden /\ c # w
        /\ hidden' \subseteq Members(next)
    BY <1>1, <2>1, <2>2 DEF Exchanged, GroupInv, Members
  <2>4. Rings(next, ((Windows \ hidden) \ {c}) \cup {w})
    BY <1>1, <2>1, <2>3, FlagPassed DEF GroupInv
  <2>5. ((Windows \ hidden) \ {c}) \cup {w} = Windows \ hidden'
    BY <2>3
  <2> QED  BY <1>1, <1>2, <1>3, <2>2, <2>3, <2>4, <2>5 DEF GroupInv
<1> QED  BY <1>4, <1>5, <1>6

\* swapActive, for windows that are mapped.
LEMMA SwapStep ==
  ASSUME GroupInv, SwapActive, \A w \in Windows : HasTile(tree, w) => w \in mapped
  PROVE  GroupInv'
<1>1. /\ last \in Windows /\ last \in mapped
      /\ UNCHANGED <<mapped, floating, hidden, next, head, last>>
  BY DEF SwapActive, groups
<1>2. PICK v \in Windows \ {last}, apart \in BOOLEAN :
        /\ HasTile(tree, v)
        /\ workspace' = IF apart
                        THEN [workspace EXCEPT ![last] = workspace[v],
                                               ![v] = workspace[last]]
                        ELSE workspace
        /\ torn' = IF apart THEN torn \cup Behind(last, v) \cup Behind(v, last)
                   ELSE torn
  BY DEF SwapActive
<1>3. v \in mapped /\ Permutes(next)
  BY <1>2 DEF GroupInv, Rings
<1>4. /\ Agrees(next, Ring(last)) /\ Ring(last) \in SUBSET Windows
      /\ Agrees(next, Ring(v)) /\ Ring(v) \in SUBSET Windows
  BY <1>1, <1>2, <1>3, RingAgrees DEF Ring
<1>5. Ring(last) \subseteq mapped /\ Ring(v) \subseteq mapped
  <2> SUFFICES ASSUME NEW w \in mapped  PROVE Ring(w) \subseteq mapped
    BY <1>1, <1>3
  <2>1. CASE w \in Members(next)
    BY <2>1, RingOfMembers DEF GroupInv
  <2>2. CASE w \notin Members(next)
    BY <2>2 DEF Ring, RingIn, Members, GroupInv
  <2> QED  BY <2>1, <2>2
<1>6. /\ Behind(last, v) \in {{}, Ring(last)} /\ Behind(v, last) \in {{}, Ring(v)}
  BY DEF Behind
<1>7. /\ workspace' \in [Windows -> Workspaces \cup {NoWorkspace}]
      /\ mapped' = {x \in Windows : workspace'[x] # NoWorkspace}
      /\ torn' \subseteq mapped'
  <2>1. torn' \subseteq mapped
    BY <1>2, <1>5, <1>6 DEF GroupInv
  <2> QED  BY <1>1, <1>2, <1>3, <2>1 DEF GroupInv
<1>8. PlacesAgree(next, Place')
  <2>1. PlacesAgree(next, Place)
    BY DEF GroupInv
  <2>2. CASE ~apart
    <3>1. Place' = Place
      BY <1>2, <2>2 DEF Place
    <3> QED  BY <2>1, <3>1
  <2>3. CASE apart
\* The windows of a group that is not torn alone are in the place of the one
\* that is swapped: there is only that one.
    <3> DEFINE A == Ring(last)
               B == Ring(v)
    <3>1. ASSUME NEW x \in A  PROVE Place'[x] = Place'[last]
      <4>1. CASE Behind(last, v) = Ring(last)
        <5>1. last \in Ring(last) /\ x \in torn'
          BY <1>1, <1>2, <1>3, <2>3, <3>1, <4>1, RingClosed
             DEF Ring, RingIn, Members
        <5>2. last \in torn' /\ x \in Windows
          BY <1>2, <1>4, <2>3, <3>1, <4>1, <5>1
        <5> QED  BY <1>1, <5>1, <5>2 DEF Place
      <4>2. CASE Behind(last, v) # Ring(last)
        <5>1. x = last
          BY <3>1, <4>2 DEF Behind, Alone, Ring, RingIn
        <5> QED  BY <5>1
      <4> QED  BY <4>1, <4>2
    <3>2. ASSUME NEW x \in B  PROVE Place'[x] = Place'[v]
      <4>1. CASE Behind(v, last) = Ring(v)
        <5>1. v \in Ring(v) /\ x \in torn'
          BY <1>2, <1>3, <2>3, <3>2, <4>1, RingClosed
             DEF Ring, RingIn, Members
        <5>2. v \in torn' /\ x \in Windows
          BY <1>2, <1>4, <2>3, <3>2, <4>1, <5>1
        <5> QED  BY <1>2, <5>1, <5>2 DEF Place
      <4>2. CASE Behind(v, last) # Ring(v)
        <5>1. x = v
          BY <3>2, <4>2 DEF Behind, Alone, Ring, RingIn
        <5> QED  BY <5>1
      <4> QED  BY <4>1, <4>2
    <3>3. ASSUME NEW x \in Windows \ (A \cup B)  PROVE Place'[x] = Place[x]
      <4>1. last \in A /\ v \in B
        BY <1>1, <1>2, <1>3, RingClosed DEF Ring, RingIn, Members
      <4>2. x # last /\ x # v /\ (x \in torn' <=> x \in torn)
        BY <1>2, <1>6, <2>3, <3>3, <4>1
      <4>3. workspace'[x] = workspace[x]
        BY <1>2, <2>3, <4>2 DEF GroupInv
      <4> QED  BY <4>2, <4>3 DEF Place
    <3> HIDE DEF A, B
    <3> DEFINE once == [x \in Windows |-> IF x \in A THEN Place'[last] ELSE Place[x]]
               twice == [x \in Windows |-> IF x \in B THEN Place'[v] ELSE once[x]]
    <3>4. Place' = twice
      <4>1. Place' = [x \in Windows |-> Place'[x]]
        BY DEF Place
      <4>2. \A x \in Windows : Place'[x] = twice[x]
        BY <3>1, <3>2, <3>3
      <4> HIDE DEF twice
      <4>3. twice = [x \in Windows |-> twice[x]]
        BY DEF twice
      <4> QED  BY <4>1, <4>2, <4>3
    <3>5. PlacesAgree(next, once)
      BY <1>3, <1>4, <2>1, PlacedTogether DEF A
    <3> HIDE DEF once
    <3>6. PlacesAgree(next, twice)
      BY <1>3, <1>4, <3>5, PlacedTogether DEF B
    <3> QED  BY <3>4, <3>6
  <2> QED  BY <2>2, <2>3
<1> QED  BY <1>1, <1>7, <1>8 DEF GroupInv

-----------------------------------------------------------------------------
(* Forests: in every set of nodes with the parents of its members there is  *)
(* a root, so the way up from a node ends.                                  *)

UpClosed(T, S) == \A x \in S : T[x].parent # NoNode => T[x].parent \in S

Grounded(T) ==
  \A S \in SUBSET DOMAIN T :
    S # {} /\ UpClosed(T, S) => \E r \in S : T[r].parent = NoNode

OneRoot(T) ==
  \A m, n \in DOMAIN T :
    T[m].workspace = T[n].workspace /\ T[m].parent = NoNode
      /\ T[n].parent = NoNode => m = n

IsForest(T) ==
  /\ DOMAIN T \in SUBSET NodeIds /\ T \in [DOMAIN T -> Nodes]
  /\ Linked(T) /\ Grounded(T) /\ OneRoot(T)

\* The windows S have a tile each, and no others.
HeldBy(T, S) ==
  /\ \A m, n \in DOMAIN T : IsTile(T, m) /\ T[m].window = T[n].window => m = n
  /\ \A w \in Windows : w \in S <=> HasTile(T, w)

\* Every tile is on the workspace of its window, if that has one.
LiesOn(T, of) ==
  \A n \in DOMAIN T :
    IsTile(T, n) => of[T[n].window] \in {T[n].workspace, NoWorkspace}

LEMMA TileFound ==
  ASSUME NEW T, NEW w \in Windows, HasTile(T, w)
  PROVE  /\ TileOf(T, w) \in DOMAIN T /\ T[TileOf(T, w)].window = w
         /\ IsTile(T, TileOf(T, w))
BY TreeAssumption DEF HasTile, TilesOf, TileOf, IsTile

LEMMA OneTile ==
  ASSUME NEW T, NEW S, HeldBy(T, S), NEW w \in Windows, NEW n \in DOMAIN T,
         T[n].window = w
  PROVE  TileOf(T, w) = n /\ HasTile(T, w)
<1>1. HasTile(T, w)
  BY DEF HasTile, TilesOf
<1> QED  BY <1>1, TileFound DEF HeldBy

\* The parent of a node is a split with it as one of its two children.
LEMMA Family ==
  ASSUME NEW T, IsForest(T), NEW n \in DOMAIN T, T[n].parent # NoNode
  PROVE  /\ T[n].parent \in DOMAIN T /\ ~IsTile(T, T[n].parent)
         /\ T[n].parent # n
         /\ T[T[n].parent].workspace = T[n].workspace
         /\ Sibling(T, n) \in DOMAIN T /\ Sibling(T, n) # n
         /\ Sibling(T, n) # T[n].parent
         /\ T[Sibling(T, n)].parent = T[n].parent
         /\ {T[T[n].parent].first, T[T[n].parent].second} = {n, Sibling(T, n)}
<1> DEFINE p == T[n].parent
<1>1. p \in DOMAIN T /\ n \in {T[p].first, T[p].second}
  BY DEF IsForest, Linked
<1>2. n # NoNode /\ ~IsTile(T, p)
  BY <1>1, TreeAssumption DEF IsForest, Linked
<1>3. /\ T[p].first \in DOMAIN T /\ T[p].second \in DOMAIN T
      /\ T[p].first # T[p].second
      /\ T[T[p].first].parent = p /\ T[T[p].second].parent = p
      /\ T[T[p].first].workspace = T[p].workspace
      /\ T[T[p].second].workspace = T[p].workspace
  BY <1>1, <1>2 DEF IsForest, Linked
<1>4. ASSUME NEW x \in DOMAIN T, T[x].parent = x  PROVE FALSE
  <2>1. {x} \in SUBSET DOMAIN T /\ UpClosed(T, {x})
    BY <1>4 DEF UpClosed
  <2>2. x # NoNode
    BY TreeAssumption DEF IsForest
  <2> QED  BY <1>4, <2>1, <2>2 DEF IsForest, Grounded
<1>5. p # n
  BY <1>1, <1>4
<1>6. Sibling(T, n) \in DOMAIN T /\ Sibling(T, n) # n /\ T[Sibling(T, n)].parent = p
      /\ {T[p].first, T[p].second} = {n, Sibling(T, n)}
  BY <1>1, <1>3 DEF Sibling
<1> QED  BY <1>1, <1>2, <1>3, <1>4, <1>5, <1>6

\* A child of a node has it as its parent.
LEMMA Children ==
  ASSUME NEW T, IsForest(T), NEW x \in DOMAIN T, NEW c \in DOMAIN T,
         c \in {T[x].first, T[x].second}
  PROVE  T[c].parent = x /\ ~IsTile(T, x) /\ T[c].workspace = T[x].workspace
<1>1. c # NoNode
  BY TreeAssumption DEF IsForest
<1> QED  BY <1>1 DEF IsForest, Linked

\* A node brings a tile on its workspace.
LEMMA TileBelow ==
  ASSUME NEW T, IsForest(T), NEW n \in DOMAIN T
  PROVE  TilesOn(T, T[n].workspace) # {}
<1> DEFINE S == {x \in DOMAIN T : T[x].workspace = T[n].workspace}
           f == [x \in S |-> T[x].first]
<1> SUFFICES ASSUME \A x \in S : ~IsTile(T, x)  PROVE FALSE
  BY DEF TilesOn
<1>1. S \in SUBSET DOMAIN T /\ S # {}
  OBVIOUS
<1>2. UpClosed(T, S)
  BY Family DEF UpClosed
<1>3. PICK r \in S : T[r].parent = NoNode
  BY <1>1, <1>2 DEF IsForest, Grounded
<1>4. ASSUME NEW x \in S  PROVE f[x] \in S /\ T[f[x]].parent = x
  BY <1>4 DEF IsForest, Linked
<1>5. \A x \in S : f[x] # r
  BY <1>3, <1>4, TreeAssumption DEF IsForest
<1>6. f \in Injection(S, S \ {r})
  BY <1>4, <1>5 DEF Injection, IsInjective
<1>7. IsFiniteSet(S)
  BY <1>1, TreeAssumption, FS_Subset DEF IsForest
<1> HIDE DEF S, f
<1>8. IsFiniteSet(S \ {r}) /\ Cardinality(S \ {r}) = Cardinality(S) - 1
  BY <1>3, <1>7, FS_RemoveElement
<1>9. Cardinality(S) <= Cardinality(S \ {r})
  BY <1>6, <1>8, FS_Injection
<1> QED  BY <1>7, <1>8, <1>9, FS_CardinalityType

\* Only the parents matter for the roots.
LEMMA SameParents ==
  ASSUME NEW T, NEW U, DOMAIN U = DOMAIN T,
         \A x \in DOMAIN T : U[x].parent = T[x].parent
                               /\ U[x].workspace = T[x].workspace,
         Grounded(T), OneRoot(T)
  PROVE  Grounded(U) /\ OneRoot(U)
<1>1. \A S \in SUBSET DOMAIN T : UpClosed(U, S) => UpClosed(T, S)
  BY DEF UpClosed
<1> QED  BY <1>1 DEF Grounded, OneRoot

\* A forest stays one when its tiles hold other windows.
LEMMA SameShape ==
  ASSUME NEW T, NEW U, IsForest(T), U \in [DOMAIN T -> Nodes],
         \A x \in DOMAIN T :
           /\ U[x].parent = T[x].parent /\ U[x].workspace = T[x].workspace
           /\ U[x].first = T[x].first /\ U[x].second = T[x].second
           /\ IsTile(U, x) <=> IsTile(T, x)
  PROVE  IsForest(U)
<1>1. Grounded(U) /\ OneRoot(U)
  BY SameParents DEF IsForest
<1>2. Linked(U)
  BY DEF IsForest, Linked
<1> QED  BY <1>1, <1>2 DEF IsForest

\* The tile of `from` holds `to`.
LEMMA ReplacedForest ==
  ASSUME NEW T, IsForest(T), NEW S, HeldBy(T, S), NEW from \in S \cap Windows,
         NEW to \in Windows \ S
  PROVE  /\ IsForest(Replaced(T, from, to))
         /\ HeldBy(Replaced(T, from, to), (S \ {from}) \cup {to})
         /\ \A of, of2 :
              /\ LiesOn(T, of) /\ of2[to] = of[from]
              /\ \A x \in S \ {from} : of2[x] = of[x]
              => LiesOn(Replaced(T, from, to), of2)
<1> DEFINE n == TileOf(T, from)
           U == Replaced(T, from, to)
<1>1. HasTile(T, from) /\ n \in DOMAIN T /\ T[n].window = from /\ IsTile(T, n)
  BY TileFound DEF HeldBy
<1>2. U = [T EXCEPT ![n] = Holding(T[n], to)]
  BY <1>1 DEF Replaced
<1> HIDE DEF n, U
<1>3. /\ DOMAIN U = DOMAIN T /\ U \in [DOMAIN T -> Nodes]
      /\ U[n] = Holding(T[n], to) /\ \A x \in DOMAIN T \ {n} : U[x] = T[x]
  <2>1. T[n] \in Nodes /\ T \in [DOMAIN T -> Nodes]
    BY <1>1 DEF IsForest
  <2>2. Holding(T[n], to) \in Nodes
    BY <2>1 DEF Holding, Nodes
  <2> QED  BY <1>1, <1>2, <2>1, <2>2
<1>4. /\ U[n].parent = T[n].parent /\ U[n].first = T[n].first
      /\ U[n].second = T[n].second /\ U[n].workspace = T[n].workspace
      /\ U[n].window = to /\ to # NoWindow
  BY <1>3, TreeAssumption DEF Holding
<1>5. \A x \in DOMAIN T : IsTile(U, x) <=> IsTile(T, x)
  BY <1>1, <1>3, <1>4 DEF IsTile
<1>6. IsForest(U)
  <2>1. \A x \in DOMAIN T :
           /\ U[x].parent = T[x].parent /\ U[x].workspace = T[x].workspace
           /\ U[x].first = T[x].first /\ U[x].second = T[x].second
    BY <1>3, <1>4
  <2> QED  BY <1>3, <1>5, <2>1, SameShape
<1>7. \A x \in DOMAIN T : T[x].window # to
  BY DEF HeldBy, HasTile, TilesOf
<1>8. \A x \in DOMAIN T \ {n} : T[x].window # from
  BY <1>1 DEF HeldBy
<1>9. HeldBy(U, (S \ {from}) \cup {to})
  <2>1. \A x, y \in DOMAIN U : IsTile(U, x) /\ U[x].window = U[y].window => x = y
    BY <1>1, <1>3, <1>4, <1>7 DEF HeldBy, IsTile
  <2>2. ASSUME NEW w \in Windows
        PROVE  w \in (S \ {from}) \cup {to} <=> HasTile(U, w)
    <3>1. w \in S <=> \E x \in DOMAIN T : T[x].window = w
      BY DEF HeldBy, HasTile, TilesOf
    <3>2. HasTile(U, w) <=> \E x \in DOMAIN T : U[x].window = w
      BY <1>3 DEF HasTile, TilesOf
    <3> QED  BY <1>1, <1>3, <1>4, <1>8, <3>1, <3>2
  <2> QED  BY <2>1, <2>2 DEF HeldBy
<1>10. ASSUME NEW of, NEW of2, LiesOn(T, of), of2[to] = of[from],
              \A x \in S \ {from} : of2[x] = of[x]
       PROVE  LiesOn(U, of2)
  <2> SUFFICES ASSUME NEW x \in DOMAIN T, IsTile(U, x)
               PROVE  of2[U[x].window] \in {U[x].workspace, NoWorkspace}
    BY <1>3 DEF LiesOn
  <2>1. CASE x = n
    BY <1>1, <1>4, <1>10, <2>1 DEF LiesOn
  <2>2. CASE x # n
    <3>1. U[x] = T[x] /\ IsTile(T, x) /\ T[x].window \in Windows
      BY <1>3, <1>5, <2>2 DEF IsForest, Nodes, IsTile
    <3>2. T[x].window \in S \ {from}
      BY <1>8, <2>2, <3>1 DEF HeldBy, HasTile, TilesOf
    <3> QED  BY <1>10, <3>1, <3>2 DEF LiesOn
  <2> QED  BY <2>1, <2>2
<1> QED  BY <1>6, <1>9, <1>10 DEF U

LEMMA SwitchedForest ==
  ASSUME NEW T, IsForest(T), NEW S, HeldBy(T, S), NEW v \in Windows,
         NEW w \in Windows, v # w, HasTile(T, v), HasTile(T, w)
  PROVE  /\ IsForest(Switched(T, v, w)) /\ HeldBy(Switched(T, v, w), S)
         /\ \A of, of2 :
              /\ LiesOn(T, of)
              /\ of2[v] \in {T[TileOf(T, w)].workspace, NoWorkspace}
              /\ of2[w] \in {T[TileOf(T, v)].workspace, NoWorkspace}
              /\ \A x \in S \ {v, w} : of2[x] = of[x]
              => LiesOn(Switched(T, v, w), of2)
<1> DEFINE a == TileOf(T, v)
           b == TileOf(T, w)
           U == Switched(T, v, w)
<1>1. /\ a \in DOMAIN T /\ T[a].window = v /\ IsTile(T, a)
      /\ b \in DOMAIN T /\ T[b].window = w /\ IsTile(T, b)
  BY TileFound
<1>2. U = [x \in DOMAIN T |-> IF x = a THEN Holding(T[x], w)
                              ELSE IF x = b THEN Holding(T[x], v) ELSE T[x]]
  BY DEF Switched
<1> HIDE DEF a, b, U
<1>3. /\ DOMAIN U = DOMAIN T /\ U[a] = Holding(T[a], w) /\ U[b] = Holding(T[b], v)
      /\ \A x \in DOMAIN T \ {a, b} : U[x] = T[x]
  BY <1>1, <1>2
<1>4. U \in [DOMAIN T -> Nodes]
  <2>1. T[a] \in Nodes /\ T[b] \in Nodes /\ T \in [DOMAIN T -> Nodes]
    BY <1>1 DEF IsForest
  <2>2. Holding(T[a], w) \in Nodes /\ Holding(T[b], v) \in Nodes
    BY <2>1 DEF Holding, Nodes
  <2> QED  BY <1>1, <1>2, <2>1, <2>2
<1>5. /\ U[a].parent = T[a].parent /\ U[a].first = T[a].first
      /\ U[a].second = T[a].second /\ U[a].workspace = T[a].workspace
      /\ U[a].window = w /\ w # NoWindow
      /\ U[b].parent = T[b].parent /\ U[b].first = T[b].first
      /\ U[b].second = T[b].second /\ U[b].workspace = T[b].workspace
      /\ U[b].window = v /\ v # NoWindow
  BY <1>3, TreeAssumption DEF Holding
<1>6. \A x \in DOMAIN T : IsTile(U, x) <=> IsTile(T, x)
  BY <1>1, <1>3, <1>5 DEF IsTile
<1>7. IsForest(U)
  <2>1. \A x \in DOMAIN T :
           /\ U[x].parent = T[x].parent /\ U[x].workspace = T[x].workspace
           /\ U[x].first = T[x].first /\ U[x].second = T[x].second
    BY <1>3, <1>5
  <2> QED  BY <1>4, <1>6, <2>1, SameShape
<1>8. \A x \in DOMAIN T \ {a, b} : T[x].window # v /\ T[x].window # w
  BY <1>1 DEF HeldBy
<1>9. HeldBy(U, S)
  <2>1. \A x, y \in DOMAIN U : IsTile(U, x) /\ U[x].window = U[y].window => x = y
    BY <1>1, <1>3, <1>5, <1>8 DEF HeldBy, IsTile
  <2>2. ASSUME NEW x \in Windows  PROVE x \in S <=> HasTile(U, x)
    <3>1. x \in S <=> \E y \in DOMAIN T : T[y].window = x
      BY DEF HeldBy, HasTile, TilesOf
    <3>2. HasTile(U, x) <=> \E y \in DOMAIN T : U[y].window = x
      BY <1>3 DEF HasTile, TilesOf
    <3> QED  BY <1>1, <1>3, <1>5, <3>1, <3>2
  <2> QED  BY <2>1, <2>2 DEF HeldBy
<1>10. ASSUME NEW of, NEW of2, LiesOn(T, of),
              of2[v] \in {T[b].workspace, NoWorkspace},
              of2[w] \in {T[a].workspace, NoWorkspace},
              \A x \in S \ {v, w} : of2[x] = of[x]
       PROVE  LiesOn(U, of2)
  <2> SUFFICES ASSUME NEW x \in DOMAIN T, IsTile(U, x)
               PROVE  of2[U[x].window] \in {U[x].workspace, NoWorkspace}
    BY <1>3 DEF LiesOn
  <2>1. CASE x \in {a, b}
    BY <1>5, <1>10, <2>1
  <2>2. CASE x \notin {a, b}
    <3>1. U[x] = T[x] /\ IsTile(T, x) /\ T[x].window \in Windows
      BY <1>3, <1>6, <2>2 DEF IsForest, Nodes, IsTile
    <3>2. T[x].window \in S \ {v, w}
      BY <1>8, <2>2, <3>1 DEF HeldBy, HasTile, TilesOf
    <3> QED  BY <1>10, <3>1, <3>2 DEF LiesOn
  <2> QED  BY <2>1, <2>2
<1> QED  BY <1>7, <1>9, <1>10 DEF a, b, U

\* The windows stay in their tiles.
LEMMA SameTiles ==
  ASSUME NEW T, NEW U, DOMAIN U = DOMAIN T,
         \A x \in DOMAIN T : /\ U[x].window = T[x].window
                             /\ U[x].workspace = T[x].workspace
  PROVE  /\ \A S : HeldBy(T, S) => HeldBy(U, S)
         /\ \A of : LiesOn(T, of) => LiesOn(U, of)
<1>1. \A w : TilesOf(U, w) = TilesOf(T, w)
  BY DEF TilesOf
<1>2. \A x \in DOMAIN T : IsTile(U, x) <=> IsTile(T, x)
  BY DEF IsTile
<1>3. ASSUME NEW S, HeldBy(T, S)  PROVE HeldBy(U, S)
  <2>1. \A x, y \in DOMAIN U : IsTile(U, x) /\ U[x].window = U[y].window => x = y
    BY <1>2, <1>3 DEF HeldBy
  <2> QED  BY <1>1, <1>3, <2>1 DEF HeldBy, HasTile
<1>4. ASSUME NEW of, LiesOn(T, of)  PROVE LiesOn(U, of)
  BY <1>2, <1>4 DEF LiesOn
<1> QED  BY <1>3, <1>4

LEMMA SplitSwappedForest ==
  ASSUME NEW T, IsForest(T), NEW w \in Windows, HasTile(T, w),
         T[TileOf(T, w)].parent # NoNode
  PROVE  /\ IsForest(SplitSwapped(T, w))
         /\ \A S : HeldBy(T, S) => HeldBy(SplitSwapped(T, w), S)
         /\ \A of : LiesOn(T, of) => LiesOn(SplitSwapped(T, w), of)
<1> DEFINE n == TileOf(T, w)
           p == T[n].parent
           U == SplitSwapped(T, w)
<1>1. n \in DOMAIN T /\ p # NoNode
  BY TileFound
<1>2. U = [x \in DOMAIN T |->
             IF x = p THEN Split(T[x].parent, T[x].second, T[x].first,
                                 T[x].workspace)
             ELSE T[x]]
  BY DEF SplitSwapped
<1>3. p \in DOMAIN T /\ ~IsTile(T, p)
  BY <1>1, Family
<1> HIDE DEF n, p, U
<1>4. /\ DOMAIN U = DOMAIN T /\ \A x \in DOMAIN T \ {p} : U[x] = T[x]
      /\ U[p] = Split(T[p].parent, T[p].second, T[p].first, T[p].workspace)
  BY <1>2, <1>3
<1>5. U \in [DOMAIN T -> Nodes]
  <2>1. T[p] \in Nodes /\ T \in [DOMAIN T -> Nodes]
    BY <1>3 DEF IsForest
  <2>2. Split(T[p].parent, T[p].second, T[p].first, T[p].workspace) \in Nodes
    BY <2>1 DEF Split, Nodes
  <2> QED  BY <1>2, <2>1, <2>2
<1>6. /\ U[p].parent = T[p].parent /\ U[p].first = T[p].second
      /\ U[p].second = T[p].first /\ U[p].workspace = T[p].workspace
      /\ U[p].window = T[p].window
  BY <1>3, <1>4 DEF Split, IsTile
<1>7. \A x \in DOMAIN T :
        /\ U[x].parent = T[x].parent /\ U[x].workspace = T[x].workspace
        /\ U[x].window = T[x].window
        /\ {U[x].first, U[x].second} = {T[x].first, T[x].second}
  BY <1>4, <1>6
<1>8. Grounded(U) /\ OneRoot(U)
  BY <1>4, <1>7, SameParents DEF IsForest
<1>9. Linked(U)
  <2> SUFFICES ASSUME NEW x \in DOMAIN T
               PROVE  /\ U[x].parent # NoNode =>
                           /\ U[x].parent \in DOMAIN T
                           /\ x \in {U[U[x].parent].first, U[U[x].parent].second}
                      /\ IF IsTile(U, x)
                         THEN U[x].first = NoNode /\ U[x].second = NoNode
                         ELSE /\ U[x].first \in DOMAIN T /\ U[x].second \in DOMAIN T
                              /\ U[x].first # U[x].second
                              /\ \A c \in {U[x].first, U[x].second} :
                                   U[c].parent = x /\ U[c].workspace = U[x].workspace
    BY <1>4 DEF Linked
  <2>1. U[x].parent # NoNode =>
          /\ U[x].parent \in DOMAIN T
          /\ x \in {U[U[x].parent].first, U[U[x].parent].second}
    BY <1>7 DEF IsForest, Linked
  <2>2. CASE IsTile(U, x)
    BY <1>4, <1>6, <1>7, <2>1, <2>2 DEF IsForest, Linked, IsTile
  <2>3. CASE ~IsTile(U, x)
    <3>1. ~IsTile(T, x)
      BY <1>7, <2>3 DEF IsTile
    <3>2. /\ T[x].first \in DOMAIN T /\ T[x].second \in DOMAIN T
          /\ T[x].first # T[x].second
          /\ T[T[x].first].parent = x /\ T[T[x].second].parent = x
          /\ T[T[x].first].workspace = T[x].workspace
          /\ T[T[x].second].workspace = T[x].workspace
      BY <3>1 DEF IsForest, Linked
    <3>3. /\ U[x].first \in DOMAIN T /\ U[x].second \in DOMAIN T
          /\ U[x].first # U[x].second
      BY <1>4, <1>6, <3>2
    <3> QED  BY <1>7, <2>1, <2>3, <3>2, <3>3
  <2> QED  BY <2>2, <2>3
<1>10. IsForest(U)
  BY <1>4, <1>5, <1>8, <1>9 DEF IsForest
<1>11. /\ \A S : HeldBy(T, S) => HeldBy(U, S)
       /\ \A of : LiesOn(T, of) => LiesOn(U, of)
  <2>1. \A x \in DOMAIN T : /\ U[x].window = T[x].window
                            /\ U[x].workspace = T[x].workspace
    BY <1>7
  <2> QED  BY <1>4, <2>1, SameTiles
<1> QED  BY <1>10, <1>11 DEF U

UpLinked(T, n) ==
  T[n].parent # NoNode =>
    /\ T[n].parent \in DOMAIN T
    /\ n \in {T[T[n].parent].first, T[T[n].parent].second}

DownLinked(T, n) ==
  IF IsTile(T, n)
  THEN T[n].first = NoNode /\ T[n].second = NoNode
  ELSE /\ T[n].first \in DOMAIN T /\ T[n].second \in DOMAIN T
       /\ T[n].first # T[n].second
       /\ T[T[n].first].parent = n /\ T[T[n].second].parent = n
       /\ T[T[n].first].workspace = T[n].workspace
       /\ T[T[n].second].workspace = T[n].workspace

LEMMA LinkedAtNodes ==
  ASSUME NEW T
  PROVE  Linked(T) <=> \A n \in DOMAIN T : UpLinked(T, n) /\ DownLinked(T, n)
BY DEF Linked, UpLinked, DownLinked

\* The tiles of U are where their windows are: those of T, which are of S,
\* where they were, and that of w on ws.
LiesWith(U, w, ws, T, S) ==
  \A of, of2 :
    /\ LiesOn(T, of) /\ of2[w] \in {ws, NoWorkspace}
    /\ \A x \in S : of2[x] = of[x]
    => LiesOn(U, of2)

\* m is a new node with the window w, and other new nodes are splits.
LEMMA NewTile ==
  ASSUME NEW T, NEW S, HeldBy(T, S), NEW w \in Windows \ S, NEW U, NEW m,
         DOMAIN T \in SUBSET DOMAIN U, m \in DOMAIN U \ DOMAIN T,
         U[m].window = w, NEW ws, U[m].workspace = ws,
         \A x \in DOMAIN T : U[x].window = T[x].window
                               /\ U[x].workspace = T[x].workspace,
         \A x \in DOMAIN U \ DOMAIN T : x # m => U[x].window = NoWindow,
         \A x \in DOMAIN T : T[x].window \in Windows \cup {NoWindow}
  PROVE  /\ HeldBy(U, S \cup {w})
         /\ LiesWith(U, w, ws, T, S)
<1>1. w # NoWindow /\ \A x \in DOMAIN T : T[x].window # w
  BY TreeAssumption DEF HeldBy, HasTile, TilesOf
<1>2. \A x, y \in DOMAIN U : IsTile(U, x) /\ U[x].window = U[y].window => x = y
  <2>1. \A x \in DOMAIN U : IsTile(U, x) => x = m \/ x \in DOMAIN T
    BY DEF IsTile
  <2> QED  BY <1>1, <2>1 DEF HeldBy, IsTile
<1>3. ASSUME NEW v \in Windows  PROVE v \in S \cup {w} <=> HasTile(U, v)
  <2>1. v \in S <=> \E x \in DOMAIN T : T[x].window = v
    BY DEF HeldBy, HasTile, TilesOf
  <2>2. HasTile(U, v) <=> \E x \in DOMAIN U : U[x].window = v
    BY DEF HasTile, TilesOf
  <2>3. v # NoWindow
    BY TreeAssumption
  <2> QED  BY <2>1, <2>2, <2>3
<1>4. ASSUME NEW of, NEW of2, LiesOn(T, of),
             of2[w] \in {ws, NoWorkspace},
             \A x \in S : of2[x] = of[x]
      PROVE  LiesOn(U, of2)
  <2> SUFFICES ASSUME NEW x \in DOMAIN U, IsTile(U, x)
               PROVE  of2[U[x].window] \in {U[x].workspace, NoWorkspace}
    BY DEF LiesOn
  <2>1. CASE x = m
    BY <1>4, <2>1
  <2>2. CASE x # m
    <3>1. x \in DOMAIN T /\ IsTile(T, x) /\ T[x].window \in Windows
      BY <2>2 DEF IsTile
    <3>2. T[x].window \in S
      BY <3>1 DEF HeldBy, HasTile, TilesOf
    <3> QED  BY <1>4, <3>1, <3>2 DEF LiesOn
  <2> QED  BY <2>1, <2>2
<1> QED  BY <1>2, <1>3, <1>4 DEF HeldBy, LiesWith

\* The first tile of a workspace.
LEMMA AsRootForest ==
  ASSUME NEW T, IsForest(T), NEW w \in Windows, NEW ws \in Workspaces,
         TilesOn(T, ws) = {}, NEW m \in NodeIds \ DOMAIN T
  PROVE  IsForest(AsRoot(T, w, ws, m))
<1> DEFINE U == AsRoot(T, w, ws, m)
<1>1. /\ DOMAIN U = DOMAIN T \cup {m} /\ U[m] = Tile(w, ws, NoNode)
      /\ \A x \in DOMAIN T : U[x] = T[x]
  BY DEF AsRoot
<1>2. U \in [DOMAIN U -> Nodes] /\ DOMAIN U \in SUBSET NodeIds
  <2>1. Tile(w, ws, NoNode) \in Nodes
    BY DEF Tile, Nodes
  <2>2. \A x \in DOMAIN T : T[x] \in Nodes
    BY DEF IsForest
  <2>3. U \in [DOMAIN T \cup {m} -> Nodes]
    BY <2>1, <2>2 DEF AsRoot
  <2> QED  BY <1>1, <2>3 DEF IsForest
<1> HIDE DEF U
<1>3. /\ U[m].parent = NoNode /\ U[m].first = NoNode /\ U[m].second = NoNode
      /\ U[m].window = w /\ U[m].workspace = ws /\ IsTile(U, m)
  BY <1>1, TreeAssumption DEF Tile, IsTile
<1>4. \A x \in DOMAIN T : T[x].workspace # ws
  BY TileBelow
<1>5. Linked(U)
  <2>1. ASSUME NEW x \in DOMAIN T  PROVE UpLinked(U, x) /\ DownLinked(U, x)
    <3>1. UpLinked(T, x) /\ DownLinked(T, x)
      BY LinkedAtNodes DEF IsForest
    <3> QED  BY <1>1, <3>1 DEF UpLinked, DownLinked, IsTile
  <2>2. UpLinked(U, m) /\ DownLinked(U, m)
    BY <1>3 DEF UpLinked, DownLinked
  <2> QED  BY <1>1, <2>1, <2>2, LinkedAtNodes
<1>6. Grounded(U)
  <2> SUFFICES ASSUME NEW S \in SUBSET DOMAIN U, S # {}, UpClosed(U, S)
               PROVE  \E r \in S : U[r].parent = NoNode
    BY DEF Grounded
  <2>1. CASE m \in S
    BY <1>3, <2>1
  <2>2. CASE m \notin S
    <3>1. S \in SUBSET DOMAIN T /\ UpClosed(T, S)
      BY <1>1, <2>2 DEF UpClosed
    <3> QED  BY <1>1, <3>1 DEF IsForest, Grounded
  <2> QED  BY <2>1, <2>2
<1>7. OneRoot(U)
  BY <1>1, <1>3, <1>4 DEF OneRoot, IsForest
<1> QED  BY <1>2, <1>5, <1>6, <1>7 DEF IsForest, U

\* A tile is split for a new one.
LEMMA BesideForest ==
  ASSUME NEW T, IsForest(T), NEW w \in Windows, NEW at \in DOMAIN T,
         IsTile(T, at), NEW m \in NodeIds \ DOMAIN T,
         NEW p \in NodeIds \ DOMAIN T, m # p, NEW inFront \in BOOLEAN
  PROVE  /\ IsForest(Beside(T, w, at, inFront, m, p))
         /\ \A x \in DOMAIN T :
              /\ Beside(T, w, at, inFront, m, p)[x].window = T[x].window
              /\ Beside(T, w, at, inFront, m, p)[x].workspace = T[x].workspace
<1> DEFINE U == Beside(T, w, at, inFront, m, p)
           g == T[at].parent
<1>1. /\ DOMAIN U = DOMAIN T \cup {m, p}
      /\ U[m] = Tile(w, T[at].workspace, p)
      /\ U[p] = IF inFront THEN Split(g, m, at, T[at].workspace)
                           ELSE Split(g, at, m, T[at].workspace)
      /\ U[at] = Below(T[at], p)
      /\ \A x \in DOMAIN T \ {at} :
           U[x] = IF x = g THEN Swapped(T[x], at, p) ELSE T[x]
  BY DEF Beside
<1>2. /\ T[at] \in Nodes /\ at \in NodeIds /\ m # NoNode /\ p # NoNode
      /\ at # NoNode /\ NoNode \notin DOMAIN T
      /\ \A x \in DOMAIN T : T[x] \in Nodes
  BY TreeAssumption DEF IsForest
<1>3. U \in [DOMAIN U -> Nodes] /\ DOMAIN U \in SUBSET NodeIds
  <2>1. U[m] \in Nodes /\ U[p] \in Nodes /\ U[at] \in Nodes
    BY <1>1, <1>2 DEF Tile, Split, Below, Nodes
  <2>2. ASSUME NEW x \in DOMAIN T \ {at}  PROVE U[x] \in Nodes
    <3>1. Swapped(T[x], at, p) \in Nodes
      BY <1>2 DEF Swapped, Nodes
    <3> QED  BY <1>1, <1>2, <3>1
  <2>3. U = [x \in DOMAIN U |-> U[x]]
    BY DEF Beside
  <2> QED  BY <1>1, <2>1, <2>2, <2>3 DEF IsForest
<1> HIDE DEF U
<1>4. /\ U[m].parent = p /\ U[m].first = NoNode /\ U[m].second = NoNode
      /\ U[m].window = w /\ U[m].workspace = T[at].workspace /\ IsTile(U, m)
  BY <1>1, TreeAssumption DEF Tile, IsTile
<1>5. /\ U[p].parent = g /\ U[p].window = NoWindow
      /\ U[p].workspace = T[at].workspace /\ {U[p].first, U[p].second} = {m, at}
      /\ U[p].first # U[p].second
  BY <1>1 DEF Split
<1>6. /\ U[at].parent = p /\ U[at].first = NoNode /\ U[at].second = NoNode
      /\ U[at].window = T[at].window /\ U[at].workspace = T[at].workspace
  <2>1. T[at].first = NoNode /\ T[at].second = NoNode
    BY DEF IsForest, Linked
  <2> QED  BY <1>1, <2>1 DEF Below
<1>7. g # NoNode => /\ g \in DOMAIN T \ {at} /\ ~IsTile(T, g)
                    /\ at \in {T[g].first, T[g].second}
                    /\ T[g].first # T[g].second
  <2> SUFFICES ASSUME g # NoNode
               PROVE  /\ g \in DOMAIN T \ {at} /\ ~IsTile(T, g)
                      /\ at \in {T[g].first, T[g].second}
                      /\ T[g].first # T[g].second
    OBVIOUS
  <2>1. g \in DOMAIN T \ {at} /\ ~IsTile(T, g) /\ at \in {T[g].first, T[g].second}
    BY Family DEF IsForest, Linked
  <2> QED  BY <2>1 DEF IsForest, Linked
<1>8. \A x \in DOMAIN T \ {at} :
        /\ U[x].parent = T[x].parent /\ U[x].window = T[x].window
        /\ U[x].workspace = T[x].workspace
        /\ x # g => U[x].first = T[x].first /\ U[x].second = T[x].second
  BY <1>1 DEF Swapped
<1>9. g # NoNode =>
        /\ T[g].first = at => U[g].first = p /\ U[g].second = T[g].second
        /\ T[g].second = at => U[g].second = p /\ U[g].first = T[g].first
  BY <1>1, <1>7 DEF Swapped
<1>10. Linked(U)
  <2>1. UpLinked(U, m) /\ DownLinked(U, m)
    BY <1>1, <1>4, <1>5 DEF UpLinked, DownLinked
  <2>2. UpLinked(U, at) /\ DownLinked(U, at)
    BY <1>1, <1>5, <1>6 DEF UpLinked, DownLinked, IsTile
  <2>3. UpLinked(U, p) /\ DownLinked(U, p)
    <3>1. UpLinked(U, p)
      BY <1>1, <1>5, <1>7, <1>9 DEF UpLinked
    <3>2. DownLinked(U, p)
      BY <1>1, <1>4, <1>5, <1>6 DEF DownLinked, IsTile
    <3> QED  BY <3>1, <3>2
  <2>4. ASSUME NEW x \in DOMAIN T \ {at}  PROVE UpLinked(U, x) /\ DownLinked(U, x)
    <3>1. UpLinked(T, x) /\ DownLinked(T, x)
      BY LinkedAtNodes DEF IsForest
    <3>2. UpLinked(U, x)
      <4>1. CASE T[x].parent = NoNode
        BY <1>8, <4>1 DEF UpLinked
      <4>2. CASE T[x].parent # NoNode
        <5>1. /\ U[x].parent = T[x].parent /\ T[x].parent \in DOMAIN T
              /\ x \in {T[T[x].parent].first, T[T[x].parent].second}
          BY <1>8, <3>1, <4>2 DEF UpLinked
        <5>2. T[x].parent # at
          BY <5>1, <1>2 DEF IsForest, Linked
        <5>3. x \in {U[T[x].parent].first, U[T[x].parent].second}
          BY <1>7, <1>8, <1>9, <4>2, <5>1, <5>2
        <5> QED  BY <1>1, <5>1, <5>3 DEF UpLinked
      <4> QED  BY <4>1, <4>2
    <3>3. CASE x = g
      <4>1. ~IsTile(U, x) /\ g # NoNode
        BY <1>2, <1>7, <1>8, <3>3 DEF IsTile
      <4>2. /\ T[g].first \in DOMAIN T /\ T[g].second \in DOMAIN T
            /\ T[T[g].first].parent = g /\ T[T[g].second].parent = g
            /\ T[T[g].first].workspace = T[g].workspace
            /\ T[T[g].second].workspace = T[g].workspace
        BY <1>7, <3>1, <3>3, <4>1 DEF DownLinked
      <4>3. CASE T[g].first = at
        BY <1>1, <1>5, <1>7, <1>8, <1>9, <3>2, <3>3, <4>1, <4>2, <4>3
           DEF DownLinked
      <4>4. CASE T[g].second = at
        BY <1>1, <1>5, <1>7, <1>8, <1>9, <3>2, <3>3, <4>1, <4>2, <4>4
           DEF DownLinked
      <4> QED  BY <1>7, <4>1, <4>3, <4>4
    <3>4. CASE x # g
      <4>1. IsTile(U, x) <=> IsTile(T, x)
        BY <1>8 DEF IsTile
      <4>2. CASE IsTile(T, x)
        BY <1>8, <3>1, <3>2, <3>4, <4>1, <4>2 DEF DownLinked
      <4>3. CASE ~IsTile(T, x)
        <5>1. /\ T[x].first \in DOMAIN T /\ T[x].second \in DOMAIN T
              /\ T[x].first # T[x].second
              /\ T[T[x].first].parent = x /\ T[T[x].second].parent = x
              /\ T[T[x].first].workspace = T[x].workspace
              /\ T[T[x].second].workspace = T[x].workspace
          BY <3>1, <4>3 DEF DownLinked
        <5>2. T[x].first # at /\ T[x].second # at
          BY <3>4, <5>1
        <5> QED  BY <1>1, <1>8, <3>2, <3>4, <4>1, <4>3, <5>1, <5>2 DEF DownLinked
      <4> QED  BY <4>2, <4>3
    <3> QED  BY <3>2, <3>3, <3>4
  <2> QED  BY <1>1, <2>1, <2>2, <2>3, <2>4, LinkedAtNodes
<1>11. Grounded(U)
  <2> SUFFICES ASSUME NEW S \in SUBSET DOMAIN U, S # {}, UpClosed(U, S)
               PROVE  \E r \in S : U[r].parent = NoNode
    BY DEF Grounded
  <2>2. CASE p \in S
    <3> DEFINE R == (S \ {m, p}) \cup {at}
    <3>1. R \in SUBSET DOMAIN T /\ R # {}
      BY <1>1
    <3>2. UpClosed(T, R)
      BY <1>1, <1>2, <1>5, <1>7, <1>8, <2>2, <3>1 DEF UpClosed, IsForest, Linked
    <3>3. PICK r \in R : T[r].parent = NoNode
      BY <3>1, <3>2 DEF IsForest, Grounded
    <3> QED  BY <1>5, <1>8, <2>2, <3>1, <3>3
  <2>3. CASE p \notin S
    <3>1. at \notin S /\ m \notin S
      BY <1>2, <1>4, <1>6, <2>3 DEF UpClosed
    <3>2. S \in SUBSET DOMAIN T /\ UpClosed(T, S)
      BY <1>1, <1>8, <2>3, <3>1 DEF UpClosed
    <3>3. PICK r \in S : T[r].parent = NoNode
      BY <3>2 DEF IsForest, Grounded
    <3> QED  BY <1>8, <3>1, <3>2, <3>3
  <2> QED  BY <2>2, <2>3
<1>12. OneRoot(U)
  BY <1>1, <1>2, <1>4, <1>5, <1>6, <1>8 DEF OneRoot, IsForest
<1>13. \A x \in DOMAIN T : /\ U[x].window = T[x].window
                           /\ U[x].workspace = T[x].workspace
  BY <1>6, <1>8
<1> QED  BY <1>3, <1>10, <1>11, <1>12, <1>13 DEF IsForest, U

\* A window without a tile gets one, however the cursor and the focus are.
LEMMA InsertedForest ==
  ASSUME NEW T, IsForest(T), NEW S, HeldBy(T, S), NEW w \in Windows \ S,
         NEW ws \in Workspaces, NEW U \in Inserted(T, w, ws)
  PROVE  /\ IsForest(U) /\ HeldBy(U, S \cup {w})
         /\ LiesWith(U, w, ws, T, S)
<1>1. \A x \in DOMAIN T : T[x].window # w /\ T[x].window \in Windows \cup {NoWindow}
  BY DEF HeldBy, HasTile, TilesOf, IsForest, Nodes
<1>2. \A x \in {n \in TilesOn(T, ws) : T[n].window # w} : x \in TilesOn(T, ws)
  OBVIOUS
<1>3. \A used : Fresh(used) \subseteq NodeIds \ used
  BY DEF Fresh
<1>4. CASE TilesOn(T, ws) = {}
  <2>1. PICK m \in Fresh(DOMAIN T) : U = AsRoot(T, w, ws, m)
    BY <1>4 DEF Inserted
  <2>2. m \in NodeIds \ DOMAIN T
    BY <1>3, <2>1
  <2>3. IsForest(U)
    BY <1>4, <2>1, <2>2, AsRootForest
  <2>4. /\ DOMAIN U = DOMAIN T \cup {m} /\ U[m] = Tile(w, ws, NoNode)
        /\ \A x \in DOMAIN T : U[x] = T[x]
    BY <2>1, <2>2 DEF AsRoot
  <2>5. U[m].window = w /\ U[m].workspace = ws
    BY <2>4 DEF Tile
  <2>6. /\ DOMAIN T \in SUBSET DOMAIN U /\ m \in DOMAIN U \ DOMAIN T
        /\ \A x \in DOMAIN U \ DOMAIN T : x # m => U[x].window = NoWindow
    BY <2>2, <2>4
  <2>7. /\ HeldBy(U, S \cup {w})
        /\ LiesWith(U, w, ws, T, S)
    <3>1. \A x \in DOMAIN T : /\ U[x].window = T[x].window
                              /\ U[x].workspace = T[x].workspace
      BY <2>4
    <3>2. \A x \in DOMAIN T : T[x].window \in Windows \cup {NoWindow}
      BY <1>1
    <3> QED  BY <2>5, <2>6, <3>1, <3>2, NewTile
  <2> QED  BY <2>3, <2>5, <2>7
<1>5. CASE TilesOn(T, ws) # {}
  <2>1. {n \in TilesOn(T, ws) : T[n].window # w} = TilesOn(T, ws)
    BY <1>1 DEF TilesOn
  <2>2. PICK m \in Fresh(DOMAIN T) :
          \E at \in TilesOn(T, ws), inFront \in BOOLEAN,
             p \in Fresh(DOMAIN T \cup {m}) : U = Beside(T, w, at, inFront, m, p)
    BY <1>5, <2>1 DEF Inserted
  <2>3. PICK at \in TilesOn(T, ws), inFront \in BOOLEAN,
             p \in Fresh(DOMAIN T \cup {m}) : U = Beside(T, w, at, inFront, m, p)
    BY <2>2
  <2>4. /\ m \in NodeIds \ DOMAIN T /\ p \in NodeIds \ DOMAIN T /\ m # p
        /\ at \in DOMAIN T /\ IsTile(T, at) /\ T[at].workspace = ws
    BY <1>3, <2>2, <2>3 DEF TilesOn
  <2>5. /\ IsForest(U)
        /\ \A x \in DOMAIN T : /\ U[x].window = T[x].window
                               /\ U[x].workspace = T[x].workspace
    BY <2>3, <2>4, BesideForest
  <2>6. /\ DOMAIN U = DOMAIN T \cup {m, p}
        /\ U[m] = Tile(w, ws, p)
        /\ \/ U[p] = Split(T[at].parent, m, at, ws)
           \/ U[p] = Split(T[at].parent, at, m, ws)
    BY <2>3, <2>4 DEF Beside
  <2>7. U[m].window = w /\ U[m].workspace = ws /\ U[p].window = NoWindow
    BY <2>6 DEF Tile, Split
  <2>8. /\ DOMAIN T \in SUBSET DOMAIN U /\ m \in DOMAIN U \ DOMAIN T
        /\ \A x \in DOMAIN U \ DOMAIN T : x # m => U[x].window = NoWindow
    BY <2>4, <2>6, <2>7
  <2>9. /\ HeldBy(U, S \cup {w})
        /\ LiesWith(U, w, ws, T, S)
    <3>1. \A x \in DOMAIN T : T[x].window \in Windows \cup {NoWindow}
      BY <1>1
    <3> QED  BY <2>5, <2>7, <2>8, <3>1, NewTile
  <2> QED  BY <2>5, <2>7, <2>9
<1> QED  BY <1>4, <1>5

\* A node is not below itself: its parent is none of its children.
LEMMA NoTurnBack ==
  ASSUME NEW T, IsForest(T), NEW n \in DOMAIN T, T[n].parent # NoNode
  PROVE  T[T[n].parent].parent # n
<1> SUFFICES ASSUME T[T[n].parent].parent = n  PROVE FALSE
  OBVIOUS
<1>1. T[n].parent \in DOMAIN T /\ n # NoNode
  BY Family, TreeAssumption DEF IsForest
<1>2. {n, T[n].parent} \in SUBSET DOMAIN T /\ UpClosed(T, {n, T[n].parent})
  BY <1>1 DEF UpClosed
<1> QED  BY <1>1, <1>2 DEF IsForest, Grounded

\* The only tile of a workspace goes.
LEMMA RootRemoved ==
  ASSUME NEW T, IsForest(T), NEW n \in DOMAIN T, IsTile(T, n),
         T[n].parent = NoNode
  PROVE  /\ IsForest(RemovedTile(T, n))
         /\ DOMAIN RemovedTile(T, n) = DOMAIN T \ {n}
         /\ \A x \in DOMAIN T \ {n} : RemovedTile(T, n)[x] = T[x]
<1> DEFINE U == RemovedTile(T, n)
<1>1. NoNode \notin DOMAIN T
  BY TreeAssumption DEF IsForest
<1>2. U = [x \in DOMAIN T \ {n, NoNode} |-> T[x]]
  BY DEF RemovedTile
<1>3. DOMAIN U = DOMAIN T \ {n} /\ \A x \in DOMAIN T \ {n} : U[x] = T[x]
  BY <1>1, <1>2
<1>4. U \in [DOMAIN U -> Nodes] /\ DOMAIN U \in SUBSET NodeIds
  BY <1>2, <1>3 DEF IsForest
<1> HIDE DEF U
<1>5. Linked(U)
  <2> SUFFICES ASSUME NEW x \in DOMAIN T \ {n}
               PROVE  UpLinked(U, x) /\ DownLinked(U, x)
    BY <1>3, LinkedAtNodes
  <2>1. UpLinked(T, x) /\ DownLinked(T, x) /\ DownLinked(T, n)
    BY LinkedAtNodes DEF IsForest
  <2>2. T[x].parent # n
    BY <1>1, <2>1 DEF UpLinked, DownLinked
  <2>3. UpLinked(U, x)
    BY <1>3, <2>1, <2>2 DEF UpLinked
  <2>4. DownLinked(U, x)
    <3>1. CASE IsTile(T, x)
      BY <1>3, <2>1, <3>1 DEF DownLinked, IsTile
    <3>2. CASE ~IsTile(T, x)
      <4>1. T[x].first # n /\ T[x].second # n
        BY <1>1, <2>1, <3>2 DEF DownLinked
      <4> QED  BY <1>3, <2>1, <3>2, <4>1 DEF DownLinked, IsTile
    <3> QED  BY <3>1, <3>2
  <2> QED  BY <2>3, <2>4
<1>6. Grounded(U)
  <2> SUFFICES ASSUME NEW S \in SUBSET DOMAIN U, S # {}, UpClosed(U, S)
               PROVE  \E r \in S : U[r].parent = NoNode
    BY DEF Grounded
  <2>1. S \in SUBSET DOMAIN T /\ UpClosed(T, S)
    BY <1>3 DEF UpClosed
  <2> QED  BY <1>3, <2>1 DEF IsForest, Grounded
<1>7. OneRoot(U)
  BY <1>3 DEF IsForest, OneRoot
<1> QED  BY <1>3, <1>4, <1>5, <1>6, <1>7 DEF IsForest, U

\* A tile goes, and its sibling takes the place of their parent.
LEMMA SiblingRaised ==
  ASSUME NEW T, IsForest(T), NEW n \in DOMAIN T, IsTile(T, n),
         T[n].parent # NoNode
  PROVE  /\ IsForest(RemovedTile(T, n)) /\ ~IsTile(T, T[n].parent)
         /\ DOMAIN RemovedTile(T, n) = DOMAIN T \ {n, T[n].parent}
         /\ \A x \in DOMAIN T \ {n, T[n].parent} :
              /\ RemovedTile(T, n)[x].window = T[x].window
              /\ RemovedTile(T, n)[x].workspace = T[x].workspace
<1> DEFINE p == T[n].parent
           s == Sibling(T, n)
           g == T[p].parent
           U == RemovedTile(T, n)
<1>1. /\ p \in DOMAIN T /\ ~IsTile(T, p) /\ p # n /\ s \in DOMAIN T
      /\ s # n /\ s # p /\ T[s].parent = p
      /\ {T[p].first, T[p].second} = {n, s}
      /\ NoNode \notin DOMAIN T /\ n # NoNode
  BY Family, TreeAssumption DEF IsForest
<1>2. T[s].workspace = T[p].workspace
  <2>1. s \in {T[p].first, T[p].second}
    BY <1>1
  <2> QED  BY <1>1, <2>1, Children
<1>3. g # NoNode => /\ g \in DOMAIN T \ {n, p, s} /\ ~IsTile(T, g)
                    /\ T[g].workspace = T[p].workspace
                    /\ p \in {T[g].first, T[g].second}
                    /\ T[g].first # T[g].second
  <2> SUFFICES ASSUME g # NoNode
               PROVE  /\ g \in DOMAIN T \ {n, p, s} /\ ~IsTile(T, g)
                      /\ T[g].workspace = T[p].workspace
                      /\ p \in {T[g].first, T[g].second}
                      /\ T[g].first # T[g].second
    OBVIOUS
  <2>1. /\ g \in DOMAIN T /\ ~IsTile(T, g) /\ g # p
        /\ T[g].workspace = T[p].workspace
        /\ p \in {T[g].first, T[g].second}
    BY <1>1, Family DEF IsForest, Linked
  <2>2. g # s
    BY <1>1, NoTurnBack
  <2>3. T[g].first # T[g].second
    BY <2>1 DEF IsForest, Linked
  <2> QED  BY <2>1, <2>2, <2>3
<1>4. U = [x \in DOMAIN T \ {n, p} |->
             IF x = s THEN Below(T[x], g)
             ELSE IF x = g THEN Swapped(T[x], p, s) ELSE T[x]]
  BY DEF RemovedTile
<1>20. p = T[n].parent /\ g = T[p].parent /\ U = RemovedTile(T, n)
  OBVIOUS
<1> HIDE DEF p, s, U
<1>5. /\ DOMAIN U = DOMAIN T \ {n, p} /\ U[s] = Below(T[s], g)
      /\ \A x \in DOMAIN T \ {n, p, s} : x # g => U[x] = T[x]
      /\ g \in DOMAIN T \ {n, p, s} => U[g] = Swapped(T[g], p, s)
  BY <1>1, <1>4
<1>6. U \in [DOMAIN U -> Nodes] /\ DOMAIN U \in SUBSET NodeIds
  <2>1. \A x \in DOMAIN T : T[x] \in Nodes /\ x \in NodeIds
    BY DEF IsForest
  <2>2. g \in NodeIds \cup {NoNode}
    BY <1>1, <2>1 DEF Nodes
  <2>3. \A x \in DOMAIN T : Below(T[x], g) \in Nodes /\ Swapped(T[x], p, s) \in Nodes
    BY <1>1, <2>1, <2>2 DEF Below, Swapped, Nodes
  <2> QED  BY <1>4, <2>1, <2>3
<1>7. /\ U[s].parent = g /\ U[s].first = T[s].first /\ U[s].second = T[s].second
      /\ U[s].window = T[s].window /\ U[s].workspace = T[s].workspace
  BY <1>5 DEF Below
<1>8. \A x \in DOMAIN T \ {n, p, s} :
        /\ U[x].parent = T[x].parent /\ U[x].window = T[x].window
        /\ U[x].workspace = T[x].workspace
        /\ x # g => U[x].first = T[x].first /\ U[x].second = T[x].second
  BY <1>5 DEF Swapped
<1>9. g # NoNode =>
        /\ T[g].first = p => U[g].first = s /\ U[g].second = T[g].second
        /\ T[g].second = p => U[g].second = s /\ U[g].first = T[g].first
  BY <1>3, <1>5 DEF Swapped
<1>10. \A x \in DOMAIN T \ {n, p, s} : T[x].parent # n /\ T[x].parent # p
  <2> SUFFICES ASSUME NEW x \in DOMAIN T \ {n, p, s}
               PROVE  T[x].parent # n /\ T[x].parent # p
    OBVIOUS
  <2>1. UpLinked(T, x) /\ DownLinked(T, n)
    BY LinkedAtNodes DEF IsForest
  <2> QED  BY <1>1, <2>1 DEF UpLinked, DownLinked
<1>11. Linked(U)
  <2> SUFFICES ASSUME NEW x \in DOMAIN T \ {n, p}
               PROVE  UpLinked(U, x) /\ DownLinked(U, x)
    BY <1>5, LinkedAtNodes
  <2>1. UpLinked(T, x) /\ DownLinked(T, x)
    BY LinkedAtNodes DEF IsForest
  <2>2. UpLinked(U, x)
    <3>1. CASE x = s
      BY <1>3, <1>5, <1>7, <1>9, <3>1 DEF UpLinked
    <3>2. CASE x # s /\ T[x].parent = NoNode
      BY <1>8, <3>2 DEF UpLinked
    <3>3. CASE x # s /\ T[x].parent # NoNode
      <4>1. /\ U[x].parent = T[x].parent /\ T[x].parent \in DOMAIN T \ {n, p}
            /\ x \in {T[T[x].parent].first, T[T[x].parent].second}
        BY <1>8, <1>10, <2>1, <3>3 DEF UpLinked
      <4>2. x \in {U[T[x].parent].first, U[T[x].parent].second}
        BY <1>3, <1>7, <1>8, <1>9, <3>3, <4>1
      <4> QED  BY <1>5, <4>1, <4>2 DEF UpLinked
    <3> QED  BY <3>1, <3>2, <3>3
  <2>3. DownLinked(U, x)
    <3>1. IsTile(U, x) <=> IsTile(T, x)
      BY <1>7, <1>8 DEF IsTile
    <3>2. CASE IsTile(T, x)
      <4>1. x = g => g # NoNode
        BY <1>1
      <4> QED  BY <1>3, <1>7, <1>8, <2>1, <3>1, <3>2, <4>1 DEF DownLinked
    <3>3. CASE ~IsTile(T, x)
      <4>1. /\ T[x].first \in DOMAIN T /\ T[x].second \in DOMAIN T
            /\ T[x].first # T[x].second
            /\ T[T[x].first].parent = x /\ T[T[x].second].parent = x
            /\ T[T[x].first].workspace = T[x].workspace
            /\ T[T[x].second].workspace = T[x].workspace
        BY <2>1, <3>3 DEF DownLinked
      <4>2. T[x].first \notin {n, s} /\ T[x].second \notin {n, s}
        BY <1>1, <1>20, <4>1
      <4>3. CASE x = g
        <5>1. g # NoNode /\ x # s
          BY <1>1, <1>3, <4>3
        <5>2. CASE T[g].first = p
          BY <1>1, <1>2, <1>3, <1>5, <1>7, <1>8, <1>9, <3>1, <3>3, <4>1, <4>2,
             <4>3, <5>1, <5>2 DEF DownLinked
        <5>3. CASE T[g].second = p
          BY <1>1, <1>2, <1>3, <1>5, <1>7, <1>8, <1>9, <3>1, <3>3, <4>1, <4>2,
             <4>3, <5>1, <5>3 DEF DownLinked
        <5> QED  BY <1>3, <5>1, <5>2, <5>3
      <4>4. CASE x # g
        <5>1. T[x].first # p /\ T[x].second # p
          BY <4>1, <4>4
        <5>2. U[x].first = T[x].first /\ U[x].second = T[x].second
              /\ U[x].workspace = T[x].workspace
          BY <1>7, <1>8, <4>4
        <5> QED  BY <1>5, <1>8, <3>1, <3>3, <4>1, <4>2, <5>1, <5>2 DEF DownLinked
      <4> QED  BY <4>3, <4>4
    <3> QED  BY <3>2, <3>3
  <2> QED  BY <2>2, <2>3
<1>12. Grounded(U)
  <2> SUFFICES ASSUME NEW S \in SUBSET DOMAIN U, S # {}, UpClosed(U, S)
               PROVE  \E r \in S : U[r].parent = NoNode
    BY DEF Grounded
  <2> DEFINE R == IF s \in S THEN S \cup {p} ELSE S
  <2>1. R \in SUBSET DOMAIN T /\ R # {}
    BY <1>1, <1>5
  <2>2. UpClosed(T, R)
    BY <1>1, <1>5, <1>7, <1>8, <2>1 DEF UpClosed
  <2>3. PICK r \in R : T[r].parent = NoNode
    BY <2>1, <2>2 DEF IsForest, Grounded
  <2>4. CASE r = p
    BY <1>5, <1>7, <2>3, <2>4
  <2>5. CASE r # p
    BY <1>1, <1>5, <1>8, <2>3, <2>5
  <2> QED  BY <2>4, <2>5
<1>13. OneRoot(U)
  <2> SUFFICES ASSUME NEW x \in DOMAIN U, NEW y \in DOMAIN U,
                      U[x].workspace = U[y].workspace,
                      U[x].parent = NoNode, U[y].parent = NoNode
               PROVE  x = y
    BY DEF OneRoot
  <2>1. \A z \in DOMAIN U : U[z].parent = NoNode =>
          IF z = s THEN T[p].parent = NoNode /\ T[p].workspace = U[z].workspace
                   ELSE T[z].parent = NoNode /\ T[z].workspace = U[z].workspace
    BY <1>2, <1>5, <1>7, <1>8
  <2> QED  BY <1>1, <1>5, <2>1 DEF IsForest, OneRoot
<1>14. \A x \in DOMAIN T \ {n, p} : /\ U[x].window = T[x].window
                                    /\ U[x].workspace = T[x].workspace
  BY <1>7, <1>8
<1> QED  BY <1>1, <1>20, <1>5, <1>6, <1>11, <1>12, <1>13, <1>14 DEF IsForest

\* The tile of a window goes, if it has one.
LEMMA RemovedForest ==
  ASSUME NEW T, IsForest(T), NEW S, HeldBy(T, S), NEW w \in Windows
  PROVE  /\ IsForest(Removed(T, w)) /\ HeldBy(Removed(T, w), S \ {w})
         /\ \A of : LiesOn(T, of) => LiesOn(Removed(T, w), of)
<1> DEFINE n == TileOf(T, w)
           U == Removed(T, w)
<1>1. CASE ~HasTile(T, w)
  <2>1. U = T /\ \A x \in Windows : x \in S \ {w} <=> x \in S
    BY <1>1 DEF Removed, HeldBy
  <2> QED  BY <2>1 DEF HeldBy
<1>2. CASE HasTile(T, w)
  <2>1. n \in DOMAIN T /\ T[n].window = w /\ IsTile(T, n) /\ U = RemovedTile(T, n)
    BY <1>2, TileFound DEF Removed
  <2> HIDE DEF n, U
  <2>2. PICK p :
          /\ IsForest(U) /\ DOMAIN U = DOMAIN T \ {n, p}
          /\ p \in DOMAIN T => ~IsTile(T, p) \/ p = n
          /\ \A x \in DOMAIN T \ {n, p} : /\ U[x].window = T[x].window
                                          /\ U[x].workspace = T[x].workspace
    <3>1. CASE T[n].parent = NoNode
      <4>1. /\ IsForest(U) /\ DOMAIN U = DOMAIN T \ {n, n}
            /\ \A x \in DOMAIN T \ {n, n} : U[x] = T[x]
        BY <2>1, <3>1, RootRemoved
      <4> QED  BY <4>1
    <3>2. CASE T[n].parent # NoNode
      <4>1. /\ IsForest(U) /\ ~IsTile(T, T[n].parent)
            /\ DOMAIN U = DOMAIN T \ {n, T[n].parent}
            /\ \A x \in DOMAIN T \ {n, T[n].parent} :
                 /\ U[x].window = T[x].window /\ U[x].workspace = T[x].workspace
        BY <2>1, <3>2, SiblingRaised
      <4> QED  BY <4>1
    <3> QED  BY <3>1, <3>2
  <2>3. \A x \in DOMAIN U : IsTile(U, x) <=> IsTile(T, x)
    BY <2>2 DEF IsTile
  <2>4. \A x, y \in DOMAIN U : IsTile(U, x) /\ U[x].window = U[y].window => x = y
    BY <2>2, <2>3 DEF HeldBy
  <2>5. ASSUME NEW v \in Windows  PROVE v \in S \ {w} <=> HasTile(U, v)
    <3>1. v # NoWindow
      BY TreeAssumption
    <3>2. v \in S <=> \E x \in DOMAIN T : T[x].window = v
      BY DEF HeldBy, HasTile, TilesOf
    <3>3. HasTile(U, v) <=> \E x \in DOMAIN U : U[x].window = v
      BY DEF HasTile, TilesOf
    <3>4. \A x \in DOMAIN T : T[x].window = w => x = n
      BY <2>1 DEF HeldBy
    <3> QED  BY <2>1, <2>2, <3>1, <3>2, <3>3, <3>4 DEF IsTile
  <2>6. ASSUME NEW of, LiesOn(T, of)  PROVE LiesOn(U, of)
    BY <2>2, <2>3, <2>6 DEF LiesOn
  <2> QED  BY <2>2, <2>4, <2>5, <2>6 DEF HeldBy, U
<1> QED  BY <1>1, <1>2

-----------------------------------------------------------------------------
(* The way from a node to the root.                                         *)

LEMMA AncestorsClosed ==
  ASSUME NEW T, IsForest(T), NEW n \in DOMAIN T
  PROVE  /\ Ancestors(T, n) \in SUBSET DOMAIN T /\ n \in Ancestors(T, n)
         /\ UpClosed(T, Ancestors(T, n))
         /\ \A S \in SUBSET DOMAIN T :
              UpClosed(T, S) /\ n \in S => Ancestors(T, n) \subseteq S
<1>1. UpClosed(T, DOMAIN T)
  BY DEF UpClosed, IsForest, Linked
<1>2. Ancestors(T, n) =
        {a \in DOMAIN T : \A S \in SUBSET DOMAIN T :
                            UpClosed(T, S) /\ n \in S => a \in S}
  BY DEF Ancestors, UpClosed
<1>3. ASSUME NEW a \in Ancestors(T, n), T[a].parent # NoNode
      PROVE  T[a].parent \in Ancestors(T, n)
  <2>1. T[a].parent \in DOMAIN T
    BY <1>1, <1>2, <1>3 DEF UpClosed
  <2>2. ASSUME NEW S \in SUBSET DOMAIN T, UpClosed(T, S), n \in S
        PROVE  T[a].parent \in S
    BY <1>2, <1>3, <2>2 DEF UpClosed
  <2> QED  BY <1>2, <2>1, <2>2
<1>4. UpClosed(T, Ancestors(T, n))
  BY <1>3 DEF UpClosed
<1> QED  BY <1>2, <1>4

LEMMA AncestorsAbove ==
  ASSUME NEW T, IsForest(T), NEW n \in DOMAIN T
  PROVE  /\ T[n].parent = NoNode => Ancestors(T, n) = {n}
         /\ T[n].parent # NoNode =>
              /\ Ancestors(T, T[n].parent) \subseteq Ancestors(T, n)
              /\ Ancestors(T, n) \subseteq {n} \cup Ancestors(T, T[n].parent)
<1>1. ASSUME T[n].parent = NoNode  PROVE Ancestors(T, n) = {n}
  <2>1. {n} \in SUBSET DOMAIN T /\ UpClosed(T, {n})
    BY <1>1 DEF UpClosed
  <2>2. n \in Ancestors(T, n) /\ Ancestors(T, n) \subseteq {n}
    BY <2>1, AncestorsClosed
  <2> QED  BY <2>2
<1>2. ASSUME T[n].parent # NoNode
      PROVE  /\ Ancestors(T, T[n].parent) \subseteq Ancestors(T, n)
             /\ Ancestors(T, n) \subseteq {n} \cup Ancestors(T, T[n].parent)
  <2> DEFINE q == T[n].parent
             A == Ancestors(T, n)
             B == Ancestors(T, q)
  <2>1. q \in DOMAIN T
    BY <1>2, Family
  <2>2. /\ A \in SUBSET DOMAIN T /\ n \in A /\ UpClosed(T, A)
        /\ \A S \in SUBSET DOMAIN T : UpClosed(T, S) /\ n \in S => A \subseteq S
    BY AncestorsClosed
  <2>3. /\ B \in SUBSET DOMAIN T /\ q \in B /\ UpClosed(T, B)
        /\ \A S \in SUBSET DOMAIN T : UpClosed(T, S) /\ q \in S => B \subseteq S
    BY <2>1, AncestorsClosed
  <2> HIDE DEF A, B
  <2>4. q \in A
    BY <1>2, <2>2 DEF UpClosed
  <2>5. {n} \cup B \in SUBSET DOMAIN T /\ UpClosed(T, {n} \cup B)
    BY <2>3 DEF UpClosed
  <2> QED  BY <2>2, <2>3, <2>4, <2>5 DEF A, B
<1> QED  BY <1>1, <1>2

\* The root above a node is on its workspace, and is no tile unless it is the
\* node itself; the way to the node goes through one of its children.
LEMMA RootFound ==
  ASSUME NEW T, IsForest(T), NEW n \in DOMAIN T
  PROVE  /\ RootAbove(T, n) \in Ancestors(T, n)
         /\ T[RootAbove(T, n)].parent = NoNode
         /\ \A x \in Ancestors(T, n) : T[x].workspace = T[n].workspace
<1>1. /\ Ancestors(T, n) \in SUBSET DOMAIN T /\ n \in Ancestors(T, n)
      /\ UpClosed(T, Ancestors(T, n))
  BY AncestorsClosed
<1>2. \E r \in Ancestors(T, n) : T[r].parent = NoNode
  BY <1>1 DEF IsForest, Grounded
<1>3. ASSUME NEW x \in Ancestors(T, n)  PROVE T[x].workspace = T[n].workspace
  <2> DEFINE S == {y \in DOMAIN T : T[y].workspace = T[n].workspace}
  <2>1. S \in SUBSET DOMAIN T /\ n \in S /\ UpClosed(T, S)
    BY Family DEF UpClosed
  <2>2. Ancestors(T, n) \subseteq S
    BY <2>1, AncestorsClosed
  <2> QED  BY <2>2
<1> QED  BY <1>2, <1>3 DEF RootAbove

LEMMA WayThroughChild ==
  ASSUME NEW T, IsForest(T), NEW n \in DOMAIN T, NEW r \in Ancestors(T, n),
         r # n
  PROVE  \E c \in Ancestors(T, n) : T[c].parent = r
<1> SUFFICES ASSUME \A c \in Ancestors(T, n) : T[c].parent # r  PROVE FALSE
  OBVIOUS
<1>1. /\ Ancestors(T, n) \in SUBSET DOMAIN T /\ n \in Ancestors(T, n)
      /\ UpClosed(T, Ancestors(T, n))
  BY AncestorsClosed
<1>2. /\ Ancestors(T, n) \ {r} \in SUBSET DOMAIN T /\ n \in Ancestors(T, n) \ {r}
      /\ UpClosed(T, Ancestors(T, n) \ {r})
  BY <1>1 DEF UpClosed
<1>3. Ancestors(T, n) \subseteq Ancestors(T, n) \ {r}
  BY <1>2, AncestorsClosed
<1> QED  BY <1>3

\* The way from a node to a root does not go through both of its children.
LEMMA OneWay ==
  ASSUME NEW T, IsForest(T), NEW n \in DOMAIN T, NEW r \in DOMAIN T,
         T[r].parent = NoNode, NEW a \in DOMAIN T, NEW b \in DOMAIN T, a # b,
         T[a].parent = r, T[b].parent = r, a \in Ancestors(T, n)
  PROVE  b \notin Ancestors(T, n)
<1> DEFINE W == {x \in DOMAIN T : a \in Ancestors(T, x) /\ b \in Ancestors(T, x)}
<1> SUFFICES ASSUME b \in Ancestors(T, n)  PROVE FALSE
  OBVIOUS
<1>1. r # NoNode /\ Ancestors(T, r) = {r} /\ a # r /\ b # r
  BY AncestorsAbove, TreeAssumption DEF IsForest
<1>2. Ancestors(T, a) \subseteq {a, r} /\ Ancestors(T, b) \subseteq {b, r}
  BY <1>1, AncestorsAbove
<1>3. UpClosed(T, W)
  <2> SUFFICES ASSUME NEW x \in W, T[x].parent # NoNode  PROVE T[x].parent \in W
    BY DEF UpClosed
  <2>1. T[x].parent \in DOMAIN T
    BY Family
  <2>2. Ancestors(T, x) \subseteq {x} \cup Ancestors(T, T[x].parent)
    BY AncestorsAbove
  <2>3. x # a /\ x # b
    BY <1>1, <1>2
  <2> QED  BY <2>1, <2>2, <2>3
<1>4. W \in SUBSET DOMAIN T /\ n \in W
  OBVIOUS
<1>5. PICK x \in W : T[x].parent = NoNode
  BY <1>3, <1>4 DEF IsForest, Grounded
<1>6. Ancestors(T, x) = {x}
  BY <1>5, AncestorsAbove
<1> QED  BY <1>5, <1>6

\* A tile and the other side of the tree change places.
LEMMA RootMovedForest ==
  ASSUME NEW T, IsForest(T), NEW w \in Windows, HasTile(T, w),
         T[TileOf(T, w)].parent # NoNode,
         T[T[TileOf(T, w)].parent].parent # NoNode, NEW stable \in BOOLEAN
  PROVE  /\ IsForest(RootMoved(T, w, stable))
         /\ \A S : HeldBy(T, S) => HeldBy(RootMoved(T, w, stable), S)
         /\ \A of : LiesOn(T, of) => LiesOn(RootMoved(T, w, stable), of)
<1> DEFINE n == TileOf(T, w)
           p == T[n].parent
           root == RootAbove(T, n)
           other == IF T[root].first \in Ancestors(T, n)
                    THEN T[root].second ELSE T[root].first
           exchanged == Swapped(T[root], other, n)
           U == RootMoved(T, w, stable)
<1>1. /\ n \in DOMAIN T /\ IsTile(T, n) /\ NoNode \notin DOMAIN T
      /\ \A x \in DOMAIN T : T[x] \in Nodes /\ x \in NodeIds
  BY TileFound, TreeAssumption DEF IsForest
<1>2. /\ p \in DOMAIN T /\ ~IsTile(T, p) /\ p # n /\ p # NoNode
      /\ T[p].workspace = T[n].workspace
      /\ n \in {T[p].first, T[p].second} /\ T[p].parent # NoNode
  <2> HIDE DEF n
  <2> QED  BY <1>1, Family DEF n
<1>3. /\ root \in Ancestors(T, n) /\ root \in DOMAIN T /\ T[root].parent = NoNode
      /\ T[root].workspace = T[n].workspace /\ root # n /\ root # p
      /\ n \in Ancestors(T, n) /\ p \in Ancestors(T, n)
  <2> HIDE DEF n
  <2>1. /\ Ancestors(T, n) \in SUBSET DOMAIN T /\ n \in Ancestors(T, n)
        /\ UpClosed(T, Ancestors(T, n))
    BY <1>1, AncestorsClosed
  <2>2. /\ root \in Ancestors(T, n) /\ T[root].parent = NoNode
        /\ T[root].workspace = T[n].workspace
    BY <1>1, RootFound
  <2> QED  BY <1>2, <2>1, <2>2 DEF UpClosed
<1>4. \E c \in Ancestors(T, n) \cap DOMAIN T : T[c].parent = root
  <2> HIDE DEF n, root
  <2> QED  BY <1>1, <1>3, WayThroughChild, AncestorsClosed
<1>5. U = [x \in DOMAIN T |->
             IF x = p THEN Swapped(T[x], n, other)
             ELSE IF x = root
                  THEN IF stable
                       THEN Split(exchanged.parent, exchanged.second,
                                  exchanged.first, exchanged.workspace)
                       ELSE exchanged
             ELSE IF x = n THEN Below(T[x], root)
             ELSE IF x = other THEN Below(T[x], p)
             ELSE T[x]]
  BY DEF RootMoved
<1>6. PICK c \in DOMAIN T : /\ c \in Ancestors(T, n) /\ T[c].parent = root
  BY <1>4
<1>7. p = T[n].parent /\ U = RootMoved(T, w, stable)
  OBVIOUS
<1> HIDE DEF n, p, root, U
<1>8. /\ ~IsTile(T, root) /\ T[root].first \in DOMAIN T
      /\ T[root].second \in DOMAIN T /\ T[root].first # T[root].second
      /\ T[T[root].first].parent = root /\ T[T[root].second].parent = root
      /\ c \in {T[root].first, T[root].second}
  <2>1. UpLinked(T, c) /\ DownLinked(T, root)
    BY <1>3, LinkedAtNodes DEF IsForest
  <2> QED  BY <1>1, <1>3, <1>6, <2>1 DEF UpLinked, DownLinked
<1>9. /\ other \in DOMAIN T /\ other \notin Ancestors(T, n)
      /\ T[other].parent = root /\ c # other
      /\ {T[root].first, T[root].second} = {c, other}
  <2>1. T[root].first \in Ancestors(T, n) => T[root].second \notin Ancestors(T, n)
    BY <1>1, <1>3, <1>8, OneWay
  <2>2. other \notin Ancestors(T, n)
    BY <1>6, <1>8, <2>1
  <2> QED  BY <1>6, <1>8, <2>2
<1> DEFINE oth == other
<1>10. oth = other
  OBVIOUS
<1> HIDE DEF oth
<1>11. /\ oth \in DOMAIN T /\ oth \notin {n, p, root, c} /\ T[oth].parent = root
       /\ {T[root].first, T[root].second} = {c, oth}
       /\ oth \notin Ancestors(T, n) /\ c \notin {n, root}
       /\ T[oth].workspace = T[n].workspace
  <2>1. T[oth].workspace = T[root].workspace
    BY <1>3, <1>9, <1>10, Children
  <2> QED  BY <1>1, <1>2, <1>3, <1>6, <1>7, <1>9, <1>10, <2>1
<1>12. /\ DOMAIN U = DOMAIN T /\ U[p] = Swapped(T[p], n, oth)
       /\ U[n] = Below(T[n], root) /\ U[oth] = Below(T[oth], p)
       /\ \A x \in DOMAIN T \ {n, p, root, oth} : U[x] = T[x]
  BY <1>1, <1>2, <1>3, <1>5, <1>10, <1>11
<1>13. U[root] = IF stable
                 THEN Split(exchanged.parent, exchanged.second,
                            exchanged.first, exchanged.workspace)
                 ELSE exchanged
  BY <1>3, <1>5
<1>14. /\ U[p].parent = T[p].parent /\ U[p].window = T[p].window
       /\ U[p].workspace = T[p].workspace
       /\ T[p].first = n => U[p].first = oth /\ U[p].second = T[p].second
       /\ T[p].second = n => U[p].second = oth /\ U[p].first = T[p].first
  <2>1. T[p].first # T[p].second
    BY <1>2 DEF IsForest, Linked
  <2> QED  BY <1>12, <2>1 DEF Swapped
<1>15. /\ U[root].parent = NoNode /\ U[root].window = T[root].window
       /\ U[root].workspace = T[root].workspace
       /\ {U[root].first, U[root].second} = {c, n}
       /\ U[root].first # U[root].second
  <2> DEFINE e == Swapped(T[root], oth, n)
  <2>1. /\ e.parent = NoNode /\ e.window = T[root].window
        /\ e.workspace = T[root].workspace
        /\ {e.first, e.second} = {c, n} /\ e.first # e.second
    <3>1. {T[root].first, T[root].second} = {c, oth} /\ c # n /\ c # oth /\ n # oth
      BY <1>11, <1>1, <1>2, <1>7, <1>6
    <3> QED  BY <1>3, <1>8, <3>1 DEF Swapped
  <2>2. U[root] = IF stable THEN Split(e.parent, e.second, e.first, e.workspace)
                  ELSE e
    BY <1>10, <1>13
  <2> HIDE DEF e
  <2>3. T[root].window = NoWindow
    BY <1>8 DEF IsTile
  <2> QED  BY <2>1, <2>2, <2>3 DEF Split
<1>16. /\ U[n].parent = root /\ U[n].first = T[n].first
       /\ U[n].second = T[n].second /\ U[n].window = T[n].window
       /\ U[n].workspace = T[n].workspace
       /\ U[oth].parent = p /\ U[oth].first = T[oth].first
       /\ U[oth].second = T[oth].second /\ U[oth].window = T[oth].window
       /\ U[oth].workspace = T[oth].workspace
  BY <1>12 DEF Below
<1> HIDE DEF exchanged, other
<1>17. \A x \in DOMAIN T : /\ U[x].window = T[x].window
                           /\ U[x].workspace = T[x].workspace
                           /\ IsTile(U, x) <=> IsTile(T, x)
  BY <1>12, <1>14, <1>15, <1>16 DEF IsTile
<1>18. \A x \in DOMAIN T \ {n, oth} : U[x].parent = T[x].parent
  BY <1>3, <1>12, <1>14, <1>15
<1>19. \A x \in DOMAIN T \ {p, root} :
         U[x].first = T[x].first /\ U[x].second = T[x].second
  BY <1>12, <1>16
<1>20. U \in [DOMAIN T -> Nodes]
  <2>1. \A x \in DOMAIN T : U[x] \in Nodes
    <3>1. U[n] \in Nodes /\ U[p] \in Nodes /\ U[oth] \in Nodes
      BY <1>1, <1>2, <1>3, <1>11, <1>12 DEF Below, Swapped, Nodes
    <3>2. U[root] \in Nodes
      <4> DEFINE e == Swapped(T[root], oth, n)
      <4>1. e \in Nodes
        BY <1>1, <1>3 DEF Swapped, Nodes
      <4>2. U[root] = IF stable THEN Split(e.parent, e.second, e.first, e.workspace)
                      ELSE e
        BY <1>10, <1>13 DEF exchanged
      <4> HIDE DEF e
      <4>3. Split(e.parent, e.second, e.first, e.workspace) \in Nodes
        BY <4>1 DEF Split, Nodes
      <4> QED  BY <4>1, <4>2, <4>3
    <3> QED  BY <1>1, <1>12, <3>1, <3>2
  <2>2. U = [x \in DOMAIN T |-> U[x]]
    BY <1>5
  <2> QED  BY <2>1, <2>2
<1>21. Linked(U)
  <2> SUFFICES ASSUME NEW x \in DOMAIN T
               PROVE  UpLinked(U, x) /\ DownLinked(U, x)
    BY <1>12, LinkedAtNodes
  <2>1. /\ UpLinked(T, x) /\ DownLinked(T, x) /\ DownLinked(T, p)
        /\ DownLinked(T, n)
    BY <1>1, <1>2, LinkedAtNodes DEF IsForest
  <2>2. UpLinked(U, x)
    <3>1. CASE x = n
      BY <1>3, <1>12, <1>15, <1>16, <3>1 DEF UpLinked
    <3>2. CASE x = oth
      BY <1>2, <1>12, <1>14, <1>16, <3>2 DEF UpLinked
    <3>3. CASE x \notin {n, oth} /\ T[x].parent = NoNode
      BY <1>18, <3>3 DEF UpLinked
    <3>4. CASE x \notin {n, oth} /\ T[x].parent # NoNode
      <4>1. /\ U[x].parent = T[x].parent /\ T[x].parent \in DOMAIN T
            /\ x \in {T[T[x].parent].first, T[T[x].parent].second}
        BY <1>18, <2>1, <3>4 DEF UpLinked
      <4>2. x \in {U[T[x].parent].first, U[T[x].parent].second}
        BY <1>2, <1>11, <1>14, <1>15, <1>19, <3>4, <4>1
      <4> QED  BY <1>12, <4>1, <4>2 DEF UpLinked
    <3> QED  BY <3>1, <3>2, <3>3, <3>4
  <2>3. DownLinked(U, x)
    <3>1. CASE IsTile(T, x)
      BY <1>2, <1>8, <1>17, <1>19, <2>1, <3>1 DEF DownLinked
    <3>2. CASE x = root
      <4>1. U[c].parent = root /\ U[n].parent = root
        BY <1>6, <1>11, <1>16, <1>18
      <4>2. U[c].workspace = U[root].workspace /\ U[n].workspace = U[root].workspace
        <5>1. T[c].workspace = T[root].workspace
          BY <1>3, <1>6, <1>11, Children
        <5> QED  BY <1>1, <1>3, <1>6, <1>17, <5>1
      <4>3. ~IsTile(U, root)
        BY <1>3, <1>8, <1>17
      <4>4. \A y \in {U[root].first, U[root].second} :
              y \in DOMAIN T /\ U[y].parent = root /\ U[y].workspace = U[root].workspace
        BY <1>1, <1>6, <1>15, <4>1, <4>2
      <4> QED  BY <1>12, <1>15, <3>2, <4>3, <4>4 DEF DownLinked
    <3>3. CASE x = p
      <4>1. /\ T[p].first \in DOMAIN T /\ T[p].second \in DOMAIN T
            /\ T[p].first # T[p].second
            /\ T[T[p].first].parent = p /\ T[T[p].second].parent = p
            /\ T[T[p].first].workspace = T[p].workspace
            /\ T[T[p].second].workspace = T[p].workspace
        BY <1>2, <2>1 DEF DownLinked
      <4>2. T[p].first # oth /\ T[p].second # oth
        BY <1>3, <1>11, <4>1
      <4>3. ~IsTile(U, p) /\ U[oth].workspace = U[p].workspace /\ U[oth].parent = p
        BY <1>2, <1>11, <1>16, <1>17
      <4>4. CASE T[p].first = n
        BY <1>11, <1>12, <1>14, <1>17, <1>18, <3>3, <4>1, <4>2, <4>3, <4>4
           DEF DownLinked
      <4>5. CASE T[p].second = n
        BY <1>11, <1>12, <1>14, <1>17, <1>18, <3>3, <4>1, <4>2, <4>3, <4>5
           DEF DownLinked
      <4> QED  BY <1>2, <4>4, <4>5
    <3>4. CASE ~IsTile(T, x) /\ x \notin {p, root}
      <4>1. /\ T[x].first \in DOMAIN T /\ T[x].second \in DOMAIN T
            /\ T[x].first # T[x].second
            /\ T[T[x].first].parent = x /\ T[T[x].second].parent = x
            /\ T[T[x].first].workspace = T[x].workspace
            /\ T[T[x].second].workspace = T[x].workspace
        BY <2>1, <3>4 DEF DownLinked
      <4>2. T[x].first \notin {n, oth} /\ T[x].second \notin {n, oth}
        BY <1>7, <1>11, <3>4, <4>1
      <4> QED  BY <1>12, <1>17, <1>18, <1>19, <3>4, <4>1, <4>2 DEF DownLinked
    <3> QED  BY <3>1, <3>2, <3>3, <3>4
  <2> QED  BY <2>2, <2>3
<1>22. Grounded(U)
  <2> SUFFICES ASSUME NEW S \in SUBSET DOMAIN T, S # {}, UpClosed(U, S),
                      root \notin S
               PROVE  \E r \in S : U[r].parent = NoNode
    BY <1>12, <1>15 DEF Grounded
  <2>1. n \notin S
    BY <1>1, <1>3, <1>16 DEF UpClosed
  <2>2. CASE oth \notin S
    <3>1. UpClosed(T, S)
      BY <1>18, <2>1, <2>2 DEF UpClosed
    <3>2. PICK r \in S : T[r].parent = NoNode
      BY <3>1 DEF IsForest, Grounded
    <3> QED  BY <1>18, <2>1, <2>2, <3>2
  <2>3. CASE oth \in S
    <3> DEFINE R == S \cap Ancestors(T, p)
    <3>1. p \in S
      BY <1>2, <1>16, <2>3 DEF UpClosed
    <3>2. /\ Ancestors(T, p) \in SUBSET DOMAIN T /\ p \in Ancestors(T, p)
          /\ UpClosed(T, Ancestors(T, p))
      BY <1>2, AncestorsClosed
    <3>3. oth \notin Ancestors(T, p)
      BY <1>1, <1>2, <1>7, <1>11, AncestorsAbove
    <3>4. R \in SUBSET DOMAIN T /\ R # {} /\ UpClosed(T, R)
      BY <1>18, <2>1, <3>1, <3>2, <3>3 DEF UpClosed
    <3>5. PICK r \in R : T[r].parent = NoNode
      BY <3>4 DEF IsForest, Grounded
    <3> QED  BY <1>18, <2>1, <3>3, <3>4, <3>5
  <2> QED  BY <2>2, <2>3
<1>23. OneRoot(U)
  <2>1. root # NoNode /\ \A x \in DOMAIN T : U[x].parent = NoNode => T[x].parent = NoNode
    BY <1>1, <1>2, <1>3, <1>16, <1>18
  <2> QED  BY <1>12, <1>17, <2>1 DEF IsForest, OneRoot
<1>24. IsForest(U)
  BY <1>12, <1>20, <1>21, <1>22, <1>23 DEF IsForest
<1>25. /\ \A S : HeldBy(T, S) => HeldBy(U, S)
       /\ \A of : LiesOn(T, of) => LiesOn(U, of)
  BY <1>12, <1>17, SameTiles
<1> QED  BY <1>7, <1>24, <1>25

-----------------------------------------------------------------------------
(* One tile after the other.                                                *)

LEMMA LeastNumber ==
  ASSUME NEW B \in SUBSET Nat, B # {}
  PROVE  \E k \in B : \A j \in B : k <= j
<1> DEFINE X == {0..k : k \in B}
<1>1. X \subseteq FiniteSubsetsOf(Nat) /\ X # {}
  <2>1. ASSUME NEW k \in B  PROVE IsFiniteSet(0..k) /\ 0..k \in SUBSET Nat
    <3>1. 0 \in Int /\ k \in Int
      OBVIOUS
    <3> QED  BY <3>1, FS_Interval
  <2> QED  BY <2>1 DEF FiniteSubsetsOf
<1>2. IsWellFoundedOn(StrictSubsetOrdering(Nat), FiniteSubsetsOf(Nat))
  BY FS_StrictSubsetOrderingWellFounded
<1> HIDE DEF X
<1>3. PICK x \in X : \A y \in X : <<y, x>> \notin StrictSubsetOrdering(Nat)
  BY <1>1, <1>2, WFMin
<1>4. PICK k \in B : x = 0..k
  BY DEF X
<1>5. ASSUME NEW j \in B, j < k  PROVE FALSE
  <2>1. 0..j \in X
    BY DEF X
  <2>2. 0..j \subseteq 0..k /\ 0..j # 0..k /\ 0..k \in SUBSET Nat /\ 0..j \in SUBSET Nat
    <3>1. k \in 0..k /\ k \notin 0..j
      BY <1>5
    <3> QED  BY <1>5, <3>1
  <2>3. <<0..j, x>> \in StrictSubsetOrdering(Nat)
    BY <1>4, <2>2 DEF StrictSubsetOrdering
  <2> QED  BY <1>3, <2>1, <2>3
<1>6. \A j \in B : k <= j
  BY <1>5
<1> QED  BY <1>6

\* Induction, for a set of numbers.
LEMMA CountingUp ==
  ASSUME NEW N \in Nat, NEW P, 0 \in P, \A k \in 0..N : k \in P /\ k < N => k + 1 \in P
  PROVE  0..N \subseteq P
<1> DEFINE B == (0..N) \ P
<1> SUFFICES ASSUME B # {}  PROVE FALSE
  OBVIOUS
<1>1. B \in SUBSET Nat
  OBVIOUS
<1> HIDE DEF B
<1>2. PICK k \in B : \A j \in B : k <= j
  BY <1>1, LeastNumber
<1>3. k \in 0..N /\ k \notin P
  BY DEF B
<1>4. k - 1 \in 0..N /\ k - 1 < N /\ k - 1 \notin B
  BY <1>1, <1>2, <1>3
<1> QED  BY <1>3, <1>4 DEF B

After(s, of) ==
  UNION {{[forest |-> U, left |-> s.left \ {w}] :
            U \in Inserted(s.forest, w, of[w])} : w \in s.left}

Afters(X, of) == UNION {After(s, of) : s \in X}

\* The function that AllInserted is defined with exists.
LEMMA StagesExist ==
  ASSUME NEW N \in Nat, NEW base, NEW of
  PROVE  \E g : g = [k \in 0..N |-> IF k = 0 THEN base ELSE Afters(g[k - 1], of)]
<1> DEFINE P == {k \in 0..N : \E g : /\ DOMAIN g = 0..k /\ g[0] = base
                                     /\ \A i \in 1..k : g[i] = Afters(g[i - 1], of)}
<1>1. 0 \in P
  <2> DEFINE g == [i \in 0..0 |-> base]
  <2>1. DOMAIN g = 0..0 /\ g[0] = base /\ \A i \in 1..0 : g[i] = Afters(g[i - 1], of)
    OBVIOUS
  <2> HIDE DEF g
  <2> QED  BY <2>1
<1>2. ASSUME NEW k \in 0..N, k \in P, k < N  PROVE k + 1 \in P
  <2>1. PICK g : /\ DOMAIN g = 0..k /\ g[0] = base
                 /\ \A i \in 1..k : g[i] = Afters(g[i - 1], of)
    BY <1>2
  <2> DEFINE h == [i \in 0..(k + 1) |-> IF i = k + 1 THEN Afters(g[k], of) ELSE g[i]]
  <2>2. DOMAIN h = 0..(k + 1) /\ h[0] = base
    BY <2>1
  <2>3. ASSUME NEW i \in 1..(k + 1)  PROVE h[i] = Afters(h[i - 1], of)
    <3>1. i \in 0..(k + 1) /\ i - 1 \in 0..(k + 1) /\ i - 1 # k + 1
      OBVIOUS
    <3>2. h[i - 1] = g[i - 1]
      BY <3>1
    <3>3. CASE i = k + 1
      BY <3>1, <3>2, <3>3
    <3>4. CASE i # k + 1
      <4>1. h[i] = g[i] /\ i \in 1..k
        BY <3>1, <3>4
      <4> QED  BY <2>1, <3>2, <4>1
    <3> QED  BY <3>3, <3>4
  <2> HIDE DEF h
  <2>4. k + 1 \in 0..N
    BY <1>2
  <2> QED  BY <2>2, <2>3, <2>4
<1> HIDE DEF P
<1>3. 0..N \subseteq P
  BY <1>1, <1>2, CountingUp
<1>4. PICK g : /\ DOMAIN g = 0..N /\ g[0] = base
               /\ \A i \in 1..N : g[i] = Afters(g[i - 1], of)
  <2>1. N \in P
    BY <1>3
  <2> QED  BY <2>1 DEF P
<1> DEFINE h == [k \in 0..N |-> IF k = 0 THEN base ELSE Afters(g[k - 1], of)]
           f == [k \in 0..N |-> g[k]]
<1>5. f = h
  BY <1>4
<1>6. h = [k \in 0..N |-> IF k = 0 THEN base ELSE Afters(f[k - 1], of)]
  OBVIOUS
<1>7. f = [k \in 0..N |-> IF k = 0 THEN base ELSE Afters(f[k - 1], of)]
  BY <1>5, <1>6
<1> HIDE DEF f
<1> QED  BY <1>7

LEMMA AllInsertedForest ==
  ASSUME NEW T, IsForest(T), NEW S \in SUBSET Windows, HeldBy(T, S),
         NEW tiled \in SUBSET Windows, tiled \cap S = {},
         NEW of, \A w \in tiled : of[w] \in Workspaces,
         NEW of2, \A w \in tiled : of2[w] = of[w],
         NEW U \in AllInserted(T, tiled, of)
  PROVE  /\ IsForest(U) /\ HeldBy(U, S \cup tiled)
         /\ LiesOn(T, of2) => LiesOn(U, of2)
<1> DEFINE N == Cardinality(tiled)
           base == {[forest |-> T, left |-> tiled]}
           stage == CHOOSE g : g = [k \in 0..N |-> IF k = 0 THEN base
                                                  ELSE Afters(g[k - 1], of)]
<1>1. N \in Nat /\ IsFiniteSet(tiled)
  BY TreeAssumption, FS_Subset, FS_CardinalityType
<1>2. U \in {s.forest : s \in stage[N]}
  BY DEF AllInserted, Afters, After
<1>3. stage = [k \in 0..N |-> IF k = 0 THEN base ELSE Afters(stage[k - 1], of)]
  <2> HIDE DEF N, base
  <2> QED  BY <1>1, StagesExist
<1> HIDE DEF N, stage
<1>4. /\ stage[0] = base
      /\ \A k \in 0..N : k < N => stage[k + 1] = Afters(stage[k], of)
  <2>1. \A k \in 0..N : stage[k] = IF k = 0 THEN base ELSE Afters(stage[k - 1], of)
    BY <1>3
  <2>2. ASSUME NEW k \in 0..N, k < N  PROVE stage[k + 1] = Afters(stage[k], of)
    <3>1. k + 1 \in 0..N /\ k + 1 # 0 /\ (k + 1) - 1 = k
      BY <1>1, <2>2
    <3> QED  BY <2>1, <3>1
  <2> QED  BY <1>1, <2>1, <2>2
<1> DEFINE Good(s, k) ==
             /\ s.left \in SUBSET tiled /\ Cardinality(s.left) = N - k
             /\ IsForest(s.forest) /\ HeldBy(s.forest, S \cup (tiled \ s.left))
             /\ LiesOn(T, of2) => LiesOn(s.forest, of2)
           P == {k \in 0..N : \A s \in stage[k] : Good(s, k)}
<1>5. 0 \in P
  <2>1. S \cup (tiled \ tiled) = S
    OBVIOUS
  <2> DEFINE b == [forest |-> T, left |-> tiled]
  <2>2. b.forest = T /\ b.left = tiled
    OBVIOUS
  <2>3. stage[0] = {b}
    BY <1>4
  <2> HIDE DEF b
  <2>4. Cardinality(tiled) = N - 0
    BY <1>1 DEF N
  <2>5. Good(b, 0)
    BY <2>1, <2>2, <2>4
  <2> HIDE DEF Good
  <2> QED  BY <1>1, <2>3, <2>5
<1>6. ASSUME NEW k \in 0..N, k \in P, k < N  PROVE k + 1 \in P
  <2> SUFFICES ASSUME NEW r \in stage[k + 1]  PROVE Good(r, k + 1)
    <3> HIDE DEF Good
    <3>1. k + 1 \in 0..N
      BY <1>1, <1>6
    <3> QED  BY <3>1
  <2>1. PICK s \in stage[k] : r \in After(s, of)
    BY <1>4, <1>6 DEF Afters
  <2>2. PICK w \in s.left :
          r \in {[forest |-> V, left |-> s.left \ {w}] :
                  V \in Inserted(s.forest, w, of[w])}
    BY <2>1 DEF After
  <2>3. PICK V \in Inserted(s.forest, w, of[w]) :
          r = [forest |-> V, left |-> s.left \ {w}]
    BY <2>2
  <2>4. /\ s.left \in SUBSET tiled /\ Cardinality(s.left) = N - k
        /\ IsForest(s.forest) /\ HeldBy(s.forest, S \cup (tiled \ s.left))
        /\ LiesOn(T, of2) => LiesOn(s.forest, of2)
    BY <1>6
  <2>5. /\ w \in Windows \ (S \cup (tiled \ s.left))
        /\ of[w] \in Workspaces /\ of2[w] = of[w]
    BY <2>4
  <2>6. /\ IsForest(V) /\ HeldBy(V, (S \cup (tiled \ s.left)) \cup {w})
        /\ LiesOn(s.forest, of2) => LiesOn(V, of2)
    <3> DEFINE held == S \cup (tiled \ s.left)
               F == s.forest
    <3>1. /\ IsForest(F) /\ HeldBy(F, held) /\ w \in Windows \ held
          /\ V \in Inserted(F, w, of[w])
      BY <2>4, <2>5
    <3> HIDE DEF held, F
    <3>2. /\ IsForest(V) /\ HeldBy(V, held \cup {w})
          /\ LiesWith(V, w, of[w], F, held)
      BY <2>5, <3>1, InsertedForest
    <3>3. \A of3 : LiesOn(F, of3) /\ of3[w] \in {of[w], NoWorkspace}
                     => LiesOn(V, of3)
      BY <3>2 DEF LiesWith
    <3>4. of2[w] \in {of[w], NoWorkspace}
      BY <2>5
    <3>5. LiesOn(F, of2) => LiesOn(V, of2)
      BY <3>3, <3>4
    <3> QED  BY <3>2, <3>5 DEF held, F
  <2>7. (S \cup (tiled \ s.left)) \cup {w} = S \cup (tiled \ (s.left \ {w}))
    BY <2>4
  <2>8. Cardinality(s.left \ {w}) = N - (k + 1)
    <3>1. IsFiniteSet(s.left)
      BY <1>1, <2>4, FS_Subset
    <3>2. Cardinality(s.left \ {w}) = Cardinality(s.left) - 1
      BY <3>1, FS_RemoveElement
    <3> QED  BY <1>1, <2>4, <3>2
  <2>9. r.forest = V /\ r.left = s.left \ {w}
    BY <2>3
  <2>10. s.left \ {w} \in SUBSET tiled
    BY <2>4
  <2> QED  BY <2>4, <2>6, <2>7, <2>8, <2>9, <2>10
<1> HIDE DEF P
<1>7. N \in P
  <2>1. 0..N \subseteq P
    BY <1>1, <1>5, <1>6, CountingUp
  <2> QED  BY <1>1, <2>1
<1>8. PICK s \in stage[N] : U = s.forest
  BY <1>2
<1>9. /\ s.left \in SUBSET tiled /\ Cardinality(s.left) = N - N
      /\ IsForest(U) /\ HeldBy(U, S \cup (tiled \ s.left))
      /\ LiesOn(T, of2) => LiesOn(U, of2)
  BY <1>7, <1>8 DEF P
<1>10. s.left = {}
  <2>1. IsFiniteSet(s.left) /\ Cardinality(s.left) = 0
    BY <1>1, <1>9, FS_Subset
  <2> QED  BY <2>1, FS_EmptySet
<1>11. S \cup (tiled \ s.left) = S \cup tiled
  BY <1>10
<1> QED  BY <1>9, <1>11

-----------------------------------------------------------------------------
(* The tiles of the windows that are shown and do not float.                *)

Tiled == mapped \ (floating \cup hidden)

TreeInv ==
  /\ IsForest(tree) /\ HeldBy(tree, Tiled)
  /\ LiesOn(tree, Place)

LEMMA LiesOnSame ==
  ASSUME NEW T, IsForest(T), NEW S, HeldBy(T, S), NEW of, LiesOn(T, of), NEW of2,
         \A x \in S : of2[x] = of[x]
  PROVE  LiesOn(T, of2)
<1> SUFFICES ASSUME NEW n \in DOMAIN T, IsTile(T, n)
             PROVE  of2[T[n].window] \in {T[n].workspace, NoWorkspace}
  BY DEF LiesOn
<1>1. T[n].window \in Windows
  BY DEF IsForest, Nodes, IsTile
<1>2. T[n].window \in S
  BY <1>1 DEF HeldBy, HasTile, TilesOf
<1> QED  BY <1>2 DEF LiesOn

LEMMA ReplacedNone ==
  ASSUME NEW T, NEW S, HeldBy(T, S), NEW from \in Windows \ S, NEW to
  PROVE  Replaced(T, from, to) = T
BY DEF HeldBy, Replaced

\* The members of a group float together, are in one place, and one of them is
\* shown.
LEMMA RingAlike ==
  ASSUME GroupInv, NEW v \in Members(next), NEW w \in Members(next),
         Together(next, v, w)
  PROVE  /\ v \in floating <=> w \in floating
         /\ Place[v] = Place[w]
         /\ v \notin hidden /\ w \notin hidden => v = w
         /\ v \in mapped /\ v \in Windows /\ workspace[v] \in Workspaces
<1>1. v \in mapped /\ v \in Windows /\ workspace[v] \in Workspaces
  BY DEF GroupInv, Members
<1>2. v \in floating <=> w \in floating
  BY TogetherAgree DEF GroupInv
<1>3. Place[v] = Place[w]
  <2>1. Permutes(next) /\ PlacesAgree(next, Place)
    BY DEF GroupInv, Rings
  <2> QED  BY <2>1, PlaceTyped, TogetherPlaced
<1>4. v \notin hidden /\ w \notin hidden => v = w
  BY OneFlag DEF GroupInv, Members
<1> QED  BY <1>1, <1>2, <1>3, <1>4

LEMMA RingOfShown ==
  ASSUME GroupInv, NEW w \in mapped \ hidden
  PROVE  /\ w \in Ring(w) /\ Ring(w) \subseteq mapped
         /\ \A v \in Ring(w) : v # w => v \in hidden
         /\ \A v \in Ring(w) : v \in floating <=> w \in floating
<1>1. w \in Windows /\ Permutes(next)
  BY DEF GroupInv, Rings
<1>2. CASE w \notin Members(next)
  <2>1. Ring(w) = {w}
    BY <1>1, <1>2 DEF Ring, RingIn, Members
  <2> QED  BY <2>1
<1>3. CASE w \in Members(next)
  <2>1. w \in Ring(w)
    BY <1>1, <1>3, RingClosed DEF Ring
  <2>2. ASSUME NEW v \in Ring(w)
        PROVE  /\ v # w => v \in hidden
               /\ v \in floating <=> w \in floating
               /\ v \in mapped
    <3>1. Together(next, v, w) /\ v \in Members(next)
      BY <1>1, <1>3, RingTogether DEF Ring
    <3> QED  BY <1>3, <3>1, RingAlike
  <2> QED  BY <2>1, <2>2
<1> QED  BY <1>2, <1>3

LEMMA TilesMapped ==
  ASSUME GroupInv, TreeInv
  PROVE  /\ \A w \in Windows : HasTile(tree, w) <=> w \in Tiled
         /\ Tiled \in SUBSET Windows /\ hidden \in SUBSET mapped
         /\ \A w \in mapped : w \in Windows /\ workspace[w] \in Workspaces
BY DEF GroupInv, TreeInv, HeldBy, Tiled, Members

-----------------------------------------------------------------------------
(* Every step keeps the trees.                                              *)

LEMMA MapTrees ==
  ASSUME GroupInv, TreeInv, NEW w \in Windows, Map(w)  PROVE TreeInv'
<1>1. PICK ws \in Workspaces, floats \in BOOLEAN :
        /\ workspace' = [workspace EXCEPT ![w] = ws]
        /\ MapAlone(w, ws, floats) \/ MapIntoGroup(w, ws, floats)
  BY DEF Map
<1>2. /\ mapped' = mapped \cup {w} /\ w \notin mapped /\ torn \subseteq mapped
      /\ w \notin hidden /\ w \notin Tiled /\ Tiled \in SUBSET Windows
      /\ workspace'[w] = ws /\ \A x \in Tiled : workspace'[x] = workspace[x]
  BY <1>1, TilesMapped DEF Map, GroupInv, Tiled
<1>3. /\ IsForest(tree) /\ HeldBy(tree, Tiled)
      /\ LiesOn(tree, Place)
  BY DEF TreeInv
<1>4. CASE MapAlone(w, ws, floats)
  <2>3. Place'[w] = ws /\ \A x \in Tiled : Place'[x] = Place[x]
    BY <1>2, <1>4 DEF MapAlone, Place
  <2>1. CASE floats
    <3>1. tree' = tree /\ Tiled' = Tiled
      BY <1>2, <1>4, <2>1 DEF MapAlone, Tiled
    <3>2. LiesOn(tree, Place')
      BY <1>3, <2>3, LiesOnSame
    <3> QED  BY <1>2, <1>3, <3>1, <3>2 DEF TreeInv
  <2>2. CASE ~floats
    <3>1. tree' \in Inserted(tree, w, ws) /\ Tiled' = Tiled \cup {w}
      BY <1>2, <1>4, <2>2 DEF MapAlone, Tiled
    <3>2. w \in Windows \ Tiled
      BY <1>2
    <3>3. /\ IsForest(tree') /\ HeldBy(tree', Tiled \cup {w})
          /\ LiesWith(tree', w, ws, tree, Tiled)
      BY <1>3, <3>1, <3>2, InsertedForest
    <3>4. LiesOn(tree', Place')
      BY <1>3, <2>3, <3>3 DEF LiesWith
    <3> QED  BY <1>2, <3>1, <3>3, <3>4 DEF TreeInv
  <2> QED  BY <2>1, <2>2
<1>5. CASE MapIntoGroup(w, ws, floats)
  <2>1. PICK v \in OpeningOn(ws) :
          /\ v \in Grouped /\ v # w
          /\ floating' = IF v \in floating THEN floating \cup {w}
                                           ELSE floating \ {w}
          /\ hidden' = hidden \cup {v} /\ tree' = Replaced(tree, v, w)
          /\ torn' = IF v \in torn THEN torn \cup {w} ELSE torn
    BY <1>5 DEF MapIntoGroup, Joins
  <2>2. /\ v \in mapped \ hidden /\ workspace[v] = ws /\ v \in Windows
        /\ v \in Tiled <=> v \notin floating
    BY <1>2, <2>1, TreeAssumption DEF OpeningOn, Grouped, GroupInv, Tiled
  <2>5. Place'[w] = Place[v] /\ \A x \in Tiled : Place'[x] = Place[x]
    BY <1>2, <2>1, <2>2 DEF Place
  <2>3. CASE v \in floating
    <3>1. tree' = tree
      BY <1>3, <2>1, <2>2, <2>3, ReplacedNone
    <3>2. Tiled' = Tiled
      BY <1>2, <2>1, <2>3 DEF Tiled
    <3>3. LiesOn(tree, Place')
      BY <1>3, <2>5, LiesOnSame
    <3> QED  BY <1>2, <1>3, <3>1, <3>2, <3>3 DEF TreeInv
  <2>4. CASE v \notin floating
    <3>1. Tiled' = (Tiled \ {v}) \cup {w}
      BY <1>2, <2>1, <2>2, <2>4 DEF Tiled
    <3>2. v \in Tiled \cap Windows /\ w \in Windows \ Tiled
      BY <1>2, <2>2, <2>4
    <3>3. /\ IsForest(tree') /\ HeldBy(tree', (Tiled \ {v}) \cup {w})
          /\ \A of, of2 :
              /\ LiesOn(tree, of) /\ of2[w] = of[v]
              /\ \A x \in Tiled \ {v} : of2[x] = of[x]
              => LiesOn(tree', of2)
      BY <1>3, <2>1, <3>2, ReplacedForest
    <3>4. LiesOn(tree', Place')
      BY <1>3, <2>5, <3>3
    <3> QED  BY <1>2, <3>1, <3>3, <3>4 DEF TreeInv
  <2> QED  BY <2>3, <2>4
<1> QED  BY <1>1, <1>4, <1>5

\* What is tiled when w has left, before it goes anywhere else.
TiledWithout(w) == (mapped \ {w}) \ (floating \cup HiddenWithout(w))

\* onWindowRemoved: a group keeps the tile, another window loses its own.
LEMMA TreeWithoutForest ==
  ASSUME GroupInv, TreeInv, NEW w \in mapped
  PROVE  /\ IsForest(TreeWithout(w)) /\ HeldBy(TreeWithout(w), TiledWithout(w))
         /\ LiesOn(TreeWithout(w), Place)
<1>1. /\ IsForest(tree) /\ HeldBy(tree, Tiled) /\ w \in Windows
      /\ LiesOn(tree, Place)
  BY TilesMapped DEF TreeInv
<1>2. Permutes(next)
  BY DEF GroupInv, Rings
<1>3. CASE Gives(w)
  <2> DEFINE h == Heir(w)
  <2>1. /\ ~Alone(w) /\ w \notin hidden /\ TreeWithout(w) = Replaced(tree, w, h)
        /\ HiddenWithout(w) = hidden \ {w, h}
    BY <1>3 DEF Gives, TreeWithout, HiddenWithout
  <2>2. /\ w \in Members(next) /\ h \in Members(next) /\ h # w
        /\ Together(next, w, h) /\ Together(next, h, w)
    BY <1>1, <1>2, <2>1, HeirOf DEF Together
  <2> HIDE DEF h
  <2>3. /\ h \in floating <=> w \in floating
        /\ Place[h] = Place[w]
        /\ h \in hidden /\ h \in mapped /\ h \in Windows
    BY <2>1, <2>2, RingAlike
  <2>4. CASE w \in floating
    <3>1. TiledWithout(w) = Tiled /\ w \in Windows \ Tiled
      BY <1>1, <2>1, <2>3, <2>4 DEF TiledWithout, Tiled
    <3>2. TreeWithout(w) = tree
      BY <1>1, <2>1, <3>1, ReplacedNone
    <3> QED  BY <1>1, <3>1, <3>2
  <2>5. CASE w \notin floating
    <3>1. /\ TiledWithout(w) = (Tiled \ {w}) \cup {h}
          /\ w \in Tiled \cap Windows /\ h \in Windows \ Tiled
      BY <1>1, <2>1, <2>2, <2>3, <2>5 DEF TiledWithout, Tiled
    <3>2. /\ IsForest(TreeWithout(w))
          /\ HeldBy(TreeWithout(w), (Tiled \ {w}) \cup {h})
          /\ \A of, of2 :
              /\ LiesOn(tree, of) /\ of2[h] = of[w]
              /\ \A x \in Tiled \ {w} : of2[x] = of[x]
              => LiesOn(TreeWithout(w), of2)
      BY <1>1, <2>1, <3>1, ReplacedForest
    <3> QED  BY <1>1, <2>3, <3>1, <3>2
  <2> QED  BY <2>4, <2>5
<1>4. CASE ~Gives(w) /\ Alone(w) /\ w \notin floating
  <2>1. TreeWithout(w) = Removed(tree, w) /\ TiledWithout(w) = Tiled \ {w}
    BY <1>4 DEF TreeWithout, TiledWithout, HiddenWithout, Tiled
  <2> QED  BY <1>1, <2>1, RemovedForest
<1>5. CASE ~Gives(w) /\ ~(Alone(w) /\ w \notin floating)
  <2>1. TreeWithout(w) = tree
    BY <1>5 DEF TreeWithout
  <2>2. TiledWithout(w) = Tiled
    BY <1>5 DEF TiledWithout, HiddenWithout, Tiled, Gives
  <2> QED  BY <1>1, <2>1, <2>2
<1> QED  BY <1>3, <1>4, <1>5

LEMMA UnmapTrees ==
  ASSUME GroupInv, TreeInv, NEW w \in Windows, Unmap(w)  PROVE TreeInv'
<1>1. /\ w \in mapped /\ tree' = TreeWithout(w) /\ torn' = torn \ {w}
      /\ Tiled' = TiledWithout(w)
      /\ workspace' = Unplaced(w)
  BY DEF Unmap, Tiled, TiledWithout
<1>2. /\ IsForest(tree') /\ HeldBy(tree', TiledWithout(w))
      /\ LiesOn(tree', Place)
  BY <1>1, TreeWithoutForest
<1>3. \A x \in TiledWithout(w) : Place'[x] = Place[x]
  BY <1>1 DEF TiledWithout, Unplaced, GroupInv, Place
<1>4. LiesOn(tree', Place')
  BY <1>2, <1>3, LiesOnSame
<1> QED  BY <1>1, <1>2, <1>4 DEF TreeInv

LEMMA SameTrees ==
  ASSUME TreeInv, UNCHANGED <<tree, workspace, torn>>, Tiled' = Tiled
  PROVE  TreeInv'
BY DEF TreeInv, Place

\* A window takes the place of another one, and its tile if that has one.
LEMMA TileTaken ==
  ASSUME NEW T, IsForest(T), NEW S, HeldBy(T, S), NEW from \in Windows,
         NEW to \in Windows \ S
  PROVE  /\ IsForest(Replaced(T, from, to))
         /\ HeldBy(Replaced(T, from, to),
                   IF from \in S THEN (S \ {from}) \cup {to} ELSE S)
         /\ \A of, of2 :
              /\ LiesOn(T, of) /\ (from \in S => of2[to] = of[from])
              /\ \A x \in S \ {from} : of2[x] = of[x]
              => LiesOn(Replaced(T, from, to), of2)
<1>1. CASE from \in S
  BY <1>1, ReplacedForest
<1>2. CASE from \notin S
  <2>1. Replaced(T, from, to) = T
    BY <1>2, ReplacedNone
  <2>2. ASSUME NEW of, NEW of2, LiesOn(T, of),
               \A x \in S \ {from} : of2[x] = of[x]
        PROVE  LiesOn(T, of2)
    BY <1>2, <2>2, LiesOnSame
  <2> QED  BY <1>2, <2>1, <2>2
<1> QED  BY <1>1, <1>2

\* The tile of a group goes to the member that is shown instead.
LEMMA ShowTrees ==
  ASSUME GroupInv, TreeInv, NEW w \in mapped, Show(w),
         UNCHANGED <<mapped, floating, workspace, torn>>
  PROVE  TreeInv'
<1>1. CASE w \notin hidden
  BY <1>1, SameTrees DEF Show, Tiled
<1>2. CASE w \in hidden
  <2> DEFINE c == Current(w)
  <2>1. hidden' = Exchanged(hidden, w, c) /\ tree' = Replaced(tree, c, w)
    BY <1>2 DEF Show
  <2>2. w \in Members(next) /\ w \in Windows
    BY <1>2 DEF GroupInv, Members
  <2>3. c \in Members(next) /\ c \notin hidden /\ Together(next, c, w)
    BY <2>2, CurrentInRing
  <2> HIDE DEF c
  <2>4. /\ c \in floating <=> w \in floating
        /\ Place[c] = Place[w]
        /\ c \in mapped /\ c \in Windows
    BY <2>2, <2>3, RingAlike
  <2>5. /\ IsForest(tree) /\ HeldBy(tree, Tiled) /\ w \in Windows \ Tiled
        /\ LiesOn(tree, Place)
    BY <1>2, <2>2 DEF TreeInv, Tiled
  <2>6. hidden' = (hidden \ {w}) \cup {c}
    BY <1>2, <2>1, <2>2, <2>3, <2>4 DEF Exchanged, GroupInv, Members
  <2>7. Tiled' = IF c \in Tiled THEN (Tiled \ {c}) \cup {w} ELSE Tiled
    BY <1>2, <2>3, <2>4, <2>6 DEF Tiled
  <2>8. /\ IsForest(tree') /\ HeldBy(tree', Tiled')
        /\ \A of, of2 :
              /\ LiesOn(tree, of) /\ (c \in Tiled => of2[w] = of[c])
              /\ \A x \in Tiled \ {c} : of2[x] = of[x]
              => LiesOn(tree', of2)
    BY <2>1, <2>4, <2>5, <2>7, TileTaken
  <2>9. LiesOn(tree', Place)
    BY <2>4, <2>5, <2>8
  <2>10. Place' = Place
    BY DEF Place
  <2> QED  BY <2>8, <2>9, <2>10 DEF TreeInv
<1> QED  BY <1>1, <1>2

\* destroyGroup: each member gets a tile if the one that had it did.
LEMMA DissolveTrees ==
  ASSUME GroupInv, TreeInv, NEW w \in mapped \ hidden, w \in Members(next),
         DissolveRing(w), UNCHANGED <<mapped, floating, workspace>>
  PROVE  TreeInv'
<1>1. /\ IsForest(tree) /\ HeldBy(tree, Tiled) /\ w \in Windows
      /\ LiesOn(tree, Place)
      /\ Tiled \in SUBSET Windows
  BY TilesMapped DEF TreeInv
<1>2. /\ w \in Ring(w) /\ Ring(w) \subseteq mapped
      /\ \A v \in Ring(w) : v # w => v \in hidden
      /\ \A v \in Ring(w) : v \in floating <=> w \in floating
  BY RingOfShown
<1>3. /\ hidden' = hidden \ Ring(w) /\ torn' = torn \ Ring(w)
      /\ tree' \in AllInserted(IF w \in floating THEN tree ELSE Removed(tree, w),
                               Ring(w) \ floating, workspace)
  BY DEF DissolveRing
<1> DEFINE S == IF w \in floating THEN Tiled ELSE Tiled \ {w}
           T == IF w \in floating THEN tree ELSE Removed(tree, w)
           tiled == Ring(w) \ floating
<1>4. /\ IsForest(T) /\ HeldBy(T, S) /\ LiesOn(T, Place)
  BY <1>1, RemovedForest
<1>5. S \in SUBSET Windows /\ tiled \in SUBSET Windows /\ tiled \cap S = {}
  BY <1>1, <1>2, TilesMapped DEF Tiled
<1>6. \A v \in tiled : workspace[v] \in Workspaces /\ Place'[v] = workspace[v]
  BY <1>2, <1>3, TilesMapped DEF Place
<1>7. tree' \in AllInserted(T, tiled, workspace)
  BY <1>3
<1>8. Tiled' = S \cup tiled
  BY <1>2, <1>3 DEF Tiled
<1>9. \A x \in S : Place'[x] = Place[x]
  BY <1>1, <1>2, <1>3, TilesMapped DEF Tiled, Place
<1> HIDE DEF S, T, tiled
<1>10. LiesOn(T, Place')
  BY <1>4, <1>9, LiesOnSame
<1>11. /\ IsForest(tree') /\ HeldBy(tree', S \cup tiled)
       /\ LiesOn(T, Place') => LiesOn(tree', Place')
  BY <1>4, <1>5, <1>6, <1>7, AllInsertedForest
<1> QED  BY <1>8, <1>10, <1>11 DEF TreeInv

LEMMA ToggleTrees ==
  ASSUME GroupInv, TreeInv, ToggleGroup  PROVE TreeInv'
<1>1. CASE CreateGroup
  BY <1>1, SameTrees DEF CreateGroup, Tiled
<1>2. CASE DestroyGroup
  <2>1. UNCHANGED <<mapped, floating, workspace>>
    BY <1>2 DEF DestroyGroup
  <2>2. last \in mapped \ hidden /\ last \in Members(next)
    BY <1>2, TreeAssumption DEF DestroyGroup, Grouped, GroupInv, Members
  <2>3. CASE next[last] = last
    BY <1>2, <2>1, <2>3, SameTrees DEF DestroyGroup, DissolveAlone, Tiled
  <2>4. CASE next[last] # last
    <3>1. DissolveRing(last)
      BY <1>2, <2>4 DEF DestroyGroup
    <3> QED  BY <2>1, <2>2, <3>1, DissolveTrees
  <2> QED  BY <2>3, <2>4
<1> QED  BY <1>1, <1>2 DEF ToggleGroup

LEMMA FocusTrees ==
  ASSUME GroupInv, TreeInv, ChangeGroupActive \/ \E w \in Windows : FocusWindow(w)
  PROVE  TreeInv'
<1>1. PICK w \in mapped : Show(w)
  <2>1. CASE ChangeGroupActive
    <3>1. PICK w \in Ring(last) : Show(w)
      BY <2>1 DEF ChangeGroupActive
    <3>2. last \in mapped \ hidden
      BY <2>1, TreeAssumption DEF ChangeGroupActive, Grouped, GroupInv
    <3>3. Ring(last) \subseteq mapped
      BY <3>2, RingOfShown
    <3> QED  BY <3>1, <3>3
  <2>2. CASE \E w \in Windows : FocusWindow(w)
    BY <2>2 DEF FocusWindow
  <2> QED  BY <2>1, <2>2
<1>2. UNCHANGED <<mapped, floating, workspace, torn>>
  BY DEF ChangeGroupActive, FocusWindow
<1> QED  BY <1>1, <1>2, ShowTrees

\* moveWindowIntoGroup: the window leaves its tile to its group, or gives it
\* up, and takes that of the group it joins.
LEMMA IntoGroupTrees ==
  ASSUME GroupInv, TreeInv, last \in Windows, NEW v \in InDirection \cap Grouped,
         IntoGroup(v)
  PROVE  TreeInv'
<1> DEFINE T == TreeWithout(last)
           S == TiledWithout(last)
           HW == HiddenWithout(last)
<1>1. last \in mapped \ hidden /\ v \in mapped \ hidden /\ v # last
  BY TreeAssumption DEF GroupInv, InDirection
<1>2. v \in floating <=> last \in floating
  BY DEF InDirection
<1>3. /\ hidden' = (HW \cup {v}) \ {last} /\ tree' = Replaced(T, v, last)
      /\ workspace' = [workspace EXCEPT ![last] = workspace[v]]
      /\ torn' = IF v \in torn THEN torn \cup {last} ELSE torn \ {last}
      /\ UNCHANGED <<mapped, floating>>
  BY DEF IntoGroup
<1>4. HW \subseteq hidden
  BY LeftGroup
<1>5. v \in Windows /\ mapped \in SUBSET Windows
  BY <1>1 DEF GroupInv
<1>6. /\ IsForest(T) /\ HeldBy(T, S)
      /\ LiesOn(T, Place)
  BY <1>1, TreeWithoutForest
<1>7. last \in Windows \ S /\ (v \in S <=> v \notin floating)
  BY <1>1, <1>4 DEF TiledWithout
<1>8. Tiled' = IF v \in S THEN (S \ {v}) \cup {last} ELSE S
  <2>1. CASE v \in S
    BY <1>1, <1>2, <1>3, <1>7, <2>1 DEF Tiled, TiledWithout
  <2>2. CASE v \notin S
    BY <1>1, <1>2, <1>3, <1>7, <2>2 DEF Tiled, TiledWithout
  <2> QED  BY <2>1, <2>2
<1>9. /\ Place'[last] = Place[v]
      /\ \A x \in S \ {v} : Place'[x] = Place[x]
  BY <1>1, <1>3, <1>5 DEF GroupInv, TiledWithout, Place
<1> HIDE DEF T, S, HW
<1>10. /\ IsForest(tree') /\ HeldBy(tree', Tiled')
       /\ \A of, of2 :
              /\ LiesOn(T, of) /\ (v \in S => of2[last] = of[v])
              /\ \A x \in S \ {v} : of2[x] = of[x]
              => LiesOn(tree', of2)
  <2> DEFINE U == Replaced(T, v, last)
             held == IF v \in S THEN (S \ {v}) \cup {last} ELSE S
  <2>1. IsForest(T) /\ HeldBy(T, S) /\ v \in Windows /\ last \in Windows \ S
    BY <1>5, <1>6, <1>7
  <2>2. /\ IsForest(U) /\ HeldBy(U, held)
        /\ \A of, of2 :
              /\ LiesOn(T, of) /\ (v \in S => of2[last] = of[v])
              /\ \A x \in S \ {v} : of2[x] = of[x]
              => LiesOn(U, of2)
    BY <2>1, TileTaken
  <2>3. tree' = U
    BY <1>3
  <2> QED  BY <1>8, <2>2, <2>3
<1>11. LiesOn(tree', Place')
  BY <1>6, <1>9, <1>10
<1> QED  BY <1>3, <1>10, <1>11 DEF TreeInv

\* moveWindowOutOfGroup: the window gets a tile of its own; and if another
\* member is focused than the one that was to be shown, the tile is passed on.
LEMMA OutOfGroupTrees ==
  ASSUME GroupInv, TreeInv, NEW w \in Members(next), OutOfGroup(w)
  PROVE  TreeInv'
<1>1. CASE next[w] = w
  <2>1. UNCHANGED <<mapped, floating, hidden, workspace, tree, torn>>
    BY <1>1 DEF OutOfGroup, DissolveAlone
  <2> QED  BY <2>1, SameTrees DEF Tiled
<1>2. CASE next[w] # w
  <2> DEFINE shown == IF Gives(w) THEN Heir(w) ELSE Current(w)
             S1 == TiledWithout(w)
             HW == HiddenWithout(w)
             S == IF w \in floating THEN S1 ELSE S1 \cup {w}
  <2>1. PICK focused \in {w, Previous(w)},
             T \in IF w \in floating THEN {TreeWithout(w)}
                   ELSE Inserted(TreeWithout(w), w, workspace[w]) :
          /\ hidden' = IF focused # w /\ focused # shown
                       THEN (HW \cup {shown}) \ {focused} ELSE HW
          /\ tree' = IF focused # w /\ focused # shown
                     THEN Replaced(T, shown, focused) ELSE T
          /\ torn' = torn \ {w} /\ UNCHANGED <<mapped, floating, workspace>>
    BY <1>2 DEF OutOfGroup
  <2>2. w \in mapped /\ w \in Windows /\ workspace[w] \in Workspaces
    BY DEF GroupInv, Members
  <2>3. Permutes(next) /\ ~Alone(w)
    BY <1>2 DEF GroupInv, Rings, Alone, Members
  <2>4. /\ Previous(w) \in Members(next) /\ Previous(w) # w
        /\ Together(next, Previous(w), w)
        /\ Heir(w) \in Members(next) /\ Heir(w) # w
        /\ Together(next, Heir(w), w)
    BY <2>2, <2>3, HeirOf DEF Together
  <2>5. /\ Current(w) \in Members(next) /\ Current(w) \notin hidden
        /\ Together(next, Current(w), w)
    BY CurrentInRing
  <2>6. /\ shown \in Members(next) /\ Together(next, shown, w)
        /\ shown # w /\ shown \notin HW
    BY <2>3, <2>4, <2>5 DEF Gives, HiddenWithout
  <2>7. /\ shown \in floating <=> w \in floating
        /\ Place[shown] = Place[w]
        /\ shown \in mapped /\ shown \in Windows
    BY <2>6, RingAlike
  <2>8. /\ IsForest(TreeWithout(w)) /\ HeldBy(TreeWithout(w), S1)
        /\ LiesOn(TreeWithout(w), Place)
    BY <2>2, TreeWithoutForest
  <2>9. w \in Windows \ S1 /\ w \notin HW
    BY <2>2, <2>3 DEF TiledWithout, HiddenWithout
  <2>14. /\ Place'[w] = workspace[w]
         /\ \A x \in Windows \ {w} : Place'[x] = Place[x]
    BY <2>1, <2>2 DEF Place
  <2>10. IsForest(T) /\ HeldBy(T, S) /\ LiesOn(T, Place')
    <3>3. \A x \in S1 : Place'[x] = Place[x]
      BY <2>9, <2>14, TilesMapped DEF TiledWithout
    <3>1. CASE w \in floating
      BY <2>1, <2>8, <3>1, <3>3, LiesOnSame
    <3>2. CASE w \notin floating
      <4>1. T \in Inserted(TreeWithout(w), w, workspace[w])
        BY <2>1, <3>2
      <4>2. /\ IsForest(T) /\ HeldBy(T, S1 \cup {w})
            /\ LiesWith(T, w, workspace[w], TreeWithout(w), S1)
        BY <2>2, <2>8, <2>9, <4>1, InsertedForest
      <4> QED  BY <2>8, <2>14, <3>2, <3>3, <4>2 DEF LiesWith
    <3> QED  BY <3>1, <3>2
  <2>11. S = mapped \ (floating \cup HW)
    BY <2>2, <2>9 DEF TiledWithout
  <2>12. CASE focused = w \/ focused = shown
    <3>1. Tiled' = S /\ tree' = T
      BY <2>1, <2>11, <2>12 DEF Tiled
    <3> QED  BY <2>1, <2>10, <3>1 DEF TreeInv
  <2>13. CASE focused # w /\ focused # shown
    <3>1. /\ focused = Previous(w) /\ focused \in Members(next)
          /\ Together(next, focused, w)
      BY <2>1, <2>4, <2>13
    <3>2. /\ focused \in floating <=> w \in floating
          /\ Place[focused] = Place[w]
          /\ focused \in mapped /\ focused \in Windows
      BY <3>1, RingAlike
    <3>3. focused \in HW
      <4>1. CASE Gives(w)
        <5>1. w \notin hidden /\ HW = hidden \ {w, shown}
          BY <2>3, <4>1 DEF Gives, HiddenWithout
        <5>2. focused \in hidden
          BY <2>13, <3>1, <5>1, RingAlike
        <5> QED  BY <2>13, <5>1, <5>2
      <4>2. CASE ~Gives(w)
        <5>1. shown \notin hidden /\ HW = hidden \ {w}
          BY <2>3, <2>5, <4>2 DEF HiddenWithout
        <5>2. Together(next, focused, shown)
          BY <2>6, <3>1 DEF Together
        <5>3. focused \in hidden
          BY <2>6, <2>13, <3>1, <5>1, <5>2, RingAlike
        <5> QED  BY <2>13, <5>1, <5>3
      <4> QED  BY <4>1, <4>2
    <3>4. hidden' = (HW \cup {shown}) \ {focused} /\ tree' = Replaced(T, shown, focused)
      BY <2>1, <2>13
    <3> HIDE DEF shown, HW
    <3>5. (shown \in S <=> shown \notin floating) /\ focused \in Windows \ S
      BY <2>6, <2>7, <2>11, <3>2, <3>3
    <3>6. Tiled' = IF shown \in S THEN (S \ {shown}) \cup {focused} ELSE S
      <4>1. Tiled' = mapped \ (floating \cup ((HW \cup {shown}) \ {focused}))
        BY <2>1, <3>4 DEF Tiled
      <4>2. CASE shown \in S
        BY <2>7, <2>11, <3>2, <3>3, <4>1, <4>2
      <4>3. CASE shown \notin S
        BY <2>7, <2>11, <3>2, <3>3, <3>5, <4>1, <4>3
      <4> QED  BY <4>2, <4>3
    <3> HIDE DEF S
    <3>7. /\ IsForest(tree') /\ HeldBy(tree', Tiled')
          /\ \A of, of2 :
              /\ LiesOn(T, of) /\ (shown \in S => of2[focused] = of[shown])
              /\ \A x \in S \ {shown} : of2[x] = of[x]
              => LiesOn(tree', of2)
      <4> DEFINE U == Replaced(T, shown, focused)
                 held == IF shown \in S THEN (S \ {shown}) \cup {focused} ELSE S
      <4>1. /\ IsForest(T) /\ HeldBy(T, S)
            /\ shown \in Windows /\ focused \in Windows \ S
        BY <2>7, <2>10, <3>5
      <4>2. /\ IsForest(U) /\ HeldBy(U, held)
            /\ \A of, of2 :
              /\ LiesOn(T, of) /\ (shown \in S => of2[focused] = of[shown])
              /\ \A x \in S \ {shown} : of2[x] = of[x]
              => LiesOn(U, of2)
        BY <4>1, TileTaken
      <4>3. tree' = U
        BY <3>4
      <4> QED  BY <3>6, <4>2, <4>3
    <3>8. LiesOn(tree', Place')
      BY <2>6, <2>7, <2>10, <2>13, <2>14, <3>2, <3>7
    <3> QED  BY <2>1, <3>7, <3>8 DEF TreeInv
  <2> QED  BY <2>12, <2>13
<1> QED  BY <1>1, <1>2

\* moveWindowTo: the tile is taken out and put in again.
LEMMA MoveTileTrees ==
  ASSUME GroupInv, TreeInv, last \in Windows, MoveTile(last)  PROVE TreeInv'
<1>1. PICK ws \in Workspaces :
        /\ workspace' = [v \in Windows |-> IF v \in Ring(last) THEN ws
                                           ELSE workspace[v]]
        /\ tree' \in Inserted(Removed(tree, last), last, ws)
        /\ torn' = torn \ Ring(last)
  BY DEF MoveTile
<1>2. /\ UNCHANGED <<mapped, floating, hidden>> /\ Tiled' = Tiled
      /\ last \in Tiled /\ last \in mapped \ hidden /\ Tiled \in SUBSET Windows
  BY TilesMapped DEF MoveTile, Tiled
<1>3. /\ last \in Ring(last)
      /\ \A v \in Ring(last) : v # last => v \in hidden
  BY <1>2, RingOfShown
<1>4. /\ Place'[last] = ws
      /\ \A x \in Tiled \ {last} : Place'[x] = Place[x]
  BY <1>1, <1>2, <1>3 DEF Tiled, Place
<1>5. IsForest(tree) /\ HeldBy(tree, Tiled) /\ LiesOn(tree, Place)
  BY DEF TreeInv
<1> DEFINE T == Removed(tree, last)
           S == Tiled \ {last}
<1>6. IsForest(T) /\ HeldBy(T, S) /\ LiesOn(T, Place)
  BY <1>5, RemovedForest
<1>7. last \in Windows \ S /\ tree' \in Inserted(T, last, ws)
  BY <1>1
<1>8. S \cup {last} = Tiled
  BY <1>2
<1>9. \A x \in S : Place'[x] = Place[x]
  BY <1>4
<1> HIDE DEF T, S
<1>10. /\ IsForest(tree') /\ HeldBy(tree', S \cup {last})
       /\ LiesWith(tree', last, ws, T, S)
  BY <1>6, <1>7, InsertedForest
<1>11. LiesOn(tree', Place')
  BY <1>4, <1>6, <1>9, <1>10 DEF LiesWith
<1> QED  BY <1>2, <1>8, <1>10, <1>11 DEF TreeInv

LEMMA MoveTrees ==
  ASSUME GroupInv, TreeInv, MoveIntoGroup \/ MoveOutOfGroup \/ MoveWindowOrGroup
  PROVE  TreeInv'
<1>1. \/ last \in Windows /\ MoveTile(last)
      \/ last \in Windows /\ \E v \in InDirection \cap Grouped : IntoGroup(v)
      \/ \E w \in Grouped : OutOfGroup(w)
  <2>1. CASE MoveIntoGroup
    BY <2>1 DEF MoveIntoGroup
  <2>2. CASE MoveOutOfGroup
    BY <2>2 DEF MoveOutOfGroup
  <2>3. CASE MoveWindowOrGroup
    BY <2>3 DEF MoveWindowOrGroup, Grouped
  <2> QED  BY <2>1, <2>2, <2>3
<1>2. CASE last \in Windows /\ MoveTile(last)
  BY <1>2, MoveTileTrees
<1>3. CASE last \in Windows /\ \E v \in InDirection \cap Grouped : IntoGroup(v)
  BY <1>3, IntoGroupTrees
<1>4. CASE \E w \in Grouped : OutOfGroup(w)
  <2>1. PICK w \in Members(next) : OutOfGroup(w)
    BY <1>4 DEF Grouped, Members
  <2> QED  BY <2>1, OutOfGroupTrees
<1> QED  BY <1>1, <1>2, <1>3, <1>4

\* toggleActiveFloating: the member shown loses the tile or gets one.
LEMMA ToggleFloatingTrees ==
  ASSUME GroupInv, TreeInv, NEW w \in Windows, ToggleFloating(w)
  PROVE  TreeInv'
<1> DEFINE c == IF w \in Grouped THEN Current(w) ELSE w
<1>1. /\ w \in mapped /\ UNCHANGED <<mapped, hidden>>
      /\ floating' = IF c \in floating THEN floating \ Ring(w)
                                       ELSE floating \cup Ring(w)
      /\ IF HasTile(tree, c)
         THEN tree' = Removed(tree, c) /\ UNCHANGED <<workspace, torn>>
         ELSE \E ws \in Workspaces :
               /\ workspace' = [v \in Windows |-> IF v \in Ring(w) THEN ws
                                                  ELSE workspace[v]]
               /\ tree' \in Inserted(tree, c, ws)
               /\ torn' = torn \ Ring(w)
  BY DEF ToggleFloating
<1>2. /\ c \in mapped \ hidden /\ c \in Ring(w)
      /\ \A v \in Ring(w) : v # c => v \in hidden
  <2>1. CASE w \in Grouped
    <3>1. w \in Members(next) /\ c = Current(w) /\ Permutes(next)
      BY <2>1 DEF Grouped, Members, GroupInv, Rings
    <3>2. /\ c \in Ring(w) /\ c \in Members(next) /\ c \notin hidden
          /\ Together(next, c, w)
      BY <3>1, CurrentInRing
    <3> HIDE DEF c
    <3>3. c \in mapped
      BY <3>1, <3>2, RingAlike
    <3>4. ASSUME NEW v \in Ring(w), v # c  PROVE v \in hidden
      <4>1. Together(next, v, w) /\ v \in Members(next)
        BY <3>1, RingTogether DEF Ring
      <4>2. Together(next, v, c)
        BY <3>2, <4>1 DEF Together
      <4> QED  BY <3>2, <3>4, <4>1, <4>2, RingAlike
    <3> QED  BY <3>2, <3>3, <3>4
  <2>2. CASE w \notin Grouped
    <3>1. w \notin hidden /\ c = w
      BY <2>2 DEF Grouped, Members, GroupInv
    <3> QED  BY <1>1, <3>1, RingOfShown
  <2> QED  BY <2>1, <2>2
<1> HIDE DEF c
<1>3. /\ IsForest(tree) /\ HeldBy(tree, Tiled) /\ Tiled \in SUBSET Windows
      /\ LiesOn(tree, Place)
      /\ c \in Windows /\ (HasTile(tree, c) <=> c \notin floating)
  BY <1>2, TilesMapped DEF TreeInv, Tiled
<1>4. CASE c \notin floating
  <2>1. tree' = Removed(tree, c) /\ Place' = Place
    BY <1>1, <1>3, <1>4 DEF Place
  <2>2. Tiled' = Tiled \ {c}
    BY <1>1, <1>2, <1>4 DEF Tiled
  <2>3. /\ IsForest(tree') /\ HeldBy(tree', Tiled \ {c})
        /\ LiesOn(tree', Place')
    BY <1>3, <2>1, RemovedForest
  <2> QED  BY <1>1, <2>1, <2>2, <2>3 DEF TreeInv
<1>5. CASE c \in floating
  <2>1. PICK ws \in Workspaces :
          /\ workspace' = [v \in Windows |-> IF v \in Ring(w) THEN ws
                                             ELSE workspace[v]]
          /\ tree' \in Inserted(tree, c, ws)
          /\ torn' = torn \ Ring(w)
    BY <1>1, <1>3, <1>5
  <2>2. Tiled' = Tiled \cup {c} /\ c \in Windows \ Tiled
    BY <1>1, <1>2, <1>3, <1>5 DEF Tiled
  <2>3. Place'[c] = ws /\ \A x \in Tiled : Place'[x] = Place[x]
    BY <1>2, <1>3, <2>1, <2>2 DEF Tiled, Place
  <2>4. /\ IsForest(tree') /\ HeldBy(tree', Tiled \cup {c})
        /\ LiesWith(tree', c, ws, tree, Tiled)
    BY <1>3, <2>1, <2>2, InsertedForest
  <2>5. LiesOn(tree', Place')
    BY <1>3, <2>3, <2>4 DEF LiesWith
  <2> QED  BY <1>1, <2>2, <2>4, <2>5 DEF TreeInv
<1> QED  BY <1>4, <1>5

\* moveWindowToWorkspaceSafe: the tile goes along, or that of the group the
\* window joins is taken over.
LEMMA MoveToWorkspaceTrees ==
  ASSUME GroupInv, TreeInv, NEW w \in Windows, NEW ws \in Workspaces,
         MoveToWorkspace(w, ws)
  PROVE  TreeInv'
<1> DEFINE T == WithoutTile(w)
           S == Tiled \ {w}
<1>1. /\ w \in mapped \ hidden /\ workspace[w] # ws /\ mapped' = mapped
      /\ workspace' = [x \in Windows |-> IF x \in RingIn(next', w) THEN ws
                                         ELSE workspace[x]]
      /\ w \in RingIn(next', w)
  BY DEF MoveToWorkspace, Follow, RingIn
<1>2. /\ w \in Ring(w) /\ Ring(w) \subseteq mapped
      /\ \A v \in Ring(w) : v # w => v \in hidden
      /\ \A v \in Ring(w) : v \in floating <=> w \in floating
  BY <1>1, RingOfShown
<1>3. /\ IsForest(tree) /\ HeldBy(tree, Tiled) /\ Tiled \in SUBSET Windows
      /\ LiesOn(tree, Place)
  BY TilesMapped DEF TreeInv
<1>4. IsForest(T) /\ HeldBy(T, S) /\ LiesOn(T, Place)
  <2>1. CASE w \in floating
    <3>1. T = tree /\ S = Tiled
      BY <2>1 DEF Tiled, WithoutTile
    <3> QED  BY <1>3, <3>1
  <2>2. CASE w \notin floating
    BY <1>1, <1>3, <2>2, RemovedForest DEF WithoutTile
  <2> QED  BY <2>1, <2>2
<1>5. w \in Windows \ S
  OBVIOUS
\* It takes its group along.
<1>6. CASE /\ tree' \in IF w \in floating THEN {tree} ELSE Inserted(T, w, ws)
           /\ torn' = torn \ Ring(w) /\ UNCHANGED <<floating, hidden, next>>
  <2>1. Tiled' = Tiled
    BY <1>1, <1>6 DEF Tiled
  <2>2. Place'[w] = ws /\ \A x \in S : Place'[x] = Place[x]
    BY <1>1, <1>2, <1>3, <1>6 DEF Place, Ring, Tiled
  <2>3. CASE w \in floating
    <3>1. tree' = T /\ S = Tiled
      BY <1>6, <2>3 DEF Tiled, WithoutTile
    <3> HIDE DEF T, S
    <3>2. LiesOn(T, Place')
      BY <1>4, <2>2, LiesOnSame
    <3> QED  BY <1>4, <2>1, <3>1, <3>2 DEF TreeInv
  <2>4. CASE w \notin floating
    <3>1. tree' \in Inserted(T, w, ws) /\ S \cup {w} = Tiled
      BY <1>1, <1>6, <2>4 DEF Tiled
    <3> HIDE DEF T, S
    <3>2. /\ IsForest(tree') /\ HeldBy(tree', S \cup {w})
          /\ LiesWith(tree', w, ws, T, S)
      BY <1>4, <1>5, <3>1, InsertedForest
    <3>3. LiesOn(tree', Place')
      BY <1>4, <2>2, <3>2 DEF LiesWith
    <3> QED  BY <2>1, <3>1, <3>2, <3>3 DEF TreeInv
  <2> QED  BY <2>3, <2>4
\* Both join the group of v.
<1>7. ASSUME NEW v \in Hosts(w, ws), NEW at \in {v, TailOf(v)},
             Merges(w, v, at), Follow(w, ws), FocusAfter(w, {v, w})
      PROVE  TreeInv'
  <2>1. GroupInv' /\ w \in RingIn(next', v)
    <3>1. CASE w \in Grouped
      BY <1>1, <1>7, <3>1, JoinHostRingStep
    <3>2. CASE w \notin Grouped
      BY <1>1, <1>7, <3>2, JoinHostStep
    <3> QED  BY <3>1, <3>2
  <2>2. /\ hidden' = (hidden \cup {v}) \ {w} /\ tree' = Replaced(T, v, w)
        /\ floating' = IF v \in floating THEN floating \cup Ring(w)
                                         ELSE floating \ Ring(w)
        /\ torn' = IF v \in torn THEN torn \cup RingIn(next', w)
                                 ELSE torn \ RingIn(next', w)
    BY <1>7, <2>1 DEF Merges
  <2>3. v \in mapped \ hidden /\ workspace[v] = ws /\ v # w /\ v \in Windows
    BY <1>1 DEF Hosts, Shown, Grouped
  <2>4. v \notin Ring(w) /\ (v \in S <=> v \notin floating)
    BY <1>2, <2>3 DEF Tiled
  <2>5. Tiled' = IF v \in S THEN (S \ {v}) \cup {w} ELSE S
    <3>1. CASE v \in S
      <4>1. floating' = floating \ Ring(w)
        BY <2>2, <2>4, <3>1
      <4> QED  BY <1>1, <1>2, <2>2, <2>3, <2>4, <3>1, <4>1 DEF Tiled
    <3>2. CASE v \notin S
      <4>1. floating' = floating \cup Ring(w)
        BY <2>2, <2>4, <3>2
      <4> QED  BY <1>1, <1>2, <2>2, <2>3, <2>4, <3>2, <4>1 DEF Tiled
    <3> QED  BY <3>1, <3>2
  <2>6. ASSUME NEW x \in Windows, x # w, x \notin hidden'
        PROVE  x \notin RingIn(next', w)
    <3> SUFFICES ASSUME x \in RingIn(next', w)  PROVE FALSE
      OBVIOUS
    <3>1. w \notin hidden' /\ Permutes(next') /\ Rings(next', Windows \ hidden')
      BY <2>1, <2>2 DEF GroupInv, Rings
    <3>2. w \in Members(next')
      BY <1>1, <2>3, <2>6, <3>1 DEF RingIn, Members
    <3>3. Together(next', x, w) /\ x \in Members(next')
      BY <3>1, <3>2, RingTogether
    <3> QED  BY <2>6, <3>1, <3>2, <3>3, OneFlag
  <2>7. Place'[w] = Place[v] /\ \A x \in S \ {v} : Place'[x] = Place[x]
    <3>1. Place'[w] = Place[v]
      BY <1>1, <2>2, <2>3 DEF Place
    <3>2. ASSUME NEW x \in S \ {v}  PROVE Place'[x] = Place[x]
      <4>1. x \in Windows /\ x \notin RingIn(next', w)
        BY <1>3, <2>2, <2>6, <3>2 DEF Tiled
      <4> QED  BY <1>1, <2>2, <4>1 DEF Place
    <3> QED  BY <3>1, <3>2
  <2> DEFINE U == Replaced(T, v, w)
             held == IF v \in S THEN (S \ {v}) \cup {w} ELSE S
  <2>8. tree' = U /\ Tiled' = held
    BY <2>2, <2>5
  <2> HIDE DEF T, S
  <2>9. IsForest(T) /\ HeldBy(T, S) /\ v \in Windows /\ w \in Windows \ S
    BY <1>4, <1>5, <2>3
  <2>10. /\ IsForest(U) /\ HeldBy(U, held)
         /\ \A of, of2 :
              /\ LiesOn(T, of) /\ (v \in S => of2[w] = of[v])
              /\ \A x \in S \ {v} : of2[x] = of[x]
              => LiesOn(U, of2)
    BY <2>9, TileTaken
  <2> HIDE DEF U, held
  <2>11. LiesOn(U, Place')
    BY <1>4, <2>7, <2>10
  <2> QED  BY <2>8, <2>10, <2>11 DEF TreeInv
<1>8. Follow(w, ws)
  BY DEF MoveToWorkspace
<1> QED  BY <1>6, <1>7, <1>8 DEF MoveToWorkspace

\* The same for a hidden member that floats: no tile is concerned.
LEMMA MoveHiddenTrees ==
  ASSUME GroupInv, TreeInv, NEW w \in Windows, NEW ws \in Workspaces,
         MoveHidden(w, ws), ~parted'
  PROVE  TreeInv'
<1>1. /\ w \in hidden /\ w \in floating /\ w \in Members(next)
      /\ UNCHANGED <<floating, next>> /\ torn' = torn \ Ring(w)
  BY DEF MoveHidden, GroupInv
<1>2. /\ mapped' = mapped
      /\ workspace' = [x \in Windows |-> IF x \in Ring(w) THEN ws ELSE workspace[x]]
  BY <1>1 DEF MoveHidden, Follow, Ring
<1>3. /\ IsForest(tree) /\ HeldBy(tree, Tiled) /\ Tiled \in SUBSET Windows
      /\ LiesOn(tree, Place)
  BY TilesMapped DEF TreeInv
<1>4. ASSUME NEW x \in Ring(w)  PROVE x \in floating
  <2>1. Together(next, x, w) /\ x \in Members(next)
    BY <1>1, RingTogether DEF Ring, GroupInv, Rings
  <2> QED  BY <1>1, <2>1, RingAlike
<1>5. Current(w) \in Members(next) /\ Current(w) \in floating
  <2>1. Current(w) \in Members(next) /\ Together(next, Current(w), w)
    BY <1>1, CurrentInRing
  <2> QED  BY <1>1, <2>1, RingAlike
<1>6. tree' = tree /\ Tiled' = Tiled
  <2>1. Replaced(tree, Current(w), w) = tree
    BY <1>3, <1>5, ReplacedNone DEF Tiled, Members
  <2>2. \/ hidden' = hidden /\ tree' = tree
        \/ hidden' = Exchanged(hidden, w, Current(w)) /\ tree' = tree
    BY <1>1, <2>1 DEF MoveHidden
  <2> HIDE DEF Current
  <2>3. \A x \in mapped \ floating : x \in hidden' <=> x \in hidden
    BY <1>1, <1>5, <2>2 DEF Exchanged, GroupInv
  <2> QED  BY <1>1, <1>2, <2>2, <2>3 DEF Tiled
<1>7. \A x \in Tiled : Place'[x] = Place[x]
  BY <1>1, <1>2, <1>3, <1>4 DEF Tiled, Place
<1>8. LiesOn(tree, Place')
  BY <1>3, <1>7, LiesOnSame
<1> QED  BY <1>3, <1>6, <1>8 DEF TreeInv

\* swapActive: the tiles stay where they are and exchange their windows.
LEMMA SwapTrees ==
  ASSUME GroupInv, TreeInv, SwapActive  PROVE TreeInv'
<1>1. PICK v \in Windows \ {last} :
        LET apart == tree[TileOf(tree, v)].workspace
                       # tree[TileOf(tree, last)].workspace
        IN /\ HasTile(tree, v)
           /\ tree' = Switched(tree, last, v)
           /\ workspace' = IF apart
                           THEN [workspace EXCEPT ![last] = workspace[v],
                                                  ![v] = workspace[last]]
                           ELSE workspace
           /\ torn' = IF apart
                      THEN torn \cup Behind(last, v) \cup Behind(v, last)
                      ELSE torn
  BY DEF SwapActive
<1>2. /\ last \in Windows /\ HasTile(tree, last) /\ Tiled' = Tiled
      /\ last # v /\ HasTile(tree, v)
  BY <1>1 DEF SwapActive, Tiled
<1>3. /\ IsForest(tree) /\ HeldBy(tree, Tiled) /\ Tiled \in SUBSET Windows
      /\ LiesOn(tree, Place) /\ v \in Tiled /\ last \in Tiled
  BY <1>1, <1>2, TilesMapped DEF TreeInv
<1>4. /\ IsForest(tree') /\ HeldBy(tree', Tiled)
      /\ \A of, of2 :
              /\ LiesOn(tree, of)
              /\ of2[last] \in {tree[TileOf(tree, v)].workspace, NoWorkspace}
              /\ of2[v] \in {tree[TileOf(tree, last)].workspace, NoWorkspace}
              /\ \A x \in Tiled \ {last, v} : of2[x] = of[x]
              => LiesOn(tree', of2)
  <2>1. tree' = Switched(tree, last, v)
    BY <1>1
  <2> QED  BY <1>2, <1>3, <2>1, SwitchedForest
<1> DEFINE a == tree[TileOf(tree, last)].workspace
           b == tree[TileOf(tree, v)].workspace
<1>5. Place[last] \in {a, NoWorkspace} /\ Place[v] \in {b, NoWorkspace}
  BY <1>1, <1>2, <1>3, TileFound DEF LiesOn
<1>6. /\ IF a # b
         THEN /\ workspace' = [workspace EXCEPT ![last] = workspace[v],
                                                ![v] = workspace[last]]
              /\ torn' = torn \cup Behind(last, v) \cup Behind(v, last)
         ELSE workspace' = workspace /\ torn' = torn
      /\ workspace[last] # NoWorkspace /\ workspace[v] # NoWorkspace
      /\ last \in mapped \ hidden /\ v \in mapped \ hidden
  BY <1>1, <1>3 DEF Tiled, GroupInv
<1>7. /\ last \in Ring(last) /\ \A x \in Ring(last) : x # last => x \in hidden
      /\ v \in Ring(v) /\ \A x \in Ring(v) : x # v => x \in hidden
  BY <1>6, RingOfShown
<1> HIDE DEF a, b
<1>8. /\ Place'[last] \in {b, NoWorkspace} /\ Place'[v] \in {a, NoWorkspace}
      /\ \A x \in Tiled \ {last, v} : Place'[x] = Place[x]
  <2>1. CASE a = b
    BY <1>5, <1>6, <2>1 DEF Place
  <2>2. CASE a # b
    <3>1. /\ v \in torn => last \in torn'
          /\ last \in torn => v \in torn'
      BY <1>6, <1>7, <2>2 DEF Behind
    <3>2. v \notin torn => workspace[v] = Place[v]
      BY <1>1 DEF Place
    <3>3. last \notin torn => workspace[last] = Place[last]
      BY <1>2 DEF Place
    <3>4. workspace'[last] = workspace[v] /\ workspace'[v] = workspace[last]
      BY <1>1, <1>2, <1>6, <2>2 DEF GroupInv
    <3>5. Place'[last] \in {b, NoWorkspace} /\ Place'[v] \in {a, NoWorkspace}
      BY <1>1, <1>2, <1>5, <1>6, <3>1, <3>2, <3>3, <3>4 DEF Place
    <3>6. ASSUME NEW x \in Tiled \ {last, v}  PROVE Place'[x] = Place[x]
      <4>1. x \notin hidden /\ x \in Windows
        BY <1>3, <3>6 DEF Tiled
      <4>2. x \in torn' <=> x \in torn
        BY <1>6, <1>7, <2>2, <3>6, <4>1 DEF Behind
      <4>3. workspace'[x] = workspace[x]
        BY <1>6, <2>2, <3>6, <4>1 DEF GroupInv
      <4> QED  BY <4>1, <4>2, <4>3 DEF Place
    <3> QED  BY <3>5, <3>6
  <2> QED  BY <2>1, <2>2
<1>9. LiesOn(tree', Place')
  BY <1>3, <1>4, <1>8 DEF a, b
<1> QED  BY <1>2, <1>4, <1>9 DEF TreeInv

LEMMA LayoutTrees ==
  ASSUME GroupInv, TreeInv, LayoutMessage  PROVE TreeInv'
<1>1. /\ last \in Windows /\ HasTile(tree, last)
      /\ UNCHANGED <<workspace, torn>> /\ Tiled' = Tiled
      /\ tree[TileOf(tree, last)].parent # NoNode
      /\ \/ tree' = SplitSwapped(tree, last)
         \/ /\ tree[tree[TileOf(tree, last)].parent].parent # NoNode
            /\ \E stable \in BOOLEAN : tree' = RootMoved(tree, last, stable)
  BY DEF LayoutMessage, Tiled
<1>2. /\ IsForest(tree) /\ HeldBy(tree, Tiled)
      /\ LiesOn(tree, Place)
  BY DEF TreeInv
<1>4. Place' = Place
  BY <1>1 DEF Place
<1>3. IsForest(tree') /\ HeldBy(tree', Tiled) /\ LiesOn(tree', Place')
  <2>1. CASE tree' = SplitSwapped(tree, last)
    BY <1>1, <1>2, <1>4, <2>1, SplitSwappedForest
  <2>2. CASE /\ tree[tree[TileOf(tree, last)].parent].parent # NoNode
             /\ \E stable \in BOOLEAN : tree' = RootMoved(tree, last, stable)
    <3>1. PICK stable \in BOOLEAN : tree' = RootMoved(tree, last, stable)
      BY <2>2
    <3> QED  BY <1>1, <1>2, <1>4, <2>2, <3>1, RootMovedForest
  <2> QED  BY <1>1, <2>1, <2>2
<1> QED  BY <1>1, <1>3 DEF TreeInv

-----------------------------------------------------------------------------
(* Together.                                                                *)

LEMMA HeadFound ==
  ASSUME GroupInv, NEW w \in Members(next)
  PROVE  /\ HeadOf(w) \in Ring(w) /\ HeadOf(w) \in head
         /\ HeadOf(w) \in Members(next) /\ Together(next, HeadOf(w), w)
<1>1. Rings(next, head) /\ Permutes(next)
  BY DEF GroupInv, Rings
<1>2. \E h \in Ring(w) : h \in head
  BY <1>1, RingHead DEF Ring
<1>3. HeadOf(w) \in Ring(w) /\ HeadOf(w) \in head
  BY <1>2 DEF HeadOf
<1> QED  BY <1>1, <1>3, RingTogether DEF Ring

LocksTyped == locked \in SUBSET Windows /\ groupsLocked \in BOOLEAN

Inv == TypeOK /\ (~parted => GroupInv /\ TreeInv)

LEMMA GroupStep ==
  ASSUME Inv, ~parted, [Next]_vars, ~parted'  PROVE GroupInv'
<1>1. GroupInv /\ \A w \in Windows : HasTile(tree, w) => w \in mapped
  BY TilesMapped DEF Inv, Tiled
<1>2. ASSUME NEW w \in Windows, Map(w)  PROVE GroupInv'
  BY <1>1, <1>2, MapStep
<1>3. ASSUME NEW w \in Windows, Unmap(w)  PROVE GroupInv'
  BY <1>1, <1>3, UnmapStep
<1>4. ASSUME NEW w \in Windows, FocusWindow(w)  PROVE GroupInv'
  BY <1>1, <1>4, FocusStep
<1>5. ASSUME NEW w \in Windows, ToggleFloating(w)  PROVE GroupInv'
  BY <1>1, <1>5, ToggleFloatingStep
<1>6. CASE ToggleGroup
  BY <1>1, <1>6, ToggleStep
<1>7. CASE ChangeGroupActive
  BY <1>1, <1>7, FocusStep
<1>8. CASE MoveGroupWindow
  BY <1>1, <1>8, MoveGroupWindowStep
<1>13. ASSUME NEW w \in Windows, NEW ws \in Workspaces, MoveHidden(w, ws)
       PROVE  GroupInv'
  BY <1>1, <1>13, MoveHiddenStep
<1>9. CASE \/ LockGroups \/ LockActiveGroup \/ LayoutMessage \/ UNCHANGED vars
           \/ Parted \/ \E w \in Windows : Pin(w)
  <2>1. UNCHANGED <<mapped, floating, hidden, workspace, next, head, last, torn>>
    BY <1>9 DEF LockGroups, LockActiveGroup, LayoutMessage, Parted, Pin, vars,
                groups
  <2> QED  BY <1>1, <2>1 DEF GroupInv, Place
<1>10. CASE MoveIntoGroup \/ MoveOutOfGroup \/ MoveWindowOrGroup
  BY <1>1, <1>10, MoveStep
<1>11. ASSUME NEW w \in Windows, NEW ws \in Workspaces, MoveToWorkspace(w, ws)
       PROVE  GroupInv'
  BY <1>1, <1>11, MoveToWorkspaceStep
<1>12. CASE SwapActive
  BY <1>1, <1>12, SwapStep
<1> QED  BY <1>2, <1>3, <1>4, <1>5, <1>6, <1>7, <1>8, <1>9, <1>10, <1>11,
            <1>12, <1>13 DEF Next

LEMMA TreeStep ==
  ASSUME Inv, ~parted, [Next]_vars, ~parted'  PROVE TreeInv'
<1>1. GroupInv /\ TreeInv
  BY DEF Inv
<1>2. ASSUME NEW w \in Windows, Map(w)  PROVE TreeInv'
  BY <1>1, <1>2, MapTrees
<1>3. ASSUME NEW w \in Windows, Unmap(w)  PROVE TreeInv'
  BY <1>1, <1>3, UnmapTrees
<1>4. ASSUME NEW w \in Windows, FocusWindow(w)  PROVE TreeInv'
  BY <1>1, <1>4, FocusTrees
<1>5. ASSUME NEW w \in Windows, ToggleFloating(w)  PROVE TreeInv'
  BY <1>1, <1>5, ToggleFloatingTrees
<1>6. CASE ToggleGroup
  BY <1>1, <1>6, ToggleTrees
<1>7. CASE ChangeGroupActive
  BY <1>1, <1>7, FocusTrees
<1>13. ASSUME NEW w \in Windows, NEW ws \in Workspaces, MoveHidden(w, ws)
       PROVE  TreeInv'
  BY <1>1, <1>13, MoveHiddenTrees
<1>8. CASE \/ MoveGroupWindow \/ LockGroups \/ LockActiveGroup \/ UNCHANGED vars
           \/ Parted \/ \E w \in Windows : Pin(w)
  <2>1. UNCHANGED <<mapped, floating, hidden, workspace, tree, torn>>
    BY <1>8 DEF MoveGroupWindow, LockGroups, LockActiveGroup, Parted, Pin, vars
  <2> QED  BY <1>1, <2>1, SameTrees DEF Tiled
<1>9. CASE LayoutMessage
  BY <1>1, <1>9, LayoutTrees
<1>10. CASE MoveIntoGroup \/ MoveOutOfGroup \/ MoveWindowOrGroup
  BY <1>1, <1>10, MoveTrees
<1>11. ASSUME NEW w \in Windows, NEW ws \in Workspaces, MoveToWorkspace(w, ws)
       PROVE  TreeInv'
  BY <1>1, <1>11, MoveToWorkspaceTrees
<1>12. CASE SwapActive
  BY <1>1, <1>12, SwapTrees
<1> QED  BY <1>2, <1>3, <1>4, <1>5, <1>6, <1>7, <1>8, <1>9, <1>10, <1>11,
            <1>12, <1>13 DEF Next

LEMMA LocksStep ==
  ASSUME Inv, ~parted, [Next]_vars  PROVE LocksTyped'
<1>1. GroupInv /\ locked \in SUBSET Windows /\ groupsLocked \in BOOLEAN
  BY DEF Inv, TypeOK
<1>2. /\ \A v, w : Exchanged(locked, v, w) \in SUBSET Windows
      /\ \A w : LockedWithout(w) \in SUBSET Windows
  BY <1>1 DEF Exchanged, LockedWithout
<1>3. \A w \in Grouped : HeadOf(w) \in Windows
  BY <1>1, HeadFound DEF Members, Grouped
<1>4. groupsLocked' \in BOOLEAN
  <2>1. groupsLocked' \in {groupsLocked, ~groupsLocked}
    BY DEF Next, vars, Map, Unmap, FocusWindow, ToggleFloating, ToggleGroup,
           CreateGroup, DestroyGroup, ChangeGroupActive, MoveGroupWindow,
           LockGroups, LockActiveGroup, MoveIntoGroup, IntoGroup, MoveOutOfGroup,
           OutOfGroup, DissolveAlone, MoveWindowOrGroup, MoveTile, MoveToWorkspace,
           MoveHidden, Follow, Pin, Parted, SwapActive, LayoutMessage
  <2> QED  BY <1>1, <2>1
<1> SUFFICES locked' \in SUBSET Windows
  BY <1>4 DEF LocksTyped
<1>5. ASSUME NEW w \in Windows, Map(w)  PROVE locked' \in SUBSET Windows
  <2>1. PICK ws \in Workspaces, floats \in BOOLEAN :
          MapAlone(w, ws, floats) \/ MapIntoGroup(w, ws, floats)
    BY <1>5 DEF Map
  <2>2. CASE MapAlone(w, ws, floats)
    BY <1>1, <2>2 DEF MapAlone, groups
  <2>3. CASE MapIntoGroup(w, ws, floats)
    <3>1. PICK v \in Grouped :
            locked' = IF w \in LockAlways THEN locked \cup {HeadOf(v)} ELSE locked
      BY <2>3 DEF MapIntoGroup, Joins
    <3> QED  BY <1>1, <1>3, <3>1
  <2> QED  BY <2>1, <2>2, <2>3
<1>6. ASSUME NEW w \in Windows, Unmap(w)  PROVE locked' \in SUBSET Windows
  BY <1>2, <1>6 DEF Unmap
<1>7. CASE ToggleGroup
  <2>1. CASE CreateGroup
    BY <1>1, <2>1 DEF CreateGroup
  <2>2. CASE DestroyGroup
    <3>1. Ring(last) \in SUBSET Windows
      BY <1>1, <2>2, RingOfMembers DEF DestroyGroup, Grouped, Members, GroupInv
    <3>2. CASE DissolveAlone(last)
      BY <1>1, <3>2 DEF DissolveAlone
    <3>3. CASE DissolveRing(last)
      BY <1>1, <3>1, <3>3 DEF DissolveRing
    <3> QED  BY <2>2, <3>2, <3>3 DEF DestroyGroup
  <2> QED  BY <1>7, <2>1, <2>2 DEF ToggleGroup
<1>8. CASE MoveGroupWindow
  BY <1>2, <1>8 DEF MoveGroupWindow
<1>9. CASE LockActiveGroup
  BY <1>1, <1>3, <1>9 DEF LockActiveGroup
<1>10. ASSUME NEW w \in Windows, OutOfGroup(w)  PROVE locked' \in SUBSET Windows
  <2>1. CASE next[w] = w
    BY <1>1, <1>10, <2>1 DEF OutOfGroup, DissolveAlone
  <2>2. CASE next[w] # w
    <3>1. locked' \in {LockedWithout(w), LockedWithout(w) \cup {w},
                       LockedWithout(w) \ {w}}
      BY <1>10, <2>2 DEF OutOfGroup
    <3> QED  BY <1>2, <1>10, <3>1
  <2> QED  BY <2>1, <2>2
<1>11. CASE MoveIntoGroup \/ MoveOutOfGroup \/ MoveWindowOrGroup
  <2>1. \/ MoveTile(last) \/ \E v \in Windows : IntoGroup(v)
        \/ \E w \in Windows : OutOfGroup(w)
    BY <1>11 DEF MoveIntoGroup, MoveOutOfGroup, MoveWindowOrGroup, Grouped
  <2>2. CASE MoveTile(last)
    BY <1>1, <2>2 DEF MoveTile, groups
  <2>3. CASE \E v \in Windows : IntoGroup(v)
    BY <1>2, <2>3 DEF IntoGroup
  <2>4. CASE \E w \in Windows : OutOfGroup(w)
    BY <1>10, <2>4
  <2> QED  BY <2>1, <2>2, <2>3, <2>4
<1>12. CASE UNCHANGED locked
  BY <1>1, <1>12
<1>13. ASSUME NEW w \in Windows, FocusWindow(w) \/ ToggleFloating(w) \/ Pin(w)
       PROVE  UNCHANGED locked
  BY <1>13 DEF FocusWindow, ToggleFloating, Pin, groups
<1>14. ASSUME \/ ChangeGroupActive \/ LockGroups \/ SwapActive \/ LayoutMessage
              \/ UNCHANGED vars \/ Parted
              \/ \E w \in Windows, ws \in Workspaces :
                   MoveToWorkspace(w, ws) \/ MoveHidden(w, ws)
       PROVE  UNCHANGED locked
  BY <1>14 DEF ChangeGroupActive, LockGroups, SwapActive, LayoutMessage,
               MoveToWorkspace, MoveHidden, Follow, Parted, groups, vars
<1> QED  BY <1>5, <1>6, <1>7, <1>8, <1>9, <1>11, <1>12, <1>13, <1>14 DEF Next

LEMMA InvInit ==
  ASSUME Init  PROVE Inv
<1>1. /\ Members(next) = {} /\ next \in [Windows -> Windows \cup {NoWindow}]
      /\ head = {} /\ hidden = {} /\ mapped = {} /\ floating = {}
      /\ last = NoWindow /\ torn = {} /\ locked = {} /\ groupsLocked = FALSE
      /\ pinned = {} /\ parted = FALSE
      /\ workspace = [w \in Windows |-> NoWorkspace]
  BY DEF Init, Members
<1>2. \A S : Closed(next, S) => S = {}
  BY <1>1 DEF Closed
<1>3. \A hd \in SUBSET Windows : Rings(next, hd)
  BY <1>1, <1>2 DEF Rings, Permutes, Headed, Separated
<1>4. /\ \A A : Agrees(next, A)
      /\ PlacesAgree(next, Place)
  BY <1>1 DEF Agrees, Closed, PlacesAgree
<1>5. GroupInv
  <2>1. Rings(next, head) /\ Rings(next, Windows \ hidden)
    BY <1>1, <1>3
  <2> QED  BY <1>1, <1>4, <2>1 DEF GroupInv
<1>6. DOMAIN tree = {} /\ Tiled = {}
  BY <1>1 DEF Init, Tiled
<1>7. IsForest(tree)
  <2>1. tree \in [DOMAIN tree -> Nodes]
    BY <1>6 DEF Init
  <2> QED  BY <1>6, <2>1 DEF IsForest, Linked, Grounded, OneRoot
<1>8. HeldBy(tree, Tiled) /\ LiesOn(tree, Place)
  BY <1>6 DEF HeldBy, HasTile, TilesOf, LiesOn
<1>9. TypeOK
  BY <1>1, <1>6, GroupAssumption DEF TypeOK
<1> QED  BY <1>5, <1>7, <1>8, <1>9 DEF Inv, TreeInv

LEMMA PinnedStep ==
  ASSUME pinned \subseteq mapped, [Next]_vars  PROVE pinned' \subseteq mapped'
<1>1. ASSUME NEW w \in Windows, Map(w)  PROVE pinned' \subseteq mapped'
  BY <1>1 DEF Map
<1>2. ASSUME NEW w \in Windows, Unmap(w)  PROVE pinned' \subseteq mapped'
  BY <1>2 DEF Unmap
<1>3. ASSUME NEW w \in Windows, ToggleFloating(w)  PROVE pinned' \subseteq mapped'
  BY <1>3 DEF ToggleFloating
<1>4. ASSUME NEW w \in Windows, Pin(w)  PROVE pinned' \subseteq mapped'
  BY <1>4 DEF Pin
<1>5. CASE \/ ToggleGroup \/ ChangeGroupActive \/ MoveGroupWindow \/ LockGroups
           \/ LockActiveGroup \/ SwapActive \/ LayoutMessage \/ Parted
           \/ UNCHANGED vars \/ \E w \in Windows : FocusWindow(w)
  <2>1. UNCHANGED <<pinned, mapped>>
    BY <1>5 DEF ToggleGroup, CreateGroup, DestroyGroup, ChangeGroupActive,
                MoveGroupWindow, LockGroups, LockActiveGroup, SwapActive,
                LayoutMessage, Parted, FocusWindow, vars
  <2> QED  BY <2>1
<1>6. CASE MoveIntoGroup \/ MoveOutOfGroup \/ MoveWindowOrGroup
  <2>1. \/ MoveTile(last) \/ \E v \in Windows : IntoGroup(v)
        \/ \E w \in Windows : OutOfGroup(w)
    BY <1>6 DEF MoveIntoGroup, MoveOutOfGroup, MoveWindowOrGroup, Grouped
  <2>2. UNCHANGED <<pinned, mapped>>
    BY <2>1 DEF MoveTile, IntoGroup, OutOfGroup
  <2> QED  BY <2>2
<1>7. ASSUME NEW w \in Windows, NEW ws \in Workspaces,
             MoveToWorkspace(w, ws) \/ MoveHidden(w, ws)
      PROVE  pinned' \subseteq mapped'
  BY <1>7 DEF MoveToWorkspace, MoveHidden, Follow
<1> QED  BY <1>1, <1>2, <1>3, <1>4, <1>5, <1>6, <1>7 DEF Next

\* The parts together are the type invariant.
LEMMA TypeStep ==
  ASSUME Inv, ~parted, [Next]_vars, ~parted', parted' \in BOOLEAN  PROVE TypeOK'
<1>1. GroupInv' /\ TreeInv' /\ LocksTyped' /\ pinned' \subseteq mapped'
  BY GroupStep, TreeStep, LocksStep, PinnedStep DEF Inv, TypeOK
<1>2. /\ mapped' \subseteq Windows /\ floating' \subseteq Windows
      /\ head' \subseteq Windows /\ torn' \subseteq mapped'
      /\ workspace' \in [Windows -> Workspaces \cup {NoWorkspace}]
      /\ mapped' = {w \in Windows : workspace'[w] # NoWorkspace}
      /\ next' \in [Windows -> Windows \cup {NoWindow}]
  BY <1>1 DEF GroupInv, Rings, Permutes
<1>3. hidden' \subseteq Windows /\ last' \in Windows \cup {NoWindow}
  BY <1>1, <1>2 DEF GroupInv, Members
<1>4. /\ DOMAIN tree' \subseteq NodeIds
      /\ \A n \in DOMAIN tree' : tree'[n] \in Nodes
  BY <1>1 DEF TreeInv, IsForest
<1> QED  BY <1>1, <1>2, <1>3, <1>4 DEF TypeOK, LocksTyped

NodesTyped(T) ==
  DOMAIN T \subseteq NodeIds /\ \A n \in DOMAIN T : T[n] \in Nodes

LEMMA ReplacedTyped ==
  ASSUME NEW T, NodesTyped(T), NEW from \in Windows, NEW to \in Windows
  PROVE  NodesTyped(Replaced(T, from, to))
<1>1. CASE HasTile(T, from)
  <2>1. TileOf(T, from) \in DOMAIN T
    BY <1>1, TileFound
  <2>2. Holding(T[TileOf(T, from)], to) \in Nodes
    BY <2>1 DEF NodesTyped, Holding, Nodes
  <2> QED  BY <1>1, <2>1, <2>2 DEF NodesTyped, Replaced
<1>2. CASE ~HasTile(T, from)
  BY <1>2 DEF Replaced
<1> QED  BY <1>1, <1>2

\* The rings stay rings when a hidden member is moved.
LEMMA HiddenMoves ==
  ASSUME GroupInv, NEW w \in Windows, NEW ws \in Workspaces, MoveHidden(w, ws)
  PROVE  /\ Permutes(next') /\ Members(next') = Members(next)
         /\ w \in Members(next') /\ Ring(w) \in SUBSET Windows
         /\ head' \subseteq Windows
<1>1. /\ w \in Members(next) /\ Permutes(next) /\ Rings(next, head)
      /\ head \subseteq Windows
  BY DEF MoveHidden, GroupInv, Rings
<1>2. Ring(w) \in SUBSET Windows
  BY <1>1, RingAgrees DEF Ring
<1>3. CASE UNCHANGED <<next, head>>
  BY <1>1, <1>2, <1>3
<1>4. CASE \E v \in Hosts(w, ws) : \E at \in {v, TailOf(v)} : Merges(w, v, at)
  <2>1. PICK v \in Members(next) : \E at \in {v, TailOf(v)} : Merges(w, v, at)
    BY <1>4 DEF Hosts, Grouped, Members
  <2>2. PICK at \in {v, TailOf(v)} : Merges(w, v, at)
    BY <2>1
  <2> DEFINE b == TailOf(w)
  <2>3. /\ at \in Members(next) /\ b \in Members(next)
        /\ SplicedRing(next, at, HeadOf(w), b) = Crossed(next, at, b)
    BY <1>1, RingSpliced
  <2>4. next' = SplicedRing(next, at, HeadOf(w), b) /\ head' \subseteq head
    BY <1>1, <2>2 DEF Merges, Grouped, Members
  <2> HIDE DEF b
  <2>5. Permutes(next') /\ Members(next') = Members(next)
    BY <1>1, <2>3, <2>4, CrossedPermutes
  <2> QED  BY <1>1, <1>2, <2>4, <2>5
<1> QED  BY <1>3, <1>4 DEF MoveHidden

\* Even if a group is taken apart, all the variables keep their types.
LEMMA HiddenTyped ==
  ASSUME Inv, ~parted, NEW w \in Windows, NEW ws \in Workspaces,
         MoveHidden(w, ws)
  PROVE  TypeOK'
<1>1. GroupInv /\ TreeInv /\ TypeOK
  BY DEF Inv
<1>2. /\ w \in hidden /\ w \in Members(next) /\ w \in mapped
      /\ mapped' = mapped /\ locked' = locked /\ groupsLocked' = groupsLocked
      /\ pinned' = pinned
      /\ workspace' = [x \in Windows |-> IF x \in RingIn(next', w) THEN ws
                                         ELSE workspace[x]]
  BY <1>1 DEF MoveHidden, Follow, GroupInv
<1>3. /\ Permutes(next') /\ Members(next') = Members(next)
      /\ w \in Members(next') /\ Ring(w) \in SUBSET Windows
      /\ head' \subseteq Windows
  BY <1>1, HiddenMoves
<1>4. RingIn(next', w) \subseteq mapped
  <2>1. RingIn(next', w) \subseteq Members(next')
    BY <1>3, RingClosed DEF Closed
  <2> QED  BY <1>1, <1>3, <2>1 DEF GroupInv
<1>5. /\ workspace' \in [Windows -> Workspaces \cup {NoWorkspace}]
      /\ mapped' = {x \in Windows : workspace'[x] # NoWorkspace}
  BY <1>1, <1>2, <1>4, GroupAssumption DEF TypeOK
<1>6. /\ parted' \in BOOLEAN /\ floating' \subseteq Windows
      /\ torn' \subseteq mapped'
  <2>1. CASE /\ torn' = torn \ Ring(w) /\ parted' = (w \notin floating)
             /\ UNCHANGED floating
    BY <1>1, <1>2, <2>1 DEF TypeOK
  <2>2. CASE parted' = TRUE /\ \E v, at : Merges(w, v, at)
    <3>1. PICK v, at : Merges(w, v, at)
      BY <2>2
    <3>2. floating' \in {floating \cup Ring(w), floating \ Ring(w)}
      BY <3>1 DEF Merges
    <3>3. torn' \in {torn \cup RingIn(next', w), torn \ RingIn(next', w)}
      BY <3>1 DEF Merges
    <3>4. floating' \subseteq Windows
      BY <1>1, <1>3, <3>2 DEF TypeOK
    <3>5. torn' \subseteq mapped'
      BY <1>1, <1>2, <1>4, <3>3 DEF TypeOK
    <3> QED  BY <2>2, <3>4, <3>5
  <2> QED  BY <2>1, <2>2 DEF MoveHidden
<1>7. hidden' \subseteq Windows /\ last' \in Windows \cup {NoWindow}
  <2>1. hidden' \subseteq Windows
    <3>1. CASE hidden' = hidden \/ hidden' = Exchanged(hidden, w, Current(w))
      BY <1>1, <3>1 DEF Exchanged, TypeOK
    <3>2. CASE \E v \in Windows : hidden' = (hidden \cup {v}) \ {w}
      BY <1>1, <3>2 DEF TypeOK
    <3> QED  BY <3>1, <3>2 DEF MoveHidden, Merges, Hosts, Grouped
  <2>2. last' \in {last, w, NoWindow} \cup mapped
    BY DEF MoveHidden, FocusAfter
  <2> QED  BY <1>1, <2>1, <2>2 DEF TypeOK
<1>8. NodesTyped(tree')
  <2>1. /\ IsForest(tree) /\ HeldBy(tree, Tiled) /\ w \in Windows \ Tiled
    BY <1>1, <1>2 DEF TreeInv, Tiled
  <2>2. \A T : IsForest(T) => NodesTyped(T)
    BY DEF IsForest, NodesTyped
  <2>3. CASE \E T \in IF w \in floating THEN {tree} ELSE Inserted(tree, w, ws) :
               tree' = T \/ tree' = Replaced(T, Current(w), w)
    <3>1. PICK T \in IF w \in floating THEN {tree} ELSE Inserted(tree, w, ws) :
            tree' = T \/ tree' = Replaced(T, Current(w), w)
      BY <2>3
    <3>2. IsForest(T)
      BY <2>1, <3>1, InsertedForest
    <3>3. Current(w) \in Windows
      BY <1>1, <1>2, CurrentInRing DEF Members
    <3> QED  BY <2>2, <3>1, <3>2, <3>3, ReplacedTyped
  <2>4. CASE \E v \in Windows : \/ tree' = Replaced(WithoutTile(w), v, w)
                               \/ tree' = WithoutTile(w)
    <3>1. NodesTyped(WithoutTile(w))
      BY <2>1, <2>2, RemovedForest DEF WithoutTile
    <3> QED  BY <2>4, <3>1, ReplacedTyped
  <2> QED  BY <2>3, <2>4 DEF MoveHidden, Merges, Hosts, Grouped
<1> QED  BY <1>1, <1>2, <1>3, <1>5, <1>6, <1>7, <1>8
         DEF TypeOK, Permutes, NodesTyped

\* Nothing follows when a group was taken apart, and nothing but the move of a
\* hidden member takes one apart.
LEMMA StillParted ==
  ASSUME parted, [Next]_vars  PROVE UNCHANGED vars
BY DEF Next, Parted, Whole, Map, Unmap, FocusWindow, ToggleFloating, Pin,
       ToggleGroup, CreateGroup, DestroyGroup, ChangeGroupActive,
       MoveGroupWindow, LockGroups, LockActiveGroup, MoveIntoGroup,
       MoveOutOfGroup, MoveWindowOrGroup, MoveToWorkspace, MoveHidden,
       SwapActive, LayoutMessage

LEMMA StillWhole ==
  ASSUME ~parted, [Next]_vars,
         ~ \E w \in Windows, ws \in Workspaces : MoveHidden(w, ws)
  PROVE  parted' = parted
BY DEF Next, Parted, Whole, Map, Unmap, FocusWindow, ToggleFloating, Pin,
       ToggleGroup, CreateGroup, DestroyGroup, ChangeGroupActive,
       MoveGroupWindow, LockGroups, LockActiveGroup, MoveIntoGroup,
       MoveOutOfGroup, MoveWindowOrGroup, MoveToWorkspace, SwapActive,
       LayoutMessage, vars

LEMMA InvStep ==
  ASSUME Inv, [Next]_vars  PROVE Inv'
<1>1. CASE parted
  <2>1. UNCHANGED vars
    BY <1>1, StillParted
  <2> QED  BY <2>1 DEF vars, Inv, TypeOK, GroupInv, TreeInv, Tiled, Place
<1>2. CASE ~parted
  <2>1. CASE \E w \in Windows, ws \in Workspaces : MoveHidden(w, ws)
    <3>1. TypeOK'
      BY <1>2, <2>1, HiddenTyped
    <3>2. ASSUME ~parted'  PROVE GroupInv' /\ TreeInv'
      BY <1>2, <3>2, GroupStep, TreeStep
    <3> QED  BY <3>1, <3>2 DEF Inv
  <2>2. CASE ~ \E w \in Windows, ws \in Workspaces : MoveHidden(w, ws)
    <3>1. parted' = parted
      BY <1>2, <2>2, StillWhole
    <3>2. ~parted' /\ parted' \in BOOLEAN
      BY <1>2, <3>1 DEF Inv, TypeOK
    <3> QED  BY <1>2, <3>2, GroupStep, TreeStep, TypeStep DEF Inv
  <2> QED  BY <2>1, <2>2
<1> QED  BY <1>1, <1>2

\* Everything above holds in every state that can be reached, until a hidden
\* member is moved as if it were shown; the types hold then, too.
THEOREM GroupsAndTrees == Spec => []Inv
<1>1. Init => Inv
  BY InvInit
<1>2. Inv /\ [Next]_vars => Inv'
  BY InvStep
<1> QED  BY <1>1, <1>2, PTL DEF Spec

\* However windows are grouped, moved, shown and closed, a walk along a group
\* comes back to where it began, and getGroupHead and getGroupTail find one
\* head on it: until a hidden member is moved as if it were shown, which may
\* leave a ring without a head.
THEOREM GroupsStaySound == Spec => []GroupsSound
<1>1. Inv /\ ~parted => RingsIntact
  BY DEF Inv, GroupInv, Rings, Permutes, Members, RingsIntact, Grouped
<1>2. ASSUME Inv, ~parted  PROVE OneHead
  <2> SUFFICES ASSUME NEW w \in Grouped
               PROVE  Cardinality(Ring(w) \cap head) = 1
    BY DEF OneHead
  <2>1. w \in Members(next) /\ Rings(next, head)
    BY <1>2 DEF Grouped, Members, Inv, GroupInv
  <2>2. PICK h \in Ring(w) : h \in head /\ \A g \in Ring(w) : g \in head => g = h
    BY <2>1, RingHead DEF Ring
  <2>3. Ring(w) \cap head = {h}
    BY <2>2
  <2> QED  BY <2>3, FS_Singleton
<1>3. Inv => GroupsSound
  BY <1>1, <1>2 DEF GroupsSound
<1> QED  BY <1>3, GroupsAndTrees, PTL

\* A group is one window to the rest of the compositor, until a hidden member
\* is moved as if it were shown: setGroupCurrent and the others keep one member
\* shown, every way in and out keeps the members floating alike, the focus never
\* goes to a member that is hidden, and a group is on one workspace but for those
\* that a swap left on two.
THEOREM GroupsStayTogether == Spec => []GroupsActAsOne
<1>1. ASSUME Inv, ~parted, NEW w \in Grouped, NEW v \in Ring(w)
      PROVE  /\ v \in floating <=> w \in floating
             /\ Place[v] = Place[w]
  <2>1. w \in Members(next) /\ Permutes(next) /\ GroupInv
    BY <1>1 DEF Grouped, Members, Inv, GroupInv, Rings
  <2>2. Together(next, v, w) /\ v \in Members(next)
    BY <1>1, <2>1, RingTogether DEF Ring
  <2> QED  BY <2>1, <2>2, RingAlike
<1>2. ASSUME Inv, ~parted  PROVE OneShown
  <2>1. hidden \subseteq Grouped \cap mapped
    BY <1>2 DEF Inv, GroupInv, Members, Grouped
  <2>2. ASSUME NEW w \in Grouped  PROVE Cardinality(Ring(w) \ hidden) = 1
    <3>1. w \in Members(next) /\ Rings(next, Windows \ hidden)
      BY <1>2 DEF Grouped, Members, Inv, GroupInv
    <3>2. PICK c \in Ring(w) : /\ c \in Windows \ hidden
                               /\ \A g \in Ring(w) : g \in Windows \ hidden => g = c
      BY <3>1, RingHead DEF Ring
    <3>3. Ring(w) \subseteq Windows
      BY <3>1, RingAgrees DEF Ring, Rings, Members
    <3>4. Ring(w) \ hidden = {c}
      BY <3>2, <3>3
    <3> QED  BY <3>4, FS_Singleton
  <2> QED  BY <2>1, <2>2 DEF OneShown
<1>3. Inv /\ ~parted => GroupsAgree
  BY <1>1 DEF GroupsAgree
<1>4. ASSUME Inv, ~parted  PROVE GroupsTogether
  <2>1. ASSUME NEW w \in Grouped \ torn, NEW v \in Ring(w)
        PROVE  workspace[v] = workspace[w]
    <3>1. Place[v] = Place[w]
      BY <1>1, <1>4, <2>1
    <3>2. v \in Windows /\ w \in Windows /\ w \in Members(next)
      BY <2>1 DEF Ring, RingIn, Grouped, Members
    <3>3. workspace[w] # NoWorkspace
      BY <1>4, <3>2 DEF Inv, GroupInv
    <3> QED  BY <2>1, <3>1, <3>2, <3>3 DEF Place
  <2>2. ASSUME NEW n \in DOMAIN tree, IsTile(tree, n), tree[n].window \notin torn
        PROVE  tree[n].workspace = workspace[tree[n].window]
    <3> DEFINE w == tree[n].window
    <3>1. HeldBy(tree, Tiled) /\ LiesOn(tree, Place) /\ GroupInv
      BY <1>4 DEF Inv, TreeInv
    <3>2. w \in Windows
      BY <1>4, <2>2 DEF Inv, TypeOK, Nodes, IsTile
    <3>3. w \in Tiled
      BY <3>1, <3>2 DEF HeldBy, HasTile, TilesOf
    <3>4. Place[w] \in {tree[n].workspace, NoWorkspace}
      BY <2>2, <3>1 DEF LiesOn
    <3>5. Place[w] = workspace[w] /\ workspace[w] # NoWorkspace
      BY <2>2, <3>1, <3>2, <3>3 DEF Place, Tiled, GroupInv
    <3> QED  BY <3>4, <3>5
  <2> QED  BY <2>1, <2>2 DEF GroupsTogether
<1>5. Inv /\ ~parted => FocusIsShown
  BY DEF Inv, GroupInv, FocusIsShown
<1>6. Inv => GroupsActAsOne
  BY <1>2, <1>3, <1>4, <1>5 DEF GroupsActAsOne
<1> QED  BY <1>6, GroupsAndTrees, PTL

\* The tiling stays sound: through every operation of the groups and of the
\* dwindle layout each workspace keeps one tree, linked both ways, and a window
\* has a tile just when it is mapped, shown and does not float: until a hidden
\* member is moved as if it were shown, which then has a tile as well.
THEOREM TilingStaysSound == Spec => []TilingSound
<1>1. Inv => TypeOK
  BY DEF Inv
<1>2. ASSUME Inv, ~parted  PROVE TreesIntact
  <2>1. IsForest(tree) /\ Linked(tree) /\ OneRoot(tree)
    BY <1>2 DEF Inv, TreeInv, IsForest
  <2>2. \A n \in DOMAIN tree : \E r \in Ancestors(tree, n) : tree[r].parent = NoNode
    BY <2>1, RootFound
  <2> QED  BY <2>1, <2>2 DEF TreesIntact, Rooted, OneRoot
<1>3. ASSUME Inv, ~parted  PROVE TilesFit
  <2> SUFFICES ASSUME NEW w \in Windows
               PROVE  Cardinality(TilesOf(tree, w)) = IF w \in Tiled THEN 1 ELSE 0
    BY DEF TilesFit, Tiled
  <2>1. HeldBy(tree, Tiled)
    BY <1>3 DEF Inv, TreeInv
  <2>2. CASE w \in Tiled
    <3>1. HasTile(tree, w)
      BY <2>1, <2>2 DEF HeldBy
    <3>2. TilesOf(tree, w) = {TileOf(tree, w)}
      BY <2>1, <3>1, TileFound, OneTile DEF TilesOf
    <3> QED  BY <2>2, <3>2, FS_Singleton
  <2>3. CASE w \notin Tiled
    <3>1. TilesOf(tree, w) = {}
      BY <2>1, <2>3 DEF HeldBy, HasTile
    <3> QED  BY <2>3, <3>1, FS_EmptySet
  <2> QED  BY <2>2, <2>3
<1>4. Inv => TilingSound
  BY <1>1, <1>2, <1>3 DEF TilingSound
<1> QED  BY <1>4, GroupsAndTrees, PTL

-----------------------------------------------------------------------------
(* Who comes into whose group.                                              *)

\* A ring to which nothing is linked does not grow.
LEMMA NoneJoins ==
  ASSUME NEW nx, Permutes(nx), NEW new, Permutes(new),
         \A A \in SUBSET Windows : Agrees(nx, A) => Agrees(new, A),
         NEW v \in Windows
  PROVE  RingIn(new, v) \subseteq RingIn(nx, v)
<1>1. v \in RingIn(nx, v)
  BY RingClosed DEF RingIn, Members
<1>2. CASE v \in Members(new)
  <2>1. Closed(new, Members(new) \cap RingIn(nx, v))
    BY RingAgrees DEF Agrees
  <2>2. Members(new) \cap RingIn(nx, v) \in SUBSET Windows
    BY DEF Members
  <2> QED  BY <1>1, <1>2, <2>1, <2>2, RingClosed
<1>3. CASE v \notin Members(new)
  BY <1>1, <1>3 DEF RingIn, Members
<1> QED  BY <1>2, <1>3

\* When two rings are linked, it is their members that come together.
LEMMA OnlyTheseJoin ==
  ASSUME NEW nx, Permutes(nx), NEW new, Permutes(new),
         NEW a \in Windows, NEW b \in Windows,
         \A A \in SUBSET Windows :
           Agrees(nx, A) /\ (a \in A <=> b \in A) => Agrees(new, A),
         NEW v \in Windows, NEW w \in RingIn(new, v) \ RingIn(nx, v)
  PROVE  {v, w} \subseteq RingIn(nx, a) \cup RingIn(nx, b)
<1> DEFINE A == RingIn(nx, a)
           B == RingIn(nx, b)
<1>1. /\ v \in RingIn(nx, v) /\ a \in A /\ b \in B
  BY RingClosed DEF RingIn, Members
<1>2. v \in Members(new)
  BY <1>1 DEF RingIn, Members
<1>3. \A R \in SUBSET Windows :
        Agrees(new, R) /\ v \in R => RingIn(new, v) \subseteq R
  <2> SUFFICES ASSUME NEW R \in SUBSET Windows, Agrees(new, R), v \in R
               PROVE  RingIn(new, v) \subseteq R
    OBVIOUS
  <2>1. Closed(new, Members(new) \cap R) /\ v \in Members(new) \cap R
    BY <1>2 DEF Agrees
  <2>2. Members(new) \cap R \in SUBSET Windows
    OBVIOUS
  <2> QED  BY <1>2, <2>1, <2>2, RingClosed
<1>4. /\ Agrees(nx, A) /\ A \in SUBSET Windows
      /\ Agrees(nx, B) /\ B \in SUBSET Windows
      /\ Agrees(nx, RingIn(nx, v)) /\ RingIn(nx, v) \in SUBSET Windows
  BY RingAgrees
<1>5. a \in RingIn(nx, v) \/ b \in RingIn(nx, v)
  BY <1>1, <1>3, <1>4
<1>6. ASSUME NEW c \in Windows, c \in RingIn(nx, v)
      PROVE  v \in RingIn(nx, c)
  <2>1. CASE v \in Members(nx)
    <3>1. Together(nx, c, v) /\ c \in Members(nx)
      BY <1>6, <2>1, RingTogether
    <3>2. Together(nx, v, c)
      BY <3>1 DEF Together
    <3> QED  BY <3>1, <3>2, TogetherInRing
  <2>2. CASE v \notin Members(nx)
    <3>1. c = v
      BY <1>6, <2>2 DEF RingIn, Members
    <3> QED  BY <1>1, <3>1
  <2> QED  BY <2>1, <2>2
<1>7. v \in A \cup B
  BY <1>5, <1>6
<1>8. Agrees(nx, A \cup B) /\ A \cup B \in SUBSET Windows
  BY <1>4, AgreesWithRing
<1> HIDE DEF A, B
<1>9. Agrees(new, A \cup B)
  BY <1>1, <1>8
<1>10. RingIn(new, v) \subseteq A \cup B
  BY <1>3, <1>7, <1>8, <1>9
<1>11. w \in RingIn(new, v)
  OBVIOUS
<1>12. v \in A \cup B /\ w \in A \cup B
  BY <1>7, <1>10, <1>11
<1> QED  BY <1>12 DEF A, B

\* The members of a ring have the same head.
LEMMA HeadShared ==
  ASSUME GroupInv, NEW a \in Windows, NEW x \in Ring(a), x \in Members(next)
  PROVE  a \in Members(next) /\ HeadOf(x) = HeadOf(a)
<1>1. a \in Members(next)
  BY DEF Ring, RingIn, Members
<1>2. Permutes(next) /\ Rings(next, head)
  BY DEF GroupInv, Rings
<1>3. Together(next, x, a)
  BY <1>1, <1>2, RingTogether DEF Ring
<1>4. /\ HeadOf(x) \in Members(next) /\ Together(next, HeadOf(x), x)
      /\ HeadOf(a) \in Members(next) /\ Together(next, HeadOf(a), a)
      /\ HeadOf(x) \in head /\ HeadOf(a) \in head
  BY <1>1, HeadFound
<1>5. Together(next, HeadOf(x), HeadOf(a))
  BY <1>3, <1>4 DEF Together
<1> QED  BY <1>1, <1>2, <1>4, <1>5, OneFlag

KeptOut ==
  \A v, w \in Windows :
    w \in RingIn(next', v) \ Ring(v) /\ ~IgnoreGroupLock =>
      /\ ~groupsLocked
      /\ \A x \in {v, w} \cap Grouped : HeadOf(x) \notin locked

LEMMA NobodyIn ==
  ASSUME GroupInv, Permutes(next'),
         \A A \in SUBSET Windows : Agrees(next, A) => Agrees(next', A)
  PROVE  KeptOut
<1>1. Permutes(next)
  BY DEF GroupInv, Rings
<1>2. \A v \in Windows : RingIn(next', v) \subseteq RingIn(next, v)
  BY <1>1, NoneJoins
<1> QED  BY <1>2 DEF KeptOut, Ring

LEMMA OpenGroups ==
  ASSUME GroupInv, Permutes(next'), NEW a \in Windows, NEW b \in Windows,
         \A A \in SUBSET Windows :
           Agrees(next, A) /\ (a \in A <=> b \in A) => Agrees(next', A),
         ~groupsLocked,
         a \in Members(next) => HeadOf(a) \notin locked,
         b \in Members(next) => HeadOf(b) \notin locked
  PROVE  KeptOut
<1>1. Permutes(next)
  BY DEF GroupInv, Rings
<1> SUFFICES ASSUME NEW v \in Windows, NEW w \in Windows,
                    w \in RingIn(next', v) \ Ring(v),
                    NEW x \in {v, w} \cap Grouped
             PROVE  HeadOf(x) \notin locked
  BY DEF KeptOut
<1>2. {v, w} \subseteq RingIn(next, a) \cup RingIn(next, b)
  BY <1>1, OnlyTheseJoin DEF Ring
<1>3. x \in Members(next) /\ (x \in Ring(a) \/ x \in Ring(b))
  BY <1>2 DEF Ring, Grouped, Members
<1> QED  BY <1>3, HeadShared

LEMMA MapKeepsOut ==
  ASSUME GroupInv, Permutes(next'), NEW w \in Windows, Map(w)  PROVE KeptOut
<1>1. /\ w \notin mapped /\ w \notin Members(next) /\ Permutes(next)
  BY DEF Map, GroupInv, Rings
<1>2. PICK ws \in Workspaces, floats \in BOOLEAN :
        MapAlone(w, ws, floats) \/ MapIntoGroup(w, ws, floats)
  BY DEF Map
<1>3. CASE MapAlone(w, ws, floats)
  <2>1. next' \in {next, [next EXCEPT ![w] = w]}
    BY <1>3 DEF MapAlone, groups
  <2>2. ASSUME NEW A \in SUBSET Windows, Agrees(next, A)
        PROVE  Agrees([next EXCEPT ![w] = w], A)
    BY <1>1, <2>2, MadeAgrees
  <2> QED  BY <2>1, <2>2, NobodyIn
<1>4. CASE MapIntoGroup(w, ws, floats)
  <2>1. PICK v \in OpeningOn(ws), at \in Windows :
          /\ Joins(w, v, floats) /\ at \in {v, TailOf(v)}
          /\ next' = Spliced(next, at, w)
    BY <1>4 DEF MapIntoGroup
  <2>2. /\ v \in Members(next) /\ ~groupsLocked /\ HeadOf(v) \notin locked
    BY <2>1 DEF Joins, CanBeGroupedInto, Grouped, Members
  <2>3. at \in Ring(v) /\ at \in Members(next)
    BY <1>1, <2>1, <2>2, TailInRing, RingClosed DEF GroupInv, TailOf, Ring
  <2>4. HeadOf(at) \notin locked
    BY <2>2, <2>3, HeadShared DEF Members
  <2>5. ASSUME NEW A \in SUBSET Windows, Agrees(next, A), at \in A <=> w \in A
        PROVE  Agrees(next', A)
    BY <1>1, <2>1, <2>3, <2>5, SplicedAgrees
  <2> QED  BY <1>1, <2>1, <2>2, <2>4, <2>5, OpenGroups
<1> QED  BY <1>2, <1>3, <1>4

\* Leaving a group, and breaking one up, brings nobody into another.
LEMMA LeavingKeepsOut ==
  ASSUME GroupInv, NEW w \in Windows, NEW A \in SUBSET Windows, Agrees(next, A)
  PROVE  Agrees(Unlinked(next, w), A)
<1>1. Permutes(next)
  BY DEF GroupInv, Rings
<1> QED  BY <1>1, UnlinkedAgrees

LEMMA AloneUnlinked ==
  ASSUME GroupInv, NEW w \in Windows, next[w] = w
  PROVE  [next EXCEPT ![w] = NoWindow] = Unlinked(next, w)
<1>1. Permutes(next)
  BY DEF GroupInv, Rings
<1>2. \A v \in Windows : v # w => next[v] # w
  BY <1>1, UnlinkedAlone
<1> QED  BY <1>1, <1>2 DEF Unlinked, Permutes

LEMMA ToggleKeepsOut ==
  ASSUME GroupInv, Permutes(next'), ToggleGroup  PROVE KeptOut
<1>1. Permutes(next)
  BY DEF GroupInv, Rings
<1> SUFFICES ASSUME NEW A \in SUBSET Windows, Agrees(next, A)
             PROVE  Agrees(next', A)
  BY NobodyIn
<1>2. CASE CreateGroup
  <2>1. last \in Windows \ Members(next) /\ next' = [next EXCEPT ![last] = last]
    BY <1>2 DEF CreateGroup, Grouped, Members
  <2> QED  BY <1>1, <2>1, MadeAgrees
<1>3. CASE DestroyGroup
  <2>1. last \in Windows /\ last \in Members(next)
    BY <1>3 DEF DestroyGroup, Grouped, Members
  <2>2. CASE next[last] = last
    <3>1. next' = next \/ next' = [next EXCEPT ![last] = NoWindow]
      BY <1>3, <2>2 DEF DestroyGroup, DissolveAlone
    <3> QED  BY <2>1, <2>2, <3>1, AloneUnlinked, LeavingKeepsOut
  <2>3. CASE next[last] # last
    <3> DEFINE again == {v \in Ring(last) : MadeGroup(v)}
    <3>1. next' = Reset(next, Ring(last), again)
      BY <1>3, <2>3 DEF DestroyGroup, DissolveRing, Reset
    <3>2. Closed(next, Ring(last)) /\ Ring(last) \in SUBSET Windows
      BY <1>1, <2>1, RingClosed, RingAgrees DEF Ring
    <3>3. again \in SUBSET Windows /\ again \cap Members(next) \subseteq Ring(last)
      BY <3>2
    <3> HIDE DEF again
    <3> QED  BY <1>1, <3>1, <3>2, <3>3, ResetAgrees
  <2> QED  BY <2>2, <2>3
<1> QED  BY <1>2, <1>3 DEF ToggleGroup

LEMMA MoveGroupWindowKeepsOut ==
  ASSUME GroupInv, Permutes(next'), MoveGroupWindow  PROVE KeptOut
<1>1. /\ last \in Members(next) /\ Permutes(next)
  BY DEF MoveGroupWindow, Grouped, Members, GroupInv, Rings
<1>2. PICK back \in BOOLEAN :
        LET wraps == IF back THEN last \in head ELSE next[last] \in head
            other == IF back /\ ~wraps THEN Previous(last) ELSE next[last]
        IN next' = IF wraps THEN next
                   ELSE IF back /\ next[last] # other
                        THEN Turned(next, other, last)
                        ELSE Turned(next, last, other)
  BY DEF MoveGroupWindow
<1>3. /\ Previous(last) \in Members(next) /\ next[Previous(last)] = last
  BY <1>1, TreeAssumption DEF Permutes, Members, Previous
<1>4. \/ next' = next
      \/ \E u \in Members(next) : next' = Turned(next, u, next[u])
  BY <1>1, <1>2, <1>3
<1>5. \A A \in SUBSET Windows : Agrees(next, A) => Agrees(next', A)
  <2>1. CASE \E u \in Members(next) : next' = Turned(next, u, next[u])
    <3>1. SameRings(next, next')
      BY <1>1, <2>1, TurnedRings
    <3>2. Members(next') = Members(next)
      BY <3>1 DEF SameRings
    <3> QED  BY <3>1, <3>2 DEF SameRings, Agrees
  <2> QED  BY <1>4, <2>1
<1> QED  BY <1>5, NobodyIn

\* Into a group that is not locked, out of one that is not.
LEMMA IntoGroupKeepsOut ==
  ASSUME GroupInv, Permutes(next'), last \in Windows, NEW v \in InDirection \cap Grouped,
         MayMoveInto(v), IntoGroup(v)
  PROVE  KeptOut
<1> DEFINE left == Unlinked(next, last)
<1>1. /\ v \in Members(next) /\ v # last /\ Permutes(next)
  BY DEF InDirection, Grouped, Members, GroupInv, Rings
<1>2. PICK at \in {v, TailIn(left, HeadWithout(last), v)} :
        next' = Spliced(left, at, last)
  BY DEF IntoGroup
<1>3. /\ Members(left) = Members(next) \ {last}
      /\ Rings(left, HeadWithout(last)) /\ Permutes(left)
  BY LeftGroup DEF Rings
<1>4. v \in Members(left)
  BY <1>1, <1>3
<1> HIDE DEF left
<1>5. at \in RingIn(left, v) /\ at \in Members(left)
  BY <1>2, <1>3, <1>4, TailInRing, RingClosed
<1>6. RingIn(left, v) \subseteq RingIn(next, v)
  <2>1. \A A \in SUBSET Windows : Agrees(next, A) => Agrees(left, A)
    BY LeavingKeepsOut DEF left
  <2> QED  BY <1>1, <1>3, <2>1, NoneJoins DEF Members
<1>7. at \in Ring(v) /\ at \in Members(next) /\ at \in Windows /\ v \in Windows
  BY <1>1, <1>3, <1>5, <1>6 DEF Ring, Members
<1>8. HeadOf(at) = HeadOf(v)
  BY <1>7, HeadShared
<1>9. ASSUME NEW A \in SUBSET Windows, Agrees(next, A), at \in A <=> last \in A
      PROVE  Agrees(next', A)
  <2>1. Agrees(left, A)
    BY <1>9, LeavingKeepsOut DEF left
  <2>2. last \in Windows \ Members(left)
    BY <1>3
  <2> QED  BY <1>2, <1>3, <1>5, <1>9, <2>1, <2>2, SplicedAgrees
<1>10. CASE IgnoreGroupLock
  BY <1>10 DEF KeptOut
<1>11. CASE ~IgnoreGroupLock
  <2>1. /\ ~groupsLocked /\ HeadOf(at) \notin locked
        /\ last \in Members(next) => HeadOf(last) \notin locked
    BY <1>8, <1>11 DEF MayMoveInto, Grouped, Members
  <2> QED  BY <1>7, <1>9, <2>1, OpenGroups
<1> QED  BY <1>10, <1>11

LEMMA OutOfGroupKeepsOut ==
  ASSUME GroupInv, Permutes(next'), NEW w \in Windows, OutOfGroup(w)  PROVE KeptOut
<1>1. Permutes(next)
  BY DEF GroupInv, Rings
<1> SUFFICES ASSUME NEW A \in SUBSET Windows, Agrees(next, A)
             PROVE  Agrees(next', A)
  BY NobodyIn
<1>2. Agrees(Unlinked(next, w), A)
  BY LeavingKeepsOut
<1>3. CASE next[w] = w
  <2>1. next' = next \/ next' = [next EXCEPT ![w] = NoWindow]
    BY <1>3 DEF OutOfGroup, DissolveAlone
  <2> QED  BY <1>2, <1>3, <2>1, AloneUnlinked
<1>4. CASE next[w] # w
  <2> DEFINE left == Unlinked(next, w)
  <2>1. next' = left \/ next' = [left EXCEPT ![w] = w]
    BY <1>4 DEF OutOfGroup
  <2>2. Permutes(left) /\ w \in Windows \ Members(left)
    BY <1>1, UnlinkedPermutes
  <2>3. Agrees([left EXCEPT ![w] = w], A)
    BY <1>2, <2>2, MadeAgrees
  <2> QED  BY <1>2, <2>1, <2>3
<1> QED  BY <1>3, <1>4

LEMMA MoveKeepsOut ==
  ASSUME GroupInv, Permutes(next'), MoveIntoGroup \/ MoveOutOfGroup \/ MoveWindowOrGroup
  PROVE  KeptOut
<1>1. \/ next' = next
      \/ /\ last \in Windows
         /\ \E v \in InDirection \cap Grouped : MayMoveInto(v) /\ IntoGroup(v)
      \/ \E w \in Windows : OutOfGroup(w)
  <2>1. CASE MoveIntoGroup
    BY <2>1 DEF MoveIntoGroup
  <2>2. CASE MoveOutOfGroup
    BY <2>2 DEF MoveOutOfGroup, Grouped
  <2>3. CASE MoveWindowOrGroup
    <3>1. MoveTile(last) => next' = next
      BY DEF MoveTile, groups
    <3> QED  BY <2>3, <3>1 DEF MoveWindowOrGroup, MayMoveInto
  <2> QED  BY <2>1, <2>2, <2>3
<1>2. CASE next' = next
  BY <1>2, NobodyIn
<1> QED  BY <1>1, <1>2, IntoGroupKeepsOut, OutOfGroupKeepsOut

\* The locks that are asked for are those of the two groups that are merged.
LEMMA MergeKeepsOut ==
  ASSUME GroupInv, Permutes(next'), NEW w \in Windows, NEW ws \in Workspaces,
         NEW v \in Hosts(w, ws), NEW at \in {v, TailOf(v)}, Merges(w, v, at)
  PROVE  KeptOut
<1>1. /\ Permutes(next) /\ Rings(next, head) /\ v \in Members(next)
      /\ CanBeGroupedInto(w, v)
  BY DEF Hosts, Grouped, Members, GroupInv, Rings
<1>2. at \in Ring(v) /\ at \in Members(next) /\ at \in Windows
  BY <1>1, TailInRing, RingClosed DEF TailOf, Ring, Members
<1>3. HeadOf(at) = HeadOf(v)
  BY <1>1, <1>2, HeadShared DEF Members
<1>4. /\ ~groupsLocked /\ HeadOf(at) \notin locked
      /\ w \in Members(next) => HeadOf(w) \notin locked
  BY <1>1, <1>3 DEF CanBeGroupedInto, Grouped, Members
<1>5. CASE w \notin Members(next)
  <2>1. next' = Spliced(next, at, w)
    BY <1>5 DEF Merges, Grouped, Members
  <2>2. ASSUME NEW A \in SUBSET Windows, Agrees(next, A), at \in A <=> w \in A
        PROVE  Agrees(next', A)
    BY <1>1, <1>2, <1>5, <2>1, <2>2, SplicedAgrees
  <2> QED  BY <1>2, <1>4, <1>5, <2>2, OpenGroups
<1>6. CASE w \in Members(next)
  <2> DEFINE b == TailOf(w)
  <2>1. /\ b \in Members(next) /\ b \in Ring(w) /\ b \in Windows
        /\ SplicedRing(next, at, HeadOf(w), b) = Crossed(next, at, b)
    BY <1>1, <1>6, RingSpliced DEF Members, Ring
  <2>2. next' = SplicedRing(next, at, HeadOf(w), b)
    BY <1>6 DEF Merges, Grouped, Members
  <2>3. HeadOf(b) = HeadOf(w)
    BY <2>1, HeadShared
  <2> HIDE DEF b
  <2>4. next' = Crossed(next, at, b)
    BY <2>1, <2>2
  <2>5. ASSUME NEW A \in SUBSET Windows, Agrees(next, A), at \in A <=> b \in A
        PROVE  Agrees(next', A)
    BY <1>1, <1>2, <2>1, <2>4, <2>5, CrossedAgrees
  <2>6. HeadOf(b) \notin locked
    BY <1>4, <1>6, <2>3
  <2> QED  BY <1>2, <1>4, <2>1, <2>5, <2>6, OpenGroups
<1> QED  BY <1>5, <1>6

LEMMA MoveToWorkspaceKeepsOut ==
  ASSUME GroupInv, Permutes(next'), NEW w \in Windows, NEW ws \in Workspaces,
         MoveToWorkspace(w, ws) \/ MoveHidden(w, ws)
  PROVE  KeptOut
<1>1. CASE next' = next
  BY <1>1, NobodyIn
<1>2. CASE next' # next
  <2>1. PICK v \in Hosts(w, ws) : \E at \in {v, TailOf(v)} : Merges(w, v, at)
    BY <1>2 DEF MoveToWorkspace, MoveHidden
  <2>2. PICK at \in {v, TailOf(v)} : Merges(w, v, at)
    BY <2>1
  <2> QED  BY <2>2, MergeKeepsOut
<1> QED  BY <1>1, <1>2

\* Whatever is done to them, the windows that are grouped are linked in rings.
LEMMA RingsMove ==
  ASSUME Inv, ~parted, [Next]_vars  PROVE Permutes(next')
<1>1. GroupInv
  BY DEF Inv
<1>2. CASE \E w \in Windows, ws \in Workspaces : MoveHidden(w, ws)
  BY <1>1, <1>2, HiddenMoves
<1>3. CASE ~ \E w \in Windows, ws \in Workspaces : MoveHidden(w, ws)
  BY <1>3, StillWhole, GroupStep DEF GroupInv, Rings
<1> QED  BY <1>2, <1>3

\* No way into a group goes past a lock: that of the group it leads to, that of
\* the one it leads out of, or that of all groups.
THEOREM LockedGroupsKeepOut == Spec => LockedKeepOut
<1>1. ASSUME Inv, ~parted, [Next]_vars  PROVE KeptOut
  <2>1. GroupInv /\ Permutes(next')
    BY <1>1, RingsMove DEF Inv
  <2>2. ASSUME NEW w \in Windows, Map(w)  PROVE KeptOut
    BY <2>1, <2>2, MapKeepsOut
  <2>3. ASSUME NEW w \in Windows, Unmap(w)  PROVE KeptOut
    <3>1. next' = Unlinked(next, w)
      BY <2>3 DEF Unmap
    <3>2. \A A \in SUBSET Windows : Agrees(next, A) => Agrees(next', A)
      BY <2>1, <3>1, LeavingKeepsOut
    <3> QED  BY <2>1, <3>2, NobodyIn
  <2>4. CASE ToggleGroup
    BY <2>1, <2>4, ToggleKeepsOut
  <2>5. CASE MoveGroupWindow
    BY <2>1, <2>5, MoveGroupWindowKeepsOut
  <2>6. CASE MoveIntoGroup \/ MoveOutOfGroup \/ MoveWindowOrGroup
    BY <2>1, <2>6, MoveKeepsOut
  <2>7. ASSUME NEW w \in Windows, NEW ws \in Workspaces,
               MoveToWorkspace(w, ws) \/ MoveHidden(w, ws)
        PROVE  KeptOut
    BY <2>1, <2>7, MoveToWorkspaceKeepsOut
  <2>8. CASE UNCHANGED next
    BY <2>1, <2>8, NobodyIn
  <2>9. ASSUME \/ \E w \in Windows : FocusWindow(w) \/ ToggleFloating(w) \/ Pin(w)
               \/ ChangeGroupActive \/ LockGroups \/ LockActiveGroup
               \/ SwapActive \/ LayoutMessage \/ Parted \/ UNCHANGED vars
        PROVE  UNCHANGED next
    BY <2>9 DEF FocusWindow, ToggleFloating, Pin, ChangeGroupActive, LockGroups,
                LockActiveGroup, SwapActive, LayoutMessage, Parted, groups, vars
  <2> QED  BY <1>1, <2>2, <2>3, <2>4, <2>5, <2>6, <2>7, <2>8, <2>9 DEF Next
<1>2. Inv /\ [Next]_vars =>
        [next' # next => \A v, w \in Windows :
           w \in RingIn(next', v) \ Ring(v) /\ ~IgnoreGroupLock =>
             /\ ~groupsLocked
             /\ \A x \in {v, w} \cap Grouped : HeadOf(x) \notin locked]_vars
  BY <1>1, StillParted DEF KeptOut, vars
<1> QED  BY <1>2, GroupsAndTrees, PTL DEF Spec, LockedKeepOut

-----------------------------------------------------------------------------
(* The lock of a group.                                                     *)

\* The head and its lock change hands together.
LEMMA LockPassed ==
  ASSUME GroupInv, NEW a \in Members(next), NEW b \in Members(next),
         Together(next, a, b), NEW w \in Members(next), NEW u \in Ring(w),
         u \in Exchanged(head, a, b)
  PROVE  u \in Exchanged(locked, a, b) <=> HeadOf(w) \in locked
<1>1. Permutes(next) /\ Rings(next, head)
  BY DEF GroupInv, Rings
<1>2. Together(next, u, w) /\ u \in Members(next) /\ u \in Windows
  BY <1>1, RingTogether DEF Ring, Members
<1>3. /\ HeadOf(w) \in head /\ HeadOf(w) \in Members(next)
      /\ Together(next, HeadOf(w), w)
  BY HeadFound
<1>4. ASSUME NEW g \in Members(next), g \in head, Together(next, g, u)
      PROVE  g = HeadOf(w)
  <2>1. Together(next, g, HeadOf(w))
    BY <1>2, <1>3, <1>4 DEF Together
  <2> QED  BY <1>1, <1>3, <1>4, <2>1, OneFlag
<1>5. Together(next, b, a) /\ Together(next, u, u)
  BY DEF Together
<1>6. CASE u = a
  <2>1. b \in head
    BY <1>2, <1>6 DEF Exchanged
  <2>2. b = HeadOf(w)
    BY <1>4, <1>5, <1>6, <2>1
  <2> QED  BY <1>2, <1>6, <2>2 DEF Exchanged
<1>7. CASE u = b /\ u # a
  <2>1. a \in head
    BY <1>2, <1>7 DEF Exchanged
  <2>2. a = HeadOf(w)
    BY <1>4, <1>7, <2>1
  <2> QED  BY <1>2, <1>7, <2>2 DEF Exchanged
<1>8. CASE u # a /\ u # b
  <2>1. u \in head
    BY <1>2, <1>8 DEF Exchanged
  <2>2. u = HeadOf(w)
    BY <1>2, <1>4, <1>5, <2>1
  <2> QED  BY <1>2, <1>8, <2>2 DEF Exchanged
<1> QED  BY <1>6, <1>7, <1>8

LEMMA LockKept ==
  ASSUME GroupInv, NEW w \in Members(next), NEW u \in Ring(w), u \in head
  PROVE  u = HeadOf(w)
<1>1. Permutes(next) /\ Rings(next, head)
  BY DEF GroupInv, Rings
<1>2. Together(next, u, w) /\ u \in Members(next)
  BY <1>1, RingTogether DEF Ring
<1>3. /\ HeadOf(w) \in head /\ HeadOf(w) \in Members(next)
      /\ Together(next, HeadOf(w), w)
  BY HeadFound
<1>4. Together(next, u, HeadOf(w))
  BY <1>2, <1>3 DEF Together
<1> QED  BY <1>1, <1>2, <1>3, <1>4, OneFlag

\* onWindowRemoved: a head that leaves hands over its lock with its place.
LEMMA LockLeftBehind ==
  ASSUME GroupInv, NEW x \in Windows, NEW w \in Members(next), NEW u \in Ring(w),
         u \in HeadWithout(x)
  PROVE  u \in LockedWithout(x) <=> HeadOf(w) \in locked
<1>1. CASE ~Alone(x) /\ x \in head
  <2>1. Permutes(next) /\ x \in Members(next)
    BY <1>1 DEF GroupInv, Rings, Alone, Members
  <2>2. next[x] \in Members(next) /\ Together(next, x, next[x])
    BY <2>1, NextTogether DEF Permutes
  <2>3. /\ HeadWithout(x) = Exchanged(head, x, next[x])
        /\ LockedWithout(x) = Exchanged(locked, x, next[x])
    BY <1>1 DEF HeadWithout, LockedWithout
  <2>4. u \in Exchanged(head, x, next[x])
    BY <2>3
  <2>5. u \in Exchanged(locked, x, next[x]) <=> HeadOf(w) \in locked
    BY <2>1, <2>2, <2>4, LockPassed
  <2> QED  BY <2>3, <2>5
<1>2. CASE ~(~Alone(x) /\ x \in head)
  <2>1. HeadWithout(x) = head /\ LockedWithout(x) = locked
    BY <1>2 DEF HeadWithout, LockedWithout
  <2> QED  BY <2>1, LockKept
<1> QED  BY <1>1, <1>2

\* Of what is left of w's group, the head has the lock just when it had it.
Kept(w) ==
  \A u \in RingIn(next', w) :
    u \in head' => (u \in locked' <=> HeadOf(w) \in locked)

\* w is in a group that nothing joins.
Remains(w) ==
  /\ w \in Members(next) \ SetAlways
  /\ RingIn(next', w) \subseteq Ring(w) /\ next'[w] # NoWindow

LEMMA MapKeepsLock ==
  ASSUME GroupInv, NEW x \in Windows, Map(x), NEW w, Remains(w)
  PROVE  Kept(w)
<1>1. /\ x \notin mapped /\ x \notin Members(next) /\ Permutes(next)
      /\ Rings(next, head) /\ w \in Members(next)
  BY DEF Map, GroupInv, Rings, Remains
<1>2. Ring(w) \subseteq Members(next) /\ RingIn(next', w) \subseteq Ring(w)
  BY <1>1, RingOfMembers DEF Remains
<1>3. PICK ws \in Workspaces, floats \in BOOLEAN :
        MapAlone(x, ws, floats) \/ MapIntoGroup(x, ws, floats)
  BY DEF Map
<1>4. CASE MapAlone(x, ws, floats)
  <2>1. \A u : u # x => (u \in head' <=> u \in head) /\ (u \in locked' <=> u \in locked)
    BY <1>4 DEF MapAlone, groups
  <2> QED  BY <1>1, <1>2, <2>1, LockKept DEF Kept
<1>5. CASE MapIntoGroup(x, ws, floats)
  <2>1. PICK v \in OpeningOn(ws), at \in Windows :
          /\ Joins(x, v, floats) /\ at \in {v, TailOf(v)}
          /\ next' = Spliced(next, at, x) /\ head' = head \ {x}
          /\ locked' = IF x \in LockAlways THEN locked \cup {HeadOf(v)} ELSE locked
    BY <1>5 DEF MapIntoGroup
  <2>2. v \in Members(next) /\ v \in Windows
    BY <2>1 DEF Joins, Grouped, Members
  <2>3. at \in Ring(v) /\ at \in Members(next) /\ Together(next, at, v)
    BY <1>1, <2>1, <2>2, TailInRing, RingClosed, RingTogether DEF TailOf, Ring
\* The group that x joins is another one.
  <2>4. HeadOf(v) \notin Ring(w)
    <3> SUFFICES ASSUME HeadOf(v) \in Ring(w)  PROVE FALSE
      OBVIOUS
    <3>1. Together(next, HeadOf(v), w) /\ Together(next, HeadOf(v), v)
      BY <1>1, <2>2, RingTogether, HeadFound DEF Ring
    <3>2. Together(next, at, w)
      BY <2>3, <3>1 DEF Together
    <3>3. Together(next', x, w)
      BY <1>1, <2>1, <2>3, <3>2, SplicedTogether
    <3>4. Permutes(next') /\ w \in Members(next')
      BY <1>1, <2>1, <2>3, SplicedPermutes
    <3>5. x \in RingIn(next', w)
      BY <3>3, <3>4, TogetherInRing
    <3> QED  BY <1>1, <1>2, <3>5
  <2>5. \A u \in Ring(w) : (u \in head' => u \in head) /\ (u \in locked' <=> u \in locked)
    BY <2>1, <2>4
  <2> QED  BY <1>1, <1>2, <2>5, LockKept DEF Kept
<1> QED  BY <1>3, <1>4, <1>5

LEMMA ToggleKeepsLock ==
  ASSUME GroupInv, ToggleGroup, NEW w, Remains(w)  PROVE Kept(w)
<1>1. Permutes(next) /\ Rings(next, head) /\ w \in Members(next) /\ w \in Windows
  BY DEF GroupInv, Rings, Remains, Members
<1>2. Ring(w) \subseteq Members(next) /\ RingIn(next', w) \subseteq Ring(w)
  BY <1>1, RingOfMembers DEF Remains
<1>3. CASE CreateGroup
  <2>1. last \notin Members(next)
    BY <1>3 DEF CreateGroup, Grouped, Members
  <2>2. \A u : u # last => (u \in head' <=> u \in head) /\ (u \in locked' <=> u \in locked)
    BY <1>3 DEF CreateGroup
  <2> QED  BY <1>1, <1>2, <2>1, <2>2, LockKept DEF Kept
<1>4. CASE DestroyGroup /\ next[last] = last
  <2>1. \A u : (u \in head' => u \in head) /\ (u \in locked' <=> u \in locked)
    BY <1>4 DEF DestroyGroup, DissolveAlone
  <2> QED  BY <1>1, <1>2, <2>1, LockKept DEF Kept
<1>5. CASE DestroyGroup /\ next[last] # last
  <2>1. DissolveRing(last) /\ last \in Members(next)
    BY <1>5 DEF DestroyGroup, Grouped, Members
  <2>2. w \notin Ring(last)
    BY <1>1, <2>1 DEF DissolveRing, MadeGroup, Remains
  <2>3. \A u \in Ring(w) : u \notin Ring(last)
    <3> SUFFICES ASSUME NEW u \in Ring(w), u \in Ring(last)  PROVE FALSE
      OBVIOUS
    <3>1. Together(next, u, w) /\ Together(next, u, last)
      BY <1>1, <2>1, RingTogether DEF Ring
    <3>2. Together(next, w, last)
      BY <3>1 DEF Together
    <3> QED  BY <1>1, <2>1, <2>2, <3>2, TogetherInRing DEF Ring
  <2>4. \A u : u \notin Ring(last) =>
          (u \in head' <=> u \in head) /\ (u \in locked' <=> u \in locked)
    BY <2>1 DEF DissolveRing
  <2> QED  BY <1>1, <1>2, <2>3, <2>4, LockKept DEF Kept
<1> QED  BY <1>3, <1>4, <1>5 DEF ToggleGroup, DestroyGroup

LEMMA MoveGroupWindowKeepsLock ==
  ASSUME GroupInv, MoveGroupWindow, NEW w, Remains(w)  PROVE Kept(w)
<1>1. /\ last \in Members(next) /\ Permutes(next) /\ w \in Members(next)
      /\ RingIn(next', w) \subseteq Ring(w)
  BY DEF MoveGroupWindow, Grouped, Members, GroupInv, Rings, Remains
<1>2. PICK back \in BOOLEAN :
        LET wraps == IF back THEN last \in head ELSE next[last] \in head
            other == IF back /\ ~wraps THEN Previous(last) ELSE next[last]
        IN /\ head' = Exchanged(head, last, other)
           /\ locked' = Exchanged(locked, last, other)
  BY DEF MoveGroupWindow
<1>3. PICK other \in {Previous(last), next[last]} :
        head' = Exchanged(head, last, other) /\ locked' = Exchanged(locked, last, other)
  BY <1>2
<1>4. /\ Previous(last) \in Members(next) /\ next[Previous(last)] = last
      /\ next[last] \in Members(next)
  BY <1>1, TreeAssumption DEF Permutes, Members, Previous
<1>5. /\ Together(next, last, next[last]) /\ Together(next, last, Previous(last))
  BY <1>1, <1>4, NextTogether
<1>6. other \in Members(next) /\ Together(next, last, other)
  BY <1>3, <1>4, <1>5
<1> SUFFICES ASSUME NEW u \in RingIn(next', w), u \in head'
             PROVE  u \in locked' <=> HeadOf(w) \in locked
  BY DEF Kept
<1>7. u \in Ring(w) /\ u \in Exchanged(head, last, other)
  BY <1>1, <1>3
<1>8. u \in Exchanged(locked, last, other) <=> HeadOf(w) \in locked
  BY <1>1, <1>6, <1>7, LockPassed
<1> QED  BY <1>3, <1>8

\* A window leaves, and is not the head of a group it joins.
LEMMA LeavingKeepsLock ==
  ASSUME GroupInv, NEW x \in Windows, NEW w, Remains(w),
         \A u : u # x => (u \in head' => u \in HeadWithout(x))
                           /\ (u \in locked' <=> u \in LockedWithout(x)),
         x \in RingIn(next', w) => x \notin head'
  PROVE  Kept(w)
<1> SUFFICES ASSUME NEW u \in RingIn(next', w), u \in head'
             PROVE  u \in locked' <=> HeadOf(w) \in locked
  BY DEF Kept
<1>1. u # x /\ u \in HeadWithout(x) /\ (u \in locked' <=> u \in LockedWithout(x))
  OBVIOUS
<1>2. u \in Ring(w) /\ w \in Members(next)
  BY DEF Remains
<1> QED  BY <1>1, <1>2, LockLeftBehind

LEMMA OutOfGroupKeepsLock ==
  ASSUME GroupInv, Permutes(next'), NEW x \in Windows, OutOfGroup(x), NEW w, Remains(w)
  PROVE  Kept(w)
<1>1. CASE next[x] = x
  <2>1. \A u : (u \in head' => u \in head) /\ (u \in locked' <=> u \in locked)
    BY <1>1 DEF OutOfGroup, DissolveAlone
  <2> QED  BY <2>1, LockKept DEF Kept, Remains
<1>2. CASE next[x] # x
  <2>1. /\ next' = IF MadeGroup(x)
                   THEN [Unlinked(next, x) EXCEPT ![x] = x] ELSE Unlinked(next, x)
        /\ head' = IF MadeGroup(x) THEN HeadWithout(x) \cup {x} ELSE HeadWithout(x)
        /\ locked' = IF ~MadeGroup(x) THEN LockedWithout(x)
                     ELSE IF x \in LockAlways THEN LockedWithout(x) \cup {x}
                     ELSE LockedWithout(x) \ {x}
    BY <1>2 DEF OutOfGroup
  <2>2. Permutes(next') /\ w \in Windows /\ w \in Members(next')
    BY DEF GroupInv, Rings, Remains, Members
  <2>3. x \notin RingIn(next', w)
    <3> SUFFICES ASSUME x \in RingIn(next', w)  PROVE FALSE
      OBVIOUS
    <3>1. Together(next', x, w) /\ x \in Members(next')
      BY <2>2, RingTogether
    <3>2. MadeGroup(x) /\ next'[x] = x
      BY <2>1, <3>1 DEF Members, Unlinked
    <3>3. Closed(next', {x})
      BY <3>1, <3>2 DEF Closed
    <3>4. w = x
      BY <3>1, <3>3 DEF Together
    <3> QED  BY <3>2, <3>4 DEF MadeGroup, Remains
  <2>4. \A u : u # x => (u \in head' => u \in HeadWithout(x))
                          /\ (u \in locked' <=> u \in LockedWithout(x))
    BY <2>1
  <2> QED  BY <2>3, <2>4, LeavingKeepsLock
<1> QED  BY <1>1, <1>2

\* Only groups that are not locked are merged when a hidden member is moved, so
\* a group that is locked still has its head.
LEMMA HiddenKeepsLock ==
  ASSUME GroupInv, NEW x \in Windows, NEW ws \in Workspaces, MoveHidden(x, ws),
         groups' # groups, NEW w, Remains(w), HeadOf(w) \in locked
  PROVE  \E v \in RingIn(next', w) : v \in head'
<1>1. /\ Permutes(next) /\ Rings(next, head) /\ x \in Members(next)
      /\ w \in Members(next) /\ RingIn(next', w) \subseteq Ring(w)
  BY DEF MoveHidden, GroupInv, Rings, Remains
<1>2. PICK v \in Hosts(x, ws) : \E at \in {v, TailOf(v)} : Merges(x, v, at)
  BY DEF MoveHidden, Follow, groups
<1>3. PICK at \in {v, TailOf(v)} : Merges(x, v, at)
  BY <1>2
<1>4. v \in Members(next) /\ CanBeGroupedInto(x, v)
  BY DEF Hosts, Grouped, Members
<1> DEFINE b == TailOf(x)
<1>5. /\ at \in Members(next) /\ at \in Ring(v)
      /\ b \in Members(next) /\ b \in Ring(x)
      /\ SplicedRing(next, at, HeadOf(x), b) = Crossed(next, at, b)
  BY <1>1, <1>4, RingSpliced DEF Ring
<1>6. next' = SplicedRing(next, at, HeadOf(x), b) /\ head' = head \ {HeadOf(x)}
  BY <1>1, <1>3 DEF Merges, Grouped, Members
<1> HIDE DEF b
<1>7. next' = Crossed(next, at, b)
  BY <1>5, <1>6
<1>8. HeadOf(x) \notin locked /\ HeadOf(v) \notin locked
  BY <1>1, <1>4 DEF CanBeGroupedInto, Grouped, Members
<1>9. at \notin Ring(w) /\ b \notin Ring(w)
  <2>1. at \in Windows /\ b \in Windows /\ v \in Windows /\ w \in Windows
    BY <1>1, <1>4, <1>5 DEF Members
  <2>2. HeadOf(at) = HeadOf(v) /\ HeadOf(b) = HeadOf(x)
    BY <1>5, <2>1, HeadShared
  <2>3. at \in Ring(w) => HeadOf(at) = HeadOf(w)
    BY <1>5, <2>1, HeadShared
  <2>4. b \in Ring(w) => HeadOf(b) = HeadOf(w)
    BY <1>5, <2>1, HeadShared
  <2> QED  BY <1>8, <2>2, <2>3, <2>4
<1>10. /\ Permutes(next') /\ Members(next') = Members(next)
       /\ next = Crossed(next', at, b)
  BY <1>1, <1>5, <1>7, CrossedPermutes
<1> DEFINE R == RingIn(next', w)
<1>11. /\ Agrees(next', R) /\ R \in SUBSET Windows /\ w \in R
       /\ at \notin R /\ b \notin R
  BY <1>1, <1>9, <1>10, RingAgrees, RingClosed DEF Members
<1> HIDE DEF R
<1>12. Agrees(Crossed(next', at, b), R)
  BY <1>5, <1>10, <1>11, CrossedAgrees
<1>13. Agrees(next, R)
  BY <1>10, <1>12
<1>14. Ring(w) \subseteq R
  <2>1. Closed(next, Members(next) \cap R) /\ w \in Members(next) \cap R
    BY <1>1, <1>11, <1>13 DEF Agrees
  <2>2. Members(next) \cap R \in SUBSET Windows
    BY <1>11
  <2>3. Ring(w) \subseteq Members(next) \cap R
    BY <1>1, <2>1, <2>2, RingClosed DEF Ring
  <2> QED  BY <2>3
<1>15. HeadOf(w) \in Ring(w) /\ HeadOf(w) \in head
  BY <1>1, HeadFound
<1>16. HeadOf(w) \in R /\ HeadOf(w) \in head'
  BY <1>6, <1>8, <1>14, <1>15
<1> QED  BY <1>16 DEF R

\* The lock of a group belongs to the group: it stays when the head moves along
\* the ring, leaves it, is closed, or when the group joins no other.
THEOREM LocksStayWithGroups == Spec => LockStaysWithGroup
<1>1. ASSUME Inv, ~parted, [Next]_vars, groups' # groups, ~LockActiveGroup,
             NEW w, Remains(w)
      PROVE  Kept(w)
  <2>1. GroupInv /\ Permutes(next')
    BY <1>1, RingsMove DEF Inv
  <2>2. ASSUME NEW x \in Windows, Map(x)  PROVE Kept(w)
    BY <1>1, <2>1, <2>2, MapKeepsLock
  <2>3. ASSUME NEW x \in Windows, Unmap(x)  PROVE Kept(w)
    <3>1. head' = HeadWithout(x) \ {x} /\ locked' = LockedWithout(x) \ {x}
      BY <2>3 DEF Unmap
    <3> QED  BY <1>1, <2>1, <3>1, LeavingKeepsLock
  <2>4. CASE ToggleGroup
    BY <1>1, <2>1, <2>4, ToggleKeepsLock
  <2>5. CASE MoveGroupWindow
    BY <1>1, <2>1, <2>5, MoveGroupWindowKeepsLock
  <2>6. ASSUME last \in Windows, NEW v, IntoGroup(v)  PROVE Kept(w)
    <3>1. head' = HeadWithout(last) \ {last} /\ locked' = LockedWithout(last)
      BY <2>6 DEF IntoGroup
    <3> QED  BY <1>1, <2>1, <2>6, <3>1, LeavingKeepsLock
  <2>7. CASE MoveIntoGroup \/ MoveOutOfGroup \/ MoveWindowOrGroup
    <3>1. \/ MoveTile(last)
          \/ last \in Windows /\ \E v : IntoGroup(v)
          \/ \E x \in Windows : OutOfGroup(x)
      BY <2>7 DEF MoveIntoGroup, MoveOutOfGroup, MoveWindowOrGroup, Grouped
    <3>2. ~MoveTile(last)
      BY <1>1 DEF MoveTile
    <3> QED  BY <1>1, <2>1, <2>6, <3>1, <3>2, OutOfGroupKeepsLock
  <2>8. ASSUME NEW x \in Windows, NEW ws \in Workspaces,
               MoveToWorkspace(x, ws) \/ MoveHidden(x, ws)
        PROVE  Kept(w)
    <3>1. head' \subseteq head /\ locked' = locked
      BY <2>8 DEF MoveToWorkspace, MoveHidden, Merges, Follow
    <3> QED  BY <1>1, <2>1, <3>1, LockKept DEF Kept, Remains
  <2>9. ~(\/ \E x \in Windows : FocusWindow(x) \/ ToggleFloating(x) \/ Pin(x)
          \/ ChangeGroupActive \/ LockGroups
          \/ SwapActive \/ LayoutMessage \/ Parted \/ UNCHANGED vars)
    BY <1>1 DEF FocusWindow, ToggleFloating, Pin, ChangeGroupActive, LockGroups,
                SwapActive, LayoutMessage, Parted, groups, vars
  <2> QED  BY <1>1, <2>2, <2>3, <2>4, <2>5, <2>7, <2>8, <2>9 DEF Next
<1>2. ASSUME Inv, ~parted, [Next]_vars, groups' # groups, NEW w, Remains(w), Kept(w)
      PROVE  HeadOf(w) \in locked <=>
               \E v \in RingIn(next', w) : v \in head' /\ v \in locked'
  <2>1. ASSUME HeadOf(w) \in locked
        PROVE  \E v \in RingIn(next', w) : v \in head'
    <3>1. CASE ~parted'
      <4>1. Rings(next', head') /\ w \in Members(next')
        BY <1>2, <3>1, GroupStep DEF GroupInv, Remains, Members
      <4> QED  BY <4>1, RingHead
    <3>2. CASE parted'
      <4>1. PICK x \in Windows, ws \in Workspaces : MoveHidden(x, ws)
        BY <1>2, <3>2, StillWhole
      <4>2. GroupInv
        BY <1>2 DEF Inv
      <4> QED  BY <1>2, <2>1, <4>1, <4>2, HiddenKeepsLock
    <3> QED  BY <3>1, <3>2
  <2> QED  BY <1>2, <2>1 DEF Kept
<1>3. Inv /\ [Next]_vars =>
        [groups' # groups => \A w \in Grouped \ SetAlways :
           RingIn(next', w) \subseteq Ring(w) /\ next'[w] # NoWindow
             /\ ~LockActiveGroup =>
             (HeadOf(w) \in locked <=>
               \E v \in RingIn(next', w) : v \in head' /\ v \in locked')]_vars
  <2> SUFFICES ASSUME Inv, [Next]_vars, groups' # groups,
                      NEW w \in Grouped \ SetAlways,
                      RingIn(next', w) \subseteq Ring(w), next'[w] # NoWindow,
                      ~LockActiveGroup
               PROVE  HeadOf(w) \in locked <=>
                        \E v \in RingIn(next', w) : v \in head' /\ v \in locked'
    OBVIOUS
  <2>1. Remains(w)
    BY DEF Remains, Grouped, Members
  <2>2. ~parted
    BY StillParted DEF vars, groups
  <2>3. Kept(w)
    BY <1>1, <2>1, <2>2
  <2> QED  BY <1>2, <2>1, <2>2, <2>3
<1> QED  BY <1>3, GroupsAndTrees, PTL DEF Spec, LockStaysWithGroup
=============================================================================
