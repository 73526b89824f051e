-------------------------- MODULE KeyRouting_proofs --------------------------
(***************************************************************************)
(* Proofs about KeyRouting, for any keyboards, keys, modifiers, binds,     *)
(* submaps and clients.                                                    *)
(*                                                                         *)
(* The loops over the binds and over the presses of a key are recursive    *)
(* functions: what they compute is proved by an induction in which what    *)
(* holds after the n-th turn is a set of states.                           *)
(***************************************************************************)
EXTENDS KeyRouting, FiniteSetTheorems, TLAPS

-----------------------------------------------------------------------------
(* Induction and recursion.                                                 *)

LEMMA LeastNumber ==
  ASSUME NEW B \in SUBSET Nat, B # {}
  PROVE  \E k \in B : \A j \in B : k <= j
<1> DEFINE X == {0..k : k \in B}
<1>1. X \subseteq FiniteSubsetsOf(Nat) /\ X # {}
  <2>1. ASSUME NEW k \in B  PROVE IsFiniteSet(0..k) /\ 0..k \in SUBSET Nat
    <3>1. 0 \in Int /\ k \in Int
      OBVIOUS
    <3> QED  BY <3>1, FS_Interval
  <2> QED  BY <2>1 DEF FiniteSubsetsOf
<1>2. IsWellFoundedOn(StrictSubsetOrdering(Nat), FiniteSubsetsOf(Nat))
  BY FS_StrictSubsetOrderingWellFounded
<1> HIDE DEF X
<1>3. PICK x \in X : \A y \in X : <<y, x>> \notin StrictSubsetOrdering(Nat)
  BY <1>1, <1>2, WFMin
<1>4. PICK k \in B : x = 0..k
  BY DEF X
<1>5. ASSUME NEW j \in B, j < k  PROVE FALSE
  <2>1. 0..j \in X
    BY DEF X
  <2>2. 0..j \subseteq 0..k /\ 0..j # 0..k /\ 0..k \in SUBSET Nat /\ 0..j \in SUBSET Nat
    <3>1. k \in 0..k /\ k \notin 0..j
      BY <1>5
    <3> QED  BY <1>5, <3>1
  <2>3. <<0..j, x>> \in StrictSubsetOrdering(Nat)
    BY <1>4, <2>2 DEF StrictSubsetOrdering
  <2> QED  BY <1>3, <2>1, <2>3
<1>6. \A j \in B : k <= j
  BY <1>5
<1> QED  BY <1>6

\* Induction, for a set of numbers.
LEMMA CountingUp ==
  ASSUME NEW N \in Nat, NEW P, 0 \in P, \A k \in 0..N : k \in P /\ k < N => k + 1 \in P
  PROVE  0..N \subseteq P
<1> DEFINE B == (0..N) \ P
<1> SUFFICES ASSUME B # {}  PROVE FALSE
  OBVIOUS
<1>1. B \in SUBSET Nat
  OBVIOUS
<1> HIDE DEF B
<1>2. PICK k \in B : \A j \in B : k <= j
  BY <1>1, LeastNumber
<1>3. k \in 0..N /\ k \notin P
  BY DEF B
<1>4. k - 1 \in 0..N /\ k - 1 < N /\ k - 1 \notin B
  BY <1>1, <1>2, <1>3
<1> QED  BY <1>3, <1>4 DEF B

\* Each of N steps G leads from S into S.
LeadsOn(G, N, S) == \A t \in S, i \in 1..N : G[<<t, i>>] \in S

IsWalk(g, G, N, S, s0) ==
  /\ g \in [0..N -> S] /\ g[0] = s0
  /\ \A i \in 1..N : g[i] = G[<<g[i - 1], i>>]

\* A walk of N steps from s0 exists, if each step leads somewhere.
LEMMA WalkExists ==
  ASSUME NEW N \in Nat, NEW S, NEW s0 \in S, NEW G, LeadsOn(G, N, S)
  PROVE  \E g : IsWalk(g, G, N, S, s0)
<1> DEFINE P == {n \in 0..N : \E g \in [0..n -> S] :
                   g[0] = s0 /\ \A i \in 1..n : g[i] = G[<<g[i - 1], i>>]}
<1>1. 0 \in P
  <2> DEFINE g == [i \in 0..0 |-> s0]
  <2>1. g \in [0..0 -> S] /\ g[0] = s0 /\ \A i \in 1..0 : g[i] = G[<<g[i - 1], i>>]
    OBVIOUS
  <2> HIDE DEF g
  <2> QED  BY <2>1
<1>2. ASSUME NEW n \in 0..N, n \in P, n < N  PROVE n + 1 \in P
  <2>1. PICK g \in [0..n -> S] : g[0] = s0 /\ \A i \in 1..n : g[i] = G[<<g[i - 1], i>>]
    BY <1>2
  <2> DEFINE h == [i \in 0..(n + 1) |-> IF i = n + 1 THEN G[<<g[n], n + 1>>] ELSE g[i]]
  <2>2. g[n] \in S /\ n + 1 \in 1..N /\ G[<<g[n], n + 1>>] \in S
    BY <1>2 DEF LeadsOn
  <2>3. h \in [0..(n + 1) -> S] /\ h[0] = s0
    BY <2>1, <2>2
  <2>4. ASSUME NEW i \in 1..(n + 1)  PROVE h[i] = G[<<h[i - 1], i>>]
    <3>1. i \in 0..(n + 1) /\ i - 1 \in 0..(n + 1) /\ i - 1 # n + 1
      OBVIOUS
    <3>2. h[i - 1] = g[i - 1]
      BY <3>1
    <3>3. CASE i = n + 1
      BY <3>1, <3>2, <3>3
    <3>4. CASE i # n + 1
      <4>1. h[i] = g[i] /\ i \in 1..n
        BY <3>1, <3>4
      <4> QED  BY <2>1, <3>2, <4>1
    <3> QED  BY <3>3, <3>4
  <2> HIDE DEF h
  <2> QED  BY <1>2, <2>3, <2>4
<1> HIDE DEF P
<1>3. N \in P
  BY <1>1, <1>2, CountingUp
<1> QED  BY <1>3 DEF P, IsWalk

-----------------------------------------------------------------------------
(* One bind.                                                                *)

LEMMA BindsTyped ==
  /\ Len(Binds) \in Nat /\ BindIds = 1..Len(Binds)
  /\ \A b \in BindIds : Binds[b] \in Bind
BY BindAssumption DEF BindIds

\* What Dispatch writes.
Dispatched(s, d, b, e, press) ==
  /\ d.down = s.down /\ d.shadowed = s.shadowed
  /\ d.special = IF ~press THEN s.special \ {b}
                 ELSE IF Global(b) THEN s.special \cup {b} ELSE s.special
  /\ d.active = IF Binds[b].repeat /\ Binds[b].handler # "submap"
                THEN s.active \cup {b} ELSE s.active
  /\ d.ran = s.ran \cup {b}
  /\ d.slipped = IF press \/ ~ModsChanged(b, e) THEN s.slipped ELSE s.slipped \cup {b}
  /\ d.stop = (Binds[b].handler = "submap")

LEMMA DispatchFields ==
  ASSUME NEW s \in KeybindManager, NEW b \in BindIds, NEW e, NEW press,
         NEW d, d = Dispatch(s, b, e, press)
  PROVE  d \in KeybindManager /\ Dispatched(s, d, b, e, press)
<1>1. Binds[b] \in Bind
  BY BindsTyped
<1>2. /\ s.special \subseteq BindIds /\ s.active \subseteq BindIds
      /\ s.ran \subseteq BindIds /\ s.slipped \subseteq BindIds
  BY DEF KeybindManager
<1> DEFINE h == Binds[b].handler
           special == IF ~press THEN s.special \ {b}
                      ELSE IF Global(b) THEN s.special \cup {b} ELSE s.special
           jumping == IF h = "quickjump" THEN ~s.jumping ELSE s.jumping
           submap == IF h = "submap" THEN Binds[b].to ELSE s.submap
           active == IF Binds[b].repeat /\ h # "submap" THEN s.active \cup {b} ELSE s.active
           found == s.found \/ h = "submap" \/ ~Binds[b].nonConsuming
           slipped == IF press \/ ~ModsChanged(b, e) THEN s.slipped ELSE s.slipped \cup {b}
<1>3. special \subseteq BindIds /\ active \subseteq BindIds /\ slipped \subseteq BindIds
  BY <1>2
<1>4. jumping \in BOOLEAN /\ found \in BOOLEAN /\ (h = "submap") \in BOOLEAN
  BY DEF KeybindManager
<1>5. submap \in Submaps
  BY <1>1 DEF KeybindManager, Bind
<1>6. d = [s EXCEPT !.special = special, !.jumping = jumping, !.submap = submap,
                    !.active = active, !.found = found, !.stop = (h = "submap"),
                    !.ran = s.ran \cup {b}, !.slipped = slipped]
  BY DEF Dispatch
<1> HIDE DEF special, jumping, submap, active, found, slipped
<1>7. d = [down |-> s.down, shadowed |-> s.shadowed, special |-> special,
           active |-> active, submap |-> submap, jumping |-> jumping,
           ran |-> s.ran \cup {b}, slipped |-> slipped, found |-> found,
           stop |-> (h = "submap")]
  BY <1>6 DEF KeybindManager
<1>8. /\ d \in KeybindManager
      /\ d.down = s.down /\ d.shadowed = s.shadowed /\ d.special = special
      /\ d.active = active /\ d.ran = s.ran \cup {b} /\ d.slipped = slipped
      /\ d.stop = (h = "submap")
  BY <1>2, <1>3, <1>4, <1>5, <1>7 DEF KeybindManager
<1> QED  BY <1>8 DEF special, active, slipped, Dispatched

LEMMA WaitingFields ==
  ASSUME NEW s \in KeybindManager, NEW f \in BOOLEAN, NEW d, d = [s EXCEPT !.found = f]
  PROVE  /\ d \in KeybindManager
         /\ d.down = s.down /\ d.shadowed = s.shadowed /\ d.special = s.special
         /\ d.active = s.active /\ d.ran = s.ran /\ d.slipped = s.slipped
         /\ d.stop = s.stop /\ d.found = f
BY DEF KeybindManager

LEMMA StartFields ==
  ASSUME NEW s \in KeybindManager, NEW d, d = [s EXCEPT !.stop = FALSE, !.found = FALSE]
  PROVE  /\ d \in KeybindManager
         /\ d.down = s.down /\ d.shadowed = s.shadowed /\ d.special = s.special
         /\ d.active = s.active /\ d.ran = s.ran /\ d.slipped = s.slipped
         /\ d.stop = FALSE
BY DEF KeybindManager

LEMMA ConsiderTyped ==
  ASSUME NEW s \in KeybindManager, NEW b \in BindIds, NEW e, NEW press
  PROVE  Consider(s, b, e, press) \in KeybindManager
<1>1. Dispatch(s, b, e, press) \in KeybindManager
  BY DispatchFields
<1>2. [s EXCEPT !.found = s.found \/ ~Binds[b].nonConsuming] \in KeybindManager
  <2>1. (s.found \/ ~Binds[b].nonConsuming) \in BOOLEAN
    OBVIOUS
  <2> QED  BY <2>1, WaitingFields
<1> QED  BY <1>1, <1>2 DEF Consider

-----------------------------------------------------------------------------
(* The loops.                                                               *)

\* HandleKeybinds walks from the start over all binds.
LEMMA HandleWalks ==
  ASSUME NEW s \in KeybindManager, NEW e, NEW press
  PROVE  \E g \in [0..Len(Binds) -> KeybindManager] :
           /\ g[0] = [s EXCEPT !.stop = FALSE, !.found = FALSE]
           /\ \A b \in BindIds : g[b] = Consider(g[b - 1], b, e, press)
           /\ HandleKeybinds(s, e, press) = g[Len(Binds)]
<1> DEFINE N == Len(Binds)
           s0 == [s EXCEPT !.stop = FALSE, !.found = FALSE]
           Recurs(f) == f = [b \in 0..N |-> IF b = 0 THEN s0
                                            ELSE Consider(f[b - 1], b, e, press)]
<1>1. N \in Nat /\ BindIds = 1..N
  BY BindsTyped
<1>2. s0 \in KeybindManager
  BY StartFields
<1>3. PICK G : /\ LeadsOn(G, N, KeybindManager)
               /\ \A t \in KeybindManager, b \in 1..N :
                    G[<<t, b>>] = Consider(t, b, e, press)
  <2> DEFINE H == [p \in KeybindManager \X (1..N) |-> Consider(p[1], p[2], e, press)]
  <2>1. \A t \in KeybindManager, b \in 1..N : H[<<t, b>>] = Consider(t, b, e, press)
    OBVIOUS
  <2>2. \A t \in KeybindManager, b \in 1..N : Consider(t, b, e, press) \in KeybindManager
    BY <1>1, ConsiderTyped
  <2> HIDE DEF H, N
  <2>3. LeadsOn(H, N, KeybindManager)
    BY <2>1, <2>2 DEF LeadsOn
  <2> QED  BY <2>1, <2>3
<1>4. HandleKeybinds(s, e, press) = (CHOOSE f : Recurs(f))[N]
  BY DEF HandleKeybinds
<1> HIDE DEF N, s0, Recurs
<1>5. PICK g : IsWalk(g, G, N, KeybindManager, s0)
  BY <1>1, <1>2, <1>3, WalkExists
<1>6. /\ g \in [0..N -> KeybindManager] /\ g[0] = s0
      /\ \A b \in 1..N : g[b] = G[<<g[b - 1], b>>]
  BY <1>5 DEF IsWalk
<1>7. \A b \in 1..N : b - 1 \in 0..N /\ g[b - 1] \in KeybindManager
  BY <1>1, <1>6
<1>8. \A b \in 1..N : g[b] = Consider(g[b - 1], b, e, press)
  BY <1>3, <1>6, <1>7
<1>9. \A b \in 0..N : b = 0 \/ b \in 1..N
  BY <1>1
<1>10. \A b \in 0..N : g[b] = IF b = 0 THEN s0 ELSE Consider(g[b - 1], b, e, press)
  BY <1>6, <1>8, <1>9
<1> USE DEF Recurs
<1>11. Recurs(g)
  BY <1>6, <1>10
<1> DEFINE f == CHOOSE h : Recurs(h)
<1>12. Recurs(f)
  BY <1>11
<1> HIDE DEF f
<1>13. f = [b \in 0..N |-> IF b = 0 THEN s0 ELSE Consider(f[b - 1], b, e, press)]
  BY <1>12
<1>14. /\ DOMAIN f = 0..N /\ f[0] = s0
       /\ \A b \in 1..N : f[b] = Consider(f[b - 1], b, e, press)
  BY <1>1, <1>13
<1> DEFINE P == {n \in 0..N : f[n] \in KeybindManager}
<1>15. 0 \in P
  BY <1>1, <1>2, <1>14
<1>16. \A n \in 0..N : n \in P /\ n < N => n + 1 \in P
  <2> SUFFICES ASSUME NEW n \in 0..N, n \in P, n < N  PROVE n + 1 \in P
    OBVIOUS
  <2>1. n + 1 \in 1..N /\ (n + 1) - 1 = n /\ n + 1 \in 0..N
    BY <1>1
  <2>2. f[n + 1] = Consider(f[n], n + 1, e, press)
    BY <1>14, <2>1
  <2>3. Consider(f[n], n + 1, e, press) \in KeybindManager
    BY <1>1, <2>1, ConsiderTyped
  <2> QED  BY <2>1, <2>2, <2>3
<1> HIDE DEF P
<1>17. 0..N \subseteq P
  BY <1>1, <1>15, <1>16, CountingUp
<1>18. \A n \in 0..N : f[n] \in KeybindManager
  BY <1>17 DEF P
<1>19. f \in [0..N -> KeybindManager]
  BY <1>13, <1>14, <1>18
<1>20. HandleKeybinds(s, e, press) = f[N]
  BY <1>4 DEF f
<1> QED  BY <1>1, <1>14, <1>19, <1>20 DEF N, s0

\* What holds at the start and is led on by each bind, holds at the end.
LEMMA HandleLeads ==
  ASSUME NEW s \in KeybindManager, NEW e, NEW press, NEW I,
         \A d \in KeybindManager : d = [s EXCEPT !.stop = FALSE, !.found = FALSE] => d \in I[0],
         \A b \in BindIds : \A t \in KeybindManager :
           t \in I[b - 1] => Consider(t, b, e, press) \in I[b]
  PROVE  HandleKeybinds(s, e, press) \in KeybindManager \cap I[Len(Binds)]
<1>1. PICK g \in [0..Len(Binds) -> KeybindManager] :
           /\ g[0] = [s EXCEPT !.stop = FALSE, !.found = FALSE]
           /\ \A b \in BindIds : g[b] = Consider(g[b - 1], b, e, press)
           /\ HandleKeybinds(s, e, press) = g[Len(Binds)]
  BY HandleWalks
<1>2. Len(Binds) \in Nat /\ BindIds = 1..Len(Binds)
  BY BindsTyped
<1> DEFINE P == {n \in 0..Len(Binds) : g[n] \in I[n]}
<1>3. 0 \in P
  BY <1>1, <1>2
<1>4. \A n \in 0..Len(Binds) : n \in P /\ n < Len(Binds) => n + 1 \in P
  <2> SUFFICES ASSUME NEW n \in 0..Len(Binds), n \in P, n < Len(Binds)
               PROVE  n + 1 \in P
    OBVIOUS
  <2>1. n + 1 \in BindIds /\ (n + 1) - 1 = n /\ n + 1 \in 0..Len(Binds)
    BY <1>2
  <2>2. g[n + 1] = Consider(g[n], n + 1, e, press)
    BY <1>1, <2>1
  <2> QED  BY <2>1, <2>2
<1> HIDE DEF P
<1>5. Len(Binds) \in P
  BY <1>2, <1>3, <1>4, CountingUp
<1> QED  BY <1>1, <1>2, <1>5 DEF P

LEMMA HandleTyped ==
  ASSUME NEW s \in KeybindManager, NEW e, NEW press
  PROVE  HandleKeybinds(s, e, press) \in KeybindManager
<1> DEFINE I == [n \in 0..Len(Binds) |-> KeybindManager]
<1>1. \A d \in KeybindManager :
        d = [s EXCEPT !.stop = FALSE, !.found = FALSE] => d \in I[0]
  BY BindsTyped
<1>2. ASSUME NEW b \in BindIds, NEW t \in KeybindManager, t \in I[b - 1]
      PROVE  Consider(t, b, e, press) \in I[b]
  <2>1. b \in 0..Len(Binds)
    BY BindsTyped
  <2> QED  BY <2>1, ConsiderTyped
<1> HIDE DEF I
<1> QED  BY <1>1, <1>2, HandleLeads

\* OnRelease walks over the presses on record, and what is led on by each of
\* them holds at the end.
LEMMA ReleaseLeads ==
  ASSUME NEW s \in KeybindManager, NEW k \in Keys, s.down[k] # <<>>, NEW I, s \in I[0],
         \A i \in 1..Len(s.down[k]) : \A t \in KeybindManager :
           t \in I[i - 1] => HandleKeybinds(t, s.down[k][i], FALSE) \in I[i]
  PROVE  \E h \in KeybindManager \cap I[Len(s.down[k])] :
           OnRelease(s, k) = ShadowKeybinds(
             [h EXCEPT !.down[k] = <<>>, !.found = ~Last(s.down[k]).sent], {})
<1> DEFINE N == Len(s.down[k])
           Recurs(f) == f = [i \in 0..N |->
             IF i = 0 THEN s ELSE HandleKeybinds(f[i - 1], s.down[k][i], FALSE)]
           f == CHOOSE h : Recurs(h)
<1>1. N \in Nat
  BY DEF KeybindManager
<1>2. PICK G : /\ LeadsOn(G, N, KeybindManager)
               /\ \A t \in KeybindManager, i \in 1..N :
                    G[<<t, i>>] = HandleKeybinds(t, s.down[k][i], FALSE)
  <2> DEFINE H == [p \in KeybindManager \X (1..N) |->
                     HandleKeybinds(p[1], s.down[k][p[2]], FALSE)]
  <2>1. \A t \in KeybindManager, i \in 1..N :
          H[<<t, i>>] = HandleKeybinds(t, s.down[k][i], FALSE)
    OBVIOUS
  <2>2. \A t \in KeybindManager, i \in 1..N :
          HandleKeybinds(t, s.down[k][i], FALSE) \in KeybindManager
    BY HandleTyped
  <2> HIDE DEF H, N
  <2>3. LeadsOn(H, N, KeybindManager)
    BY <2>1, <2>2 DEF LeadsOn
  <2> QED  BY <2>1, <2>3
<1>3. OnRelease(s, k) = ShadowKeybinds(
        [f[N] EXCEPT !.down[k] = <<>>, !.found = ~Last(s.down[k]).sent], {})
  BY DEF OnRelease
<1> HIDE DEF N, Recurs, f
<1>4. PICK g : IsWalk(g, G, N, KeybindManager, s)
  BY <1>1, <1>2, WalkExists
<1>5. /\ g \in [0..N -> KeybindManager] /\ g[0] = s
      /\ \A i \in 1..N : g[i] = G[<<g[i - 1], i>>]
  BY <1>4 DEF IsWalk
<1>6. \A i \in 1..N : i - 1 \in 0..N /\ g[i - 1] \in KeybindManager
  BY <1>1, <1>5
<1>7. \A i \in 1..N : g[i] = HandleKeybinds(g[i - 1], s.down[k][i], FALSE)
  BY <1>2, <1>5, <1>6
<1>8. \A i \in 0..N : i = 0 \/ i \in 1..N
  BY <1>1
<1>9. \A i \in 0..N :
        g[i] = IF i = 0 THEN s ELSE HandleKeybinds(g[i - 1], s.down[k][i], FALSE)
  BY <1>5, <1>7, <1>8
<1>10. Recurs(g)
  BY <1>5, <1>9 DEF Recurs
<1>11. Recurs(f)
  BY <1>10 DEF f
<1>12. /\ f[0] = s
       /\ \A i \in 1..N : f[i] = HandleKeybinds(f[i - 1], s.down[k][i], FALSE)
  <2>1. f = [i \in 0..N |->
               IF i = 0 THEN s ELSE HandleKeybinds(f[i - 1], s.down[k][i], FALSE)]
    BY <1>11 DEF Recurs
  <2>2. \A i \in 0..N :
          f[i] = IF i = 0 THEN s ELSE HandleKeybinds(f[i - 1], s.down[k][i], FALSE)
    <3> HIDE DEF N
    <3> QED  BY <2>1, Zenon
  <2>3. 0 \in 0..N /\ \A i \in 1..N : i \in 0..N /\ i # 0
    BY <1>1
  <2> QED  BY <2>2, <2>3
<1> DEFINE P == {n \in 0..N : f[n] \in KeybindManager \cap I[n]}
<1>13. 0 \in P
  BY <1>1, <1>12
<1>14. \A n \in 0..N : n \in P /\ n < N => n + 1 \in P
  <2> SUFFICES ASSUME NEW n \in 0..N, n \in P, n < N  PROVE n + 1 \in P
    OBVIOUS
  <2>1. n + 1 \in 1..N /\ (n + 1) - 1 = n /\ n + 1 \in 0..N
    BY <1>1
  <2>2. f[n + 1] = HandleKeybinds(f[n], s.down[k][n + 1], FALSE)
    BY <1>12, <2>1
  <2>3. f[n] \in KeybindManager /\ f[n] \in I[n]
    OBVIOUS
  <2>4. HandleKeybinds(f[n], s.down[k][n + 1], FALSE) \in KeybindManager
    BY <2>3, HandleTyped
  <2>5. HandleKeybinds(f[n], s.down[k][n + 1], FALSE) \in I[n + 1]
    BY <2>1, <2>3 DEF N
  <2> QED  BY <2>1, <2>2, <2>4, <2>5
<1> HIDE DEF P
<1>15. 0..N \subseteq P
  BY <1>1, <1>13, <1>14, CountingUp
<1>16. f[N] \in KeybindManager \cap I[N]
  BY <1>1, <1>15 DEF P
<1> QED  BY <1>3, <1>16 DEF N

-----------------------------------------------------------------------------
(* What a stroke does to the keybind manager.                               *)

\* What is known of a bind that the event e ran.
RunBy(b, e, press) ==
  /\ Binds[b].key = e.key
  /\ \/ Global(b)
     \/ ~Waits(b, e, press) /\ (Binds[b].mods = mods \/ Binds[b].ignoreMods)

\* How t may differ from s, when the event e has been handled.
Effects(s, t, e, press) ==
  /\ t.down = s.down /\ t.shadowed = s.shadowed
  /\ \A b \in t.special : b \in s.special \/ Global(b)
  /\ \A b \in t.ran : b \in s.ran \/ RunBy(b, e, press)
  /\ \A b \in t.active : b \in s.active \/ RunBy(b, e, press)
  /\ \A b \in t.active : b \in s.active \/ Global(b) \/ press \/ b \in t.slipped
  /\ s.slipped \subseteq t.slipped /\ s.ran \subseteq t.ran

\* A bind that repeats waits for no release, so a release runs it only if the
\* modifiers have changed.
LEMMA ConsiderEffects ==
  ASSUME NEW s \in KeybindManager, NEW t \in KeybindManager, NEW b \in BindIds,
         NEW e, NEW press, Effects(s, t, e, press)
  PROVE  Effects(s, Consider(t, b, e, press), e, press)
<1>1. CASE t.stop \/ ~Matches(t, b, e, press) \/ GivenUp(b, e, press)
  BY <1>1 DEF Consider
<1>2. CASE /\ ~(t.stop \/ ~Matches(t, b, e, press) \/ GivenUp(b, e, press))
           /\ Waits(b, e, press)
  <2>1. PICK f \in BOOLEAN : f = (t.found \/ ~Binds[b].nonConsuming)
    OBVIOUS
  <2>2. PICK d : d = [t EXCEPT !.found = f]
    OBVIOUS
  <2>3. Consider(t, b, e, press) = d
    BY <1>2, <2>1, <2>2 DEF Consider
  <2>4. /\ d.down = t.down /\ d.shadowed = t.shadowed /\ d.special = t.special
        /\ d.active = t.active /\ d.ran = t.ran /\ d.slipped = t.slipped
    BY <2>2, WaitingFields
  <2> QED  BY <2>3, <2>4 DEF Effects
<1>3. CASE /\ ~(t.stop \/ ~Matches(t, b, e, press) \/ GivenUp(b, e, press))
           /\ ~Waits(b, e, press)
  <2>1. PICK d : d = Dispatch(t, b, e, press)
    OBVIOUS
  <2>2. Consider(t, b, e, press) = d
    BY <1>3, <2>1 DEF Consider
  <2>3. Dispatched(t, d, b, e, press)
    BY <2>1, DispatchFields
  <2>4. RunBy(b, e, press)
    BY <1>3 DEF Matches, IgnoresConditions, RunBy
  <2>5. Binds[b].repeat => ~Binds[b].release
    BY BindAssumption
  <2>6. Binds[b].repeat => Global(b) \/ press \/ b \in d.slipped
    BY <1>3, <2>3, <2>5 DEF Waits, Dispatched
  <2>7. t.slipped \subseteq d.slipped
    BY <2>3 DEF Dispatched
  <2>8. \A c \in d.active : c \in t.active \/ (c = b /\ Binds[b].repeat)
    BY <2>3 DEF Dispatched
  <2>9. \A c \in d.special : c \in t.special \/ Global(c)
    BY <2>3 DEF Dispatched
  <2> HIDE DEF RunBy
  <2> QED  BY <2>2, <2>3, <2>4, <2>6, <2>7, <2>8, <2>9 DEF Effects, Dispatched
<1> QED  BY <1>1, <1>2, <1>3

LEMMA HandleEffects ==
  ASSUME NEW s \in KeybindManager, NEW e, NEW press
  PROVE  /\ HandleKeybinds(s, e, press) \in KeybindManager
         /\ Effects(s, HandleKeybinds(s, e, press), e, press)
<1> DEFINE E == {t \in KeybindManager : Effects(s, t, e, press)}
           I == [n \in 0..Len(Binds) |-> E]
<1>1. ASSUME NEW d \in KeybindManager, d = [s EXCEPT !.stop = FALSE, !.found = FALSE]
      PROVE  d \in I[0]
  <2>1. /\ d.down = s.down /\ d.shadowed = s.shadowed /\ d.special = s.special
        /\ d.active = s.active /\ d.ran = s.ran /\ d.slipped = s.slipped
    BY <1>1, StartFields
  <2>2. d \in E
    BY <2>1 DEF Effects
  <2> QED  BY <2>2, BindsTyped
<1>2. ASSUME NEW b \in BindIds, NEW t \in KeybindManager, t \in I[b - 1]
      PROVE  Consider(t, b, e, press) \in I[b]
  <2>1. b \in 0..Len(Binds) /\ b - 1 \in 0..Len(Binds)
    BY BindsTyped
  <2>2. t \in E
    BY <1>2, <2>1
  <2>3. Consider(t, b, e, press) \in E
    BY <2>2, ConsiderTyped, ConsiderEffects
  <2> QED  BY <2>1, <2>3
<1>3. I[Len(Binds)] = E
  BY BindsTyped
<1> HIDE DEF I
<1>4. HandleKeybinds(s, e, press) \in E
  BY <1>1, <1>2, <1>3, HandleLeads
<1> QED  BY <1>4

\* Every field but the shadows stays, and the key of each shadow is down.
Shadowing(s, d) ==
  /\ d.down = s.down /\ d.special = s.special /\ d.active = s.active
  /\ d.ran = s.ran /\ d.slipped = s.slipped /\ d.found = s.found
  /\ \A b \in d.shadowed : Binds[b].key \in Down(d)

LEMMA ShadowFields ==
  ASSUME NEW s \in KeybindManager, NEW except, NEW d, d = ShadowKeybinds(s, except)
  PROVE  d \in KeybindManager /\ Shadowing(s, d)
<1> DEFINE S == {b \in BindIds : ~Global(b) /\ ~Binds[b].transparent
                                 /\ Binds[b].key \in Down(s) \ except}
<1>1. S \subseteq BindIds /\ \A b \in S : Binds[b].key \in Down(s)
  OBVIOUS
<1>2. d = [s EXCEPT !.shadowed = S]
  BY DEF ShadowKeybinds
<1> HIDE DEF S
<1>3. /\ d \in KeybindManager
      /\ d.down = s.down /\ d.special = s.special /\ d.active = s.active
      /\ d.ran = s.ran /\ d.slipped = s.slipped /\ d.found = s.found
      /\ d.shadowed = S
  BY <1>1, <1>2 DEF KeybindManager
<1> QED  BY <1>1, <1>3 DEF Down, Shadowing

Strokes == [Keys -> Seq(Stroke)]

\* Every field but the record of the presses and found stays.
Recording(s, d, D, f) ==
  /\ d.down = D /\ d.found = f /\ d.shadowed = s.shadowed /\ d.special = s.special
  /\ d.active = s.active /\ d.ran = s.ran /\ d.slipped = s.slipped

LEMMA RecordFields ==
  ASSUME NEW s \in KeybindManager, NEW D \in Strokes, NEW f \in BOOLEAN,
         NEW d, d = [s EXCEPT !.down = D, !.found = f]
  PROVE  d \in KeybindManager /\ Recording(s, d, D, f)
BY DEF KeybindManager, Strokes, Recording

\* What the press of a key leaves behind.
LeftByPress(s, d, k) ==
  /\ \E st \in Stroke :
       /\ st.key = k /\ st.mods = mods /\ st.sent = ~d.found
       /\ \A b \in st.ran : RunBy(b, Event(k), TRUE)
       /\ d.down = [s.down EXCEPT ![k] = Append(s.down[k], st)]
  /\ \A b \in d.shadowed : b \in s.shadowed \/ Binds[b].key \in Down(d)
  /\ \A b \in d.special : b \in s.special \/ Global(b)
  /\ \A b \in d.active : Binds[b].key = k

LEMMA PressEffects ==
  ASSUME NEW s \in KeybindManager, NEW k \in Keys, mods \subseteq Mods, s.active = {},
         s.ran = {}, NEW d, d = OnPress(s, k)
  PROVE  d \in KeybindManager /\ LeftByPress(s, d, k)
<1> DEFINE e == Event(k)
           h == HandleKeybinds(s, e, TRUE)
           st == [key |-> k, mods |-> mods, sent |-> ~h.found, ran |-> h.ran]
           D == [s.down EXCEPT ![k] = Append(s.down[k], st)]
           t == [h EXCEPT !.down[k] = Append(@, st)]
<1>1. h \in KeybindManager /\ Effects(s, h, e, TRUE)
  BY HandleEffects
<1>2. d = IF h.found THEN ShadowKeybinds(t, {k}) ELSE t
  BY DEF OnPress
<1>3. e.key = k
  BY DEF Event
<1> HIDE DEF e, h
<1>4. /\ h.down = s.down /\ h.shadowed = s.shadowed
      /\ \A b \in h.special : b \in s.special \/ Global(b)
      /\ \A b \in h.ran : RunBy(b, e, TRUE)
      /\ \A b \in h.active : RunBy(b, e, TRUE)
  BY <1>1 DEF Effects
<1>5. /\ st \in Stroke /\ st.key = k /\ st.mods = mods /\ st.sent = ~h.found
      /\ st.ran = h.ran
  BY <1>1 DEF Stroke, KeybindManager
<1> HIDE DEF st
<1>6. D \in Strokes /\ s.down[k] \in Seq(Stroke)
  BY <1>5 DEF KeybindManager, Strokes
<1>7. t = [h EXCEPT !.down = D, !.found = h.found]
  BY <1>1, <1>4, <1>6 DEF KeybindManager
<1>8. h.found \in BOOLEAN
  BY <1>1 DEF KeybindManager
<1> HIDE DEF D, t
<1>9. t \in KeybindManager /\ Recording(h, t, D, h.found)
  BY <1>1, <1>6, <1>7, <1>8, RecordFields
<1>10. /\ d \in KeybindManager /\ d.down = D /\ d.special = h.special
       /\ d.active = h.active /\ d.found = h.found
       /\ \A b \in d.shadowed : b \in h.shadowed \/ Binds[b].key \in Down(d)
  <2>1. CASE h.found
    <3>1. Shadowing(t, d) /\ d \in KeybindManager
      BY <1>2, <1>9, <2>1, ShadowFields
    <3> QED  BY <1>9, <3>1 DEF Shadowing, Recording
  <2>2. CASE ~h.found
    BY <1>2, <1>9, <2>2 DEF Recording
  <2> QED  BY <2>1, <2>2
<1>11. \A b : RunBy(b, e, TRUE) => Binds[b].key = k
  BY <1>3 DEF RunBy
<1>12. D = [s.down EXCEPT ![k] = Append(s.down[k], st)]
  BY DEF D
<1>13. \A b \in st.ran : RunBy(b, Event(k), TRUE)
  BY <1>4, <1>5 DEF e
<1> QED  BY <1>4, <1>5, <1>10, <1>11, <1>12, <1>13 DEF LeftByPress

\* What the release of a key leaves behind.
LeftByRelease(s, d, k) ==
  /\ d.down = [s.down EXCEPT ![k] = <<>>]
  /\ \A b \in d.shadowed : Binds[b].key \in Down(d)
  /\ \A b \in d.special : b \in s.special \/ Global(b)
  /\ \A b \in d.active : Global(b) \/ b \in d.slipped
  /\ s.down[k] # <<>> =>
       /\ d.found = ~Last(s.down[k]).sent
       /\ \A b \in d.ran : \E i \in DOMAIN s.down[k] : RunBy(b, s.down[k][i], FALSE)

LEMMA ReleaseEffects ==
  ASSUME NEW s \in KeybindManager, NEW k \in Keys, s.active = {}, s.ran = {},
         NEW d, d = OnRelease(s, k)
  PROVE  d \in KeybindManager /\ LeftByRelease(s, d, k)
<1> DEFINE D == [s.down EXCEPT ![k] = <<>>]
           Good(t) == /\ t.down = s.down /\ t.shadowed = s.shadowed
                      /\ \A b \in t.special : b \in s.special \/ Global(b)
                      /\ \A b \in t.active : Global(b) \/ b \in t.slipped
           Ran(t) == \A b \in t.ran : \E i \in DOMAIN s.down[k] :
                       RunBy(b, s.down[k][i], FALSE)
<1>1. D \in Strokes /\ s.down[k] \in Seq(Stroke)
  BY DEF KeybindManager, Strokes
<1>2. CASE s.down[k] = <<>>
  <2> DEFINE h == HandleKeybinds(s, Event(k), FALSE)
             t == [h EXCEPT !.down[k] = <<>>, !.found = h.found]
  <2>1. h \in KeybindManager /\ Effects(s, h, Event(k), FALSE)
    BY HandleEffects
  <2>2. d = ShadowKeybinds(t, {})
    BY <1>2 DEF OnRelease
  <2> HIDE DEF h
  <2>3. Good(h) /\ h.found \in BOOLEAN
    BY <2>1 DEF Effects, KeybindManager
  <2>4. t = [h EXCEPT !.down = D, !.found = h.found]
    BY <2>1, <2>3 DEF KeybindManager
  <2> HIDE DEF t, D
  <2>5. t \in KeybindManager /\ Recording(h, t, D, h.found)
    BY <1>1, <2>1, <2>3, <2>4, RecordFields
  <2>6. d \in KeybindManager /\ Shadowing(t, d)
    BY <2>2, <2>5, ShadowFields
  <2> QED  BY <1>2, <2>3, <2>5, <2>6 DEF D, Shadowing, Recording, LeftByRelease
<1>3. CASE s.down[k] # <<>>
  <2> DEFINE E == {t \in KeybindManager : Good(t) /\ Ran(t)}
             I == [i \in 0..Len(s.down[k]) |-> E]
  <2>1. Len(s.down[k]) \in Nat /\ DOMAIN s.down[k] = 1..Len(s.down[k])
    BY <1>1
  <2>2. s \in I[0]
    BY <2>1
  <2>3. ASSUME NEW i \in 1..Len(s.down[k]), NEW t \in KeybindManager, t \in I[i - 1]
        PROVE  HandleKeybinds(t, s.down[k][i], FALSE) \in I[i]
    <3>1. i \in 0..Len(s.down[k]) /\ i - 1 \in 0..Len(s.down[k])
      BY <2>1
    <3>2. t \in E
      BY <2>3, <3>1
    <3>3. PICK e : e = s.down[k][i]
      OBVIOUS
    <3>4. PICK u : u = HandleKeybinds(t, e, FALSE)
      OBVIOUS
    <3>5. u \in KeybindManager /\ Effects(t, u, e, FALSE)
      BY <3>4, HandleEffects
    <3>6. Good(u)
      BY <3>2, <3>5 DEF Effects
    <3>7. Ran(u)
      BY <2>1, <3>2, <3>3, <3>5 DEF Effects
    <3>8. u \in E
      BY <3>5, <3>6, <3>7
    <3> QED  BY <3>1, <3>3, <3>4, <3>8
  <2> HIDE DEF I
  <2>4. PICK h \in KeybindManager \cap I[Len(s.down[k])] :
          d = ShadowKeybinds([h EXCEPT !.down[k] = <<>>, !.found = ~Last(s.down[k]).sent], {})
    BY <1>3, <2>2, <2>3, ReleaseLeads
  <2> USE DEF I
  <2>5. h \in E
    BY <2>1, <2>4
  <2> DEFINE f == ~Last(s.down[k]).sent
             t == [h EXCEPT !.down[k] = <<>>, !.found = f]
  <2>6. f \in BOOLEAN
    OBVIOUS
  <2>7. d = ShadowKeybinds(t, {})
    BY <2>4
  <2> HIDE DEF f, I
  <2>8. t = [h EXCEPT !.down = D, !.found = f]
    BY <2>5 DEF KeybindManager
  <2> HIDE DEF t, D
  <2>9. t \in KeybindManager /\ Recording(h, t, D, f)
    BY <1>1, <2>5, <2>6, <2>8, RecordFields
  <2>10. d \in KeybindManager /\ Shadowing(t, d)
    BY <2>7, <2>9, ShadowFields
  <2> QED  BY <2>5, <2>9, <2>10 DEF D, f, Shadowing, Recording, LeftByRelease
<1> QED  BY <1>2, <1>3

-----------------------------------------------------------------------------
(* The invariant.                                                           *)

Typed ==
  /\ held \in [Keyboards -> SUBSET Keys]
  /\ config \in [Keyboards -> Setting]
  /\ mods \subseteq Mods
  /\ km \in KeybindManager
  /\ pressed \cup seen \cup strayed \subseteq Keys
  /\ focus \in Clients \cup {NoClient}
  /\ mode \in [Modes -> BOOLEAN]
  /\ changes \in 0 .. MaxChanges /\ away \in BOOLEAN

\* The keyboards whose keys reach the binds and that hold the key.
Listened(h, k) ==
  {kb \in Keyboards : Heard(kb) /\ config[kb].binds /\ k \in h[kb]}

\* A press is on record only if such a keyboard still holds the key, or one
\* was configured meanwhile.
FewPresses == \A k \in Keys : Len(km.down[k]) <= Cardinality(Listened(held, k)) + changes

\* A bind that repeats has its key on record.
RepeatDown ==
  ~away => \A b \in km.active \ km.slipped : Global(b) \/ Binds[b].key \in Down(km)

\* A key whose last press was kept from the clients, and that they take for
\* pressed all the same, is held on two keyboards.
KeptBackIsShared ==
  \A k \in pressed \ strayed :
    KeptBack(km, k) =>
      \E o, p \in Keyboards : o # p /\ k \in held[o] /\ k \in held[p]

\* A bind that a press ran waits for no release, and is a bind of that key
\* under the modifiers of the press.
RanByPress(st) ==
  \A b \in st.ran : \/ Global(b)
                    \/ ~Binds[b].release /\ (Binds[b].ignoreMods \/ Binds[b].mods = st.mods)
StrokesSound ==
  \A k \in Keys : \A i \in DOMAIN km.down[k] :
    km.down[k][i].key = k /\ RanByPress(km.down[k][i])

SpecialAreGlobal == \A b \in km.special : Global(b)

IInv ==
  /\ Typed /\ FewPresses /\ KeptBackIsShared /\ StrokesSound /\ SpecialAreGlobal
  /\ NoStuckKeys /\ SeenIsPressed /\ ShadowsArePressed /\ RepeatDown /\ RecordHeld

LEMMA ListenedFinite ==
  ASSUME NEW h, NEW k
  PROVE  /\ IsFiniteSet(Listened(h, k)) /\ Cardinality(Listened(h, k)) \in Nat
         /\ Cardinality(Listened(h, k)) <= Cardinality(Keyboards)
         /\ Cardinality(Keyboards) \in Nat
<1>1. Listened(h, k) \subseteq Keyboards /\ IsFiniteSet(Keyboards)
  BY KeyAssumption DEF Listened
<1> QED  BY <1>1, FS_Subset, FS_CardinalityType

LEMMA InitInvariant == Init => IInv
<1> SUFFICES ASSUME Init  PROVE IInv
  OBVIOUS
<1> USE DEF Init
<1>1. km \in KeybindManager
  <2>1. [k \in Keys |-> <<>>] \in [Keys -> Seq(Stroke)]
    OBVIOUS
  <2> QED  BY <2>1, KeyAssumption DEF KeybindManager
<1>2. Typed
  <2>1. held \in [Keyboards -> SUBSET Keys] /\ config \in [Keyboards -> Setting]
    BY DEF Setting, Plugged
  <2>2. mode \in [Modes -> BOOLEAN]
    OBVIOUS
  <2>3. changes \in 0..MaxChanges /\ MaxChanges \in Nat
    BY KeyAssumption
  <2> QED  BY <1>1, <2>1, <2>2, <2>3 DEF Typed
<1>3. \A k \in Keys : km.down[k] = <<>> /\ Len(km.down[k]) = 0
  OBVIOUS
<1>4. FewPresses
  <2> SUFFICES ASSUME NEW k \in Keys
               PROVE  Len(km.down[k]) <= Cardinality(Listened(held, k)) + changes
    BY DEF FewPresses
  <2>1. Cardinality(Listened(held, k)) \in Nat /\ changes = 0 /\ Len(km.down[k]) = 0
    BY <1>3, ListenedFinite
  <2> QED  BY <2>1
<1>5. StrokesSound
  BY <1>3 DEF StrokesSound
<1>6. /\ KeptBackIsShared /\ NoStuckKeys /\ SeenIsPressed /\ SpecialAreGlobal
      /\ ShadowsArePressed /\ RepeatDown /\ RecordHeld
  BY <1>3 DEF KeptBackIsShared, KeptBack, NoStuckKeys, SeenIsPressed, SpecialAreGlobal,
         ShadowsArePressed, RepeatDown, RecordHeld, Down
<1> QED  BY <1>2, <1>4, <1>5, <1>6 DEF IInv

-----------------------------------------------------------------------------
(* A key on its way.                                                        *)

QuietStays ==
  /\ km' \in KeybindManager
  /\ km'.down = km.down /\ km'.shadowed = km.shadowed /\ km'.special = km.special
  /\ km'.active = km.active /\ km'.slipped = km.slipped

\* The session is away: the record of the presses is dropped.
Cleared ==
  /\ km' \in KeybindManager
  /\ km'.down = [j \in Keys |-> <<>>]
  /\ km'.shadowed = km.shadowed /\ km'.special = km.special
  /\ km'.active = km.active /\ km'.slipped = km.slipped /\ km'.ran = {}

PutDown(k) ==
  /\ km' \in KeybindManager
  /\ \E st \in Stroke :
       /\ st.key = k /\ st.sent = ~km'.found /\ RanByPress(st)
       /\ km'.down = [km.down EXCEPT ![k] = Append(km.down[k], st)]
  /\ \A b \in km'.shadowed : b \in km.shadowed \/ Binds[b].key \in Down(km')
  /\ \A b \in km'.special : b \in km.special \/ Global(b)
  /\ \A b \in km'.active : Binds[b].key = k

LetGo(k) ==
  /\ km' \in KeybindManager
  /\ km'.down = [km.down EXCEPT ![k] = <<>>]
  /\ \A b \in km'.shadowed : Binds[b].key \in Down(km')
  /\ \A b \in km'.special : b \in km.special \/ Global(b)
  /\ \A b \in km'.active : Global(b) \/ b \in km'.slipped
  /\ km.down[k] # <<>> =>
       /\ km'.found = ~Last(km.down[k]).sent
       /\ \A b \in km'.ran : \E i \in DOMAIN km.down[k] : RunBy(b, km.down[k][i], FALSE)

LEMMA QuietenedFields ==
  ASSUME NEW s \in KeybindManager, NEW d, d = Quietened(s)
  PROVE  /\ d \in KeybindManager /\ d.active = {} /\ d.ran = {}
         /\ d.down = s.down /\ d.shadowed = s.shadowed /\ d.special = s.special
BY DEF KeybindManager, Quietened

LEMMA ClearedFields ==
  ASSUME NEW s \in KeybindManager,
         km' = [s EXCEPT !.down = [j \in Keys |-> <<>>], !.ran = {}, !.found = FALSE],
         s = km
  PROVE  Cleared /\ ~km'.found
<1>1. [j \in Keys |-> <<>>] \in [Keys -> Seq(Stroke)]
  OBVIOUS
<1> QED  BY <1>1 DEF KeybindManager, Cleared

LEMMA PressedKey ==
  ASSUME Typed, NEW k \in Keys, km' = OnPress(Quietened(km), k)
  PROVE  PutDown(k)
<1>1. PICK s : s = Quietened(km)
  OBVIOUS
<1>2. /\ s \in KeybindManager /\ s.active = {} /\ s.ran = {}
      /\ s.down = km.down /\ s.shadowed = km.shadowed /\ s.special = km.special
  BY <1>1, QuietenedFields DEF Typed
<1>3. mods \subseteq Mods
  BY DEF Typed
<1>4. PICK d : d = OnPress(s, k)
  OBVIOUS
<1>5. d \in KeybindManager /\ LeftByPress(s, d, k)
  BY <1>2, <1>3, <1>4, PressEffects
<1>6. d = km'
  BY <1>1, <1>4
<1>7. \A b : RunBy(b, Event(k), TRUE) =>
        Global(b) \/ (~Binds[b].release /\ (Binds[b].ignoreMods \/ Binds[b].mods = mods))
  BY DEF RunBy, Waits
<1>8. \E st \in Stroke :
        /\ st.key = k /\ st.sent = ~km'.found /\ RanByPress(st)
        /\ km'.down = [km.down EXCEPT ![k] = Append(km.down[k], st)]
  BY <1>2, <1>5, <1>6, <1>7 DEF RanByPress, LeftByPress
<1> QED  BY <1>2, <1>5, <1>6, <1>8 DEF PutDown, LeftByPress

LEMMA ReleasedKey ==
  ASSUME Typed, NEW k \in Keys, km' = OnRelease(Quietened(km), k)
  PROVE  LetGo(k)
<1>1. PICK s : s = Quietened(km)
  OBVIOUS
<1>2. /\ s \in KeybindManager /\ s.active = {} /\ s.ran = {}
      /\ s.down = km.down /\ s.shadowed = km.shadowed /\ s.special = km.special
  BY <1>1, QuietenedFields DEF Typed
<1>3. PICK d : d = OnRelease(s, k)
  OBVIOUS
<1>4. d \in KeybindManager /\ LeftByRelease(s, d, k)
  BY <1>2, <1>3, ReleaseEffects
<1>5. d = km'
  BY <1>1, <1>3
<1> QED  BY <1>2, <1>4, <1>5 DEF LetGo, LeftByRelease

\* How the clients are told of a key.
LEMMA Told ==
  ASSUME Typed, NEW h, NEW k \in Keys, NEW press \in BOOLEAN, Tell(h, k, press)
  PROVE  /\ pressed' = IF press \/ Holds(h, k) # {} THEN pressed \cup {k} ELSE pressed \ {k}
         /\ pressed' \cup seen' \subseteq Keys
         /\ SeenIsPressed /\ focus' = focus => SeenIsPressed'
<1> DEFINE now == IF Shared(h, k, press) THEN pressed \cup {k} ELSE pressed \ {k}
<1>1. /\ pressed' = now
      /\ seen' = IF focus = NoClient THEN seen
                 ELSE (seen \ (pressed \ now)) \cup (now \ pressed)
  BY DEF Tell
<1>2. now = IF press \/ Holds(h, k) # {} THEN pressed \cup {k} ELSE pressed \ {k}
  BY DEF Shared
<1>3. now \subseteq Keys /\ seen \subseteq Keys
  BY DEF Typed
<1> HIDE DEF now
<1>4. pressed' \cup seen' \subseteq Keys
  BY <1>1, <1>3
<1>5. ASSUME seen = pressed  PROVE (seen \ (pressed \ now)) \cup (now \ pressed) = now
  BY <1>5
<1>6. ASSUME SeenIsPressed, focus' = focus  PROVE SeenIsPressed'
  BY <1>1, <1>5, <1>6 DEF SeenIsPressed
<1> QED  BY <1>1, <1>2, <1>4, <1>6

\* The clients are told nothing.
Unheard == pressed' = pressed /\ seen' = seen

LEMMA QuietFields ==
  ASSUME NEW s \in KeybindManager, NEW j \in BOOLEAN, NEW f \in BOOLEAN, s = km,
         \/ km' = [s EXCEPT !.ran = {}, !.found = f]
         \/ km' = [s EXCEPT !.jumping = j, !.ran = {}, !.found = f]
  PROVE  QuietStays /\ km'.found = f
BY DEF KeybindManager, QuietStays

\* A key that goes down: to nobody or the quick jump, or past the binds to the
\* clients; with the session away; or to the keybinds, and if they let it pass,
\* to the clients.
LEMMA PressRoutes ==
  ASSUME Typed, NEW kb \in Keyboards, NEW k \in Keys, Press(kb, k)
  PROVE  \/ QuietStays /\ away' = away /\ (Unheard \/ Tell(held', k, TRUE))
         \/ Cleared /\ away' = TRUE /\ (Unheard \/ Tell(held', k, TRUE))
         \/ /\ Heard(kb) /\ config[kb].binds /\ PutDown(k) /\ away' = away
            /\ Unheard \/ (~km'.found /\ Tell(held', k, TRUE))
<1>1. km \in KeybindManager /\ away \in BOOLEAN
  BY DEF Typed
<1>2. Route(held', kb, k, TRUE)
  BY DEF Press, Key
<1>3. away' = IF ~Heard(kb) \/ Jumps(k, TRUE) THEN away
              ELSE ~mode.working \/ (away /\ (TRUE \/ ~Bound(kb)))
  BY DEF Press, Key
<1>4. CASE ~Heard(kb)
  <2>1. km' = km /\ pressed' = pressed /\ seen' = seen
    BY <1>2, <1>4 DEF Route
  <2> QED  BY <1>1, <1>3, <1>4, <2>1 DEF QuietStays, Unheard
<1>5. CASE Heard(kb) /\ Jumps(k, TRUE)
  <2>1. PICK j \in BOOLEAN : j = (k # Escape)
    OBVIOUS
  <2>2. km' = [km EXCEPT !.jumping = j, !.ran = {}, !.found = TRUE]
    BY <1>2, <1>5, <2>1 DEF Route
  <2>3. Unheard
    BY <1>2, <1>5 DEF Route, Unheard
  <2>4. QuietStays
    BY <1>1, <2>2, QuietFields
  <2> QED  BY <1>3, <1>5, <2>3, <2>4
<1>6. CASE Heard(kb) /\ ~Jumps(k, TRUE)
  <2>1. km' = OnKeyEvent(km, kb, k, TRUE)
    BY <1>2, <1>6 DEF Route
  <2>2. Unheard \/ (~km'.found /\ Tell(held', k, TRUE))
    BY <1>2, <1>6 DEF Route, Unheard
  <2>3. CASE ~mode.working
    <3>1. Cleared
      BY <1>1, <2>1, <2>3, ClearedFields DEF OnKeyEvent
    <3> QED  BY <1>3, <1>6, <2>2, <2>3, <3>1
  <2>4. CASE mode.working
    <3>1. away' = away
      BY <1>1, <1>3, <1>6, <2>4
    <3>2. CASE ~config[kb].binds
      <4>1. km' = [km EXCEPT !.ran = {}, !.found = FALSE]
        BY <2>1, <2>4, <3>2 DEF OnKeyEvent
      <4>2. QuietStays
        BY <1>1, <4>1, QuietFields
      <4> QED  BY <2>2, <3>1, <4>2
    <3>3. CASE config[kb].binds
      <4>1. PutDown(k)
        BY <2>1, <2>4, <3>3, PressedKey DEF OnKeyEvent
      <4> QED  BY <1>6, <2>2, <3>1, <3>3, <4>1
    <3> QED  BY <3>2, <3>3
  <2> QED  BY <2>3, <2>4
<1> QED  BY <1>4, <1>5, <1>6

\* A key that comes up.
LEMMA ReleaseRoutes ==
  ASSUME Typed, NEW kb \in Keyboards, NEW k \in Keys, Release(kb, k)
  PROVE  \/ ~Heard(kb) /\ QuietStays /\ Unheard /\ away' = away
         \/ /\ Heard(kb) /\ Cleared /\ away' = TRUE /\ ~Bound(kb)
            /\ Unheard \/ Tell(held', k, FALSE)
            /\ ~mode.ime => Tell(held', k, FALSE)
         \/ /\ Heard(kb) /\ QuietStays /\ away' = away /\ ~config[kb].binds
            /\ Unheard \/ Tell(held', k, FALSE)
            /\ ~mode.ime => Tell(held', k, FALSE)
         \/ /\ Heard(kb) /\ LetGo(k) /\ away' = FALSE /\ Bound(kb)
            /\ km' = OnRelease(Quietened(km), k)
            /\ Unheard \/ Tell(held', k, FALSE)
            /\ ~km'.found /\ ~mode.ime /\ ~mode.dragging => Tell(held', k, FALSE)
<1>1. km \in KeybindManager /\ away \in BOOLEAN
  BY DEF Typed
<1>2. Route(held', kb, k, FALSE)
  BY DEF Release, Key
<1>3. away' = IF ~Heard(kb) \/ Jumps(k, FALSE) THEN away
              ELSE ~mode.working \/ (away /\ (FALSE \/ ~Bound(kb)))
  BY DEF Release, Key
<1>4. ~Jumps(k, FALSE)
  BY DEF Jumps
<1>5. CASE ~Heard(kb)
  <2>1. km' = km /\ pressed' = pressed /\ seen' = seen
    BY <1>2, <1>5 DEF Route
  <2> QED  BY <1>1, <1>3, <1>5, <2>1 DEF QuietStays, Unheard
<1>6. CASE Heard(kb)
  <2>1. km' = OnKeyEvent(km, kb, k, FALSE)
    BY <1>2, <1>4, <1>6 DEF Route
  <2>2. Unheard \/ Tell(held', k, FALSE)
    BY <1>2, <1>4, <1>6 DEF Route, Unheard
  <2>3. km'.found \/ mode.ime \/ (mode.dragging /\ Bound(kb)) \/ Tell(held', k, FALSE)
    BY <1>2, <1>4, <1>6 DEF Route
  <2>4. CASE ~mode.working
    <3>1. Cleared /\ ~km'.found
      BY <1>1, <2>1, <2>4, ClearedFields DEF OnKeyEvent
    <3>2. ~Bound(kb)
      BY <2>4 DEF Bound
    <3> QED  BY <1>3, <1>4, <1>6, <2>2, <2>3, <2>4, <3>1, <3>2
  <2>5. CASE mode.working /\ ~config[kb].binds
    <3>1. km' = [km EXCEPT !.ran = {}, !.found = FALSE]
      BY <2>1, <2>5 DEF OnKeyEvent
    <3>2. QuietStays /\ km'.found = FALSE
      BY <1>1, <3>1, QuietFields
    <3>3. ~Bound(kb)
      BY <2>5 DEF Bound
    <3>4. away' = away
      BY <1>1, <1>3, <1>4, <1>6, <2>5, <3>3
    <3> QED  BY <1>6, <2>2, <2>3, <2>5, <3>2, <3>3, <3>4
  <2>6. CASE mode.working /\ config[kb].binds
    <3>1. km' = OnRelease(Quietened(km), k)
      BY <2>1, <2>6 DEF OnKeyEvent
    <3>2. LetGo(k)
      BY <3>1, ReleasedKey
    <3>3. Bound(kb)
      BY <2>6 DEF Bound
    <3> QED  BY <1>3, <1>4, <1>6, <2>2, <2>3, <2>6, <3>1, <3>2, <3>3
  <2> QED  BY <2>4, <2>5, <2>6
<1> QED  BY <1>5, <1>6

\* The rest of a key event.
LEMMA KeyFrame ==
  ASSUME Typed, NEW kb \in Keyboards, NEW k \in Keys, NEW press \in BOOLEAN,
         Key(kb, k, press)
  PROVE  /\ held' = [held EXCEPT ![kb] = IF press THEN @ \cup {k} ELSE @ \ {k}]
         /\ held' \in [Keyboards -> SUBSET Keys]
         /\ mods' \subseteq Mods
         /\ strayed' \subseteq Keys
         /\ mode' \in [Modes -> BOOLEAN]
         /\ away' \in BOOLEAN
         /\ config' = config /\ focus' = focus /\ changes' = changes
<1>1. /\ held' = [held EXCEPT ![kb] = IF press THEN @ \cup {k} ELSE @ \ {k}]
      /\ Route(held', kb, k, press) /\ OnKeyboardMod(held', kb)
      /\ strayed' = IF press THEN strayed
                    ELSE IF Strays(kb, k) THEN strayed \cup {k}
                    ELSE IF k \notin pressed' THEN strayed \ {k} ELSE strayed
      /\ away' = IF ~Heard(kb) \/ Jumps(k, press) THEN away
                 ELSE ~mode.working \/ (away /\ (press \/ ~Bound(kb)))
      /\ config' = config /\ focus' = focus /\ changes' = changes
  BY DEF Key
<1>2. held \in [Keyboards -> SUBSET Keys] /\ mods \subseteq Mods /\ strayed \subseteq Keys
      /\ mode \in [Modes -> BOOLEAN] /\ away \in BOOLEAN
  BY DEF Typed
<1>3. held' \in [Keyboards -> SUBSET Keys]
  BY <1>1, <1>2
<1>4. mods' \subseteq Mods
  <2>1. ASSUME NEW g, g \subseteq Keys  PROVE ModsOf(g) \subseteq Mods
    <3>1. \A j \in Keys : ModOf[j] \subseteq Mods
      BY KeyAssumption
    <3> QED  BY <2>1, <3>1 DEF ModsOf
  <2>2. \A o \in Keyboards : ModsOf(held'[o]) \subseteq Mods
    BY <1>3, <2>1
  <2> HIDE DEF ModsOf
  <2> QED  BY <1>1, <1>2, <2>2 DEF OnKeyboardMod
<1>5. strayed' \subseteq Keys
  BY <1>1, <1>2
<1>6. mode' \in [Modes -> BOOLEAN]
  <2>1. mode' = mode \/ mode' = [mode EXCEPT !.dragging = @ /\ ~Bound(kb)]
    BY <1>1 DEF Route
  <2>2. (mode.dragging /\ ~Bound(kb)) \in BOOLEAN
    OBVIOUS
  <2> QED  BY <1>2, <2>1, <2>2
<1>7. away' \in BOOLEAN
  BY <1>1, <1>2
<1> QED  BY <1>1, <1>3, <1>4, <1>5, <1>6, <1>7

-----------------------------------------------------------------------------
(* The steps keep the invariant.                                            *)

HeldTyped(h) == h \in [Keyboards -> SUBSET Keys]

LEMMA HeldSomewhere ==
  ASSUME NEW h, HeldTyped(h), NEW j
  PROVE  j \in UNION Range(h) <=> \E kb \in Keyboards : j \in h[kb]
BY DEF HeldTyped, Range

\* Presses on record, for one key.
LEMMA CountsGrow ==
  ASSUME Typed, NEW k \in Keys, FewPresses, km' \in KeybindManager,
         \/ km'.down[k] = <<>>
         \/ km'.down[k] = km.down[k] /\ Listened(held, k) \subseteq Listened(held, k)',
         changes' = changes
  PROVE  Len(km'.down[k]) <= Cardinality(Listened(held, k)') + changes'
<1>1. IsFiniteSet(Listened(held, k)') /\ Cardinality(Listened(held, k)') \in Nat
  <2>1. Listened(held, k)' \subseteq Keyboards /\ IsFiniteSet(Keyboards)
    BY KeyAssumption DEF Listened
  <2> HIDE DEF Listened
  <2> QED  BY <2>1, FS_Subset, FS_CardinalityType
<1>2. /\ km'.down[k] # <<>> => Cardinality(Listened(held, k)) <= Cardinality(Listened(held, k)')
      /\ Cardinality(Listened(held, k)) \in Nat
  <2>1. Cardinality(Listened(held, k)) \in Nat
    BY ListenedFinite
  <2>2. km'.down[k] # <<>> => Listened(held, k) \subseteq Listened(held, k)'
    OBVIOUS
  <2> HIDE DEF Listened
  <2> QED  BY <1>1, <2>1, <2>2, FS_Subset
<1>3. changes \in Nat
  BY KeyAssumption DEF Typed
<1>4. Len(km.down[k]) \in Nat /\ Len(km'.down[k]) \in Nat
  BY DEF Typed, KeybindManager
<1>5. Len(km.down[k]) <= Cardinality(Listened(held, k)) + changes
  BY DEF FewPresses
<1>6. CASE km'.down[k] = km.down[k] /\ km'.down[k] # <<>>
  BY <1>1, <1>2, <1>3, <1>4, <1>5, <1>6
<1>7. CASE km'.down[k] = <<>>
  <2>1. Len(km'.down[k]) = 0
    BY <1>7
  <2> QED  BY <1>1, <1>3, <2>1
<1> QED  BY <1>6, <1>7

LEMMA PressKeeps ==
  ASSUME IInv, NEW kb \in Keyboards, NEW k \in Keys, Press(kb, k)
  PROVE  IInv'
<1>1. Typed /\ Key(kb, k, TRUE) /\ k \notin held[kb] /\ strayed' = strayed
  BY DEF IInv, Press, Key
<1>2. /\ held' = [held EXCEPT ![kb] = @ \cup {k}]
      /\ held \in [Keyboards -> SUBSET Keys] /\ held' \in [Keyboards -> SUBSET Keys]
      /\ mods' \subseteq Mods /\ mode' \in [Modes -> BOOLEAN] /\ away' \in BOOLEAN
      /\ config' = config /\ focus' = focus /\ changes' = changes
  BY <1>1, KeyFrame DEF Typed
<1>3. \/ QuietStays /\ away' = away /\ (Unheard \/ Tell(held', k, TRUE))
      \/ Cleared /\ away' = TRUE /\ (Unheard \/ Tell(held', k, TRUE))
      \/ /\ Heard(kb) /\ config[kb].binds /\ PutDown(k) /\ away' = away
         /\ Unheard \/ (~km'.found /\ Tell(held', k, TRUE))
  BY <1>1, PressRoutes
<1>4. km' \in KeybindManager /\ km \in KeybindManager
  BY <1>1, <1>3 DEF QuietStays, Cleared, PutDown, Typed
<1>5. Unheard \/ Tell(held', k, TRUE)
  BY <1>3
<1>6. /\ pressed' \cup seen' \subseteq Keys /\ SeenIsPressed'
      /\ pressed' = pressed \/ pressed' = pressed \cup {k}
  <2>1. SeenIsPressed
    BY DEF IInv
  <2>2. CASE Unheard
    BY <1>1, <1>2, <2>1, <2>2 DEF Unheard, Typed, SeenIsPressed
  <2>3. CASE Tell(held', k, TRUE)
    BY <1>1, <1>2, <2>1, <2>3, Told
  <2> QED  BY <1>5, <2>2, <2>3
<1>7. Typed'
  BY <1>1, <1>2, <1>4, <1>6 DEF Typed
<1>8. /\ \A o \in Keyboards : held[o] \subseteq held'[o]
      /\ k \in held'[kb]
      /\ \A o \in Keyboards : o # kb => held'[o] = held[o]
  BY <1>2
<1>9. \A j : (j \in HeldKeys => j \in HeldKeys') /\ k \in HeldKeys'
  <2>1. HeldTyped(held) /\ HeldTyped(held')
    BY <1>2 DEF HeldTyped
  <2>2. /\ \A j : j \in HeldKeys <=> \E o \in Keyboards : j \in held[o]
        /\ \A j : j \in HeldKeys' <=> \E o \in Keyboards : j \in held'[o]
    BY <2>1, HeldSomewhere DEF HeldKeys
  <2> QED  BY <1>8, <2>2
<1>10. NoStuckKeys'
  <2>1. pressed \subseteq HeldKeys \cup strayed
    BY DEF IInv, NoStuckKeys
  <2>2. pressed' \subseteq HeldKeys' \cup strayed'
    <3> HIDE DEF HeldKeys
    <3> QED  BY <1>1, <1>6, <1>9, <2>1
  <2> QED  BY <2>2 DEF NoStuckKeys
<1>11. FewPresses'
  <2> SUFFICES ASSUME NEW j \in Keys
               PROVE  Len(km'.down[j]) <= Cardinality(Listened(held, j)') + changes'
    BY DEF FewPresses
  <2>1. FewPresses
    BY DEF IInv
  <2>2. Listened(held, j) \subseteq Listened(held, j)'
    BY <1>2, <1>8 DEF Listened, Heard
  <2>3. CASE QuietStays \/ Cleared \/ (PutDown(k) /\ j # k)
    <3>1. km'.down[j] = km.down[j] \/ km'.down[j] = <<>>
      BY <1>4, <2>3 DEF QuietStays, Cleared, PutDown, KeybindManager
    <3> QED  BY <1>1, <1>2, <1>4, <2>1, <2>2, <3>1, CountsGrow
  <2>4. CASE Heard(kb) /\ config[kb].binds /\ PutDown(k) /\ j = k
    <3>1. Listened(held, k)' = Listened(held, k) \cup {kb} /\ kb \notin Listened(held, k)
      BY <1>1, <1>2, <1>8, <2>4 DEF Listened, Heard
    <3>2. /\ IsFiniteSet(Listened(held, k)) /\ Cardinality(Listened(held, k)) \in Nat
      BY ListenedFinite
    <3>3. Cardinality(Listened(held, k)') = Cardinality(Listened(held, k)) + 1
      <4> HIDE DEF Listened
      <4> QED  BY <3>1, <3>2, FS_AddElement
    <3>4. PICK st \in Stroke : km'.down = [km.down EXCEPT ![k] = Append(km.down[k], st)]
      BY <2>4 DEF PutDown
    <3>5. km.down \in [Keys -> Seq(Stroke)]
      BY <1>4 DEF KeybindManager
    <3>6. Len(km'.down[k]) = Len(km.down[k]) + 1 /\ Len(km.down[k]) \in Nat
      BY <3>4, <3>5
    <3>7. Len(km.down[k]) <= Cardinality(Listened(held, k)) + changes
      BY <2>1 DEF FewPresses
    <3>8. changes \in Nat
      BY <1>1, KeyAssumption DEF Typed
    <3> QED  BY <1>2, <2>4, <3>2, <3>3, <3>6, <3>7, <3>8
  <2> QED  BY <1>3, <2>3, <2>4
<1>12. KeptBackIsShared'
  <2> SUFFICES ASSUME NEW j \in pressed' \ strayed',
                      KeptBack(km', j)
               PROVE  \E o, p \in Keyboards : o # p /\ j \in held'[o] /\ j \in held'[p]
    BY DEF KeptBackIsShared, KeptBack
  <2>1. j \in Keys
    BY <1>6
  <2>2. KeptBackIsShared /\ NoStuckKeys /\ RecordHeld
    BY DEF IInv
  <2>3. ASSUME j \in pressed, km'.down[j] = km.down[j]
        PROVE  \E o, p \in Keyboards : o # p /\ j \in held'[o] /\ j \in held'[p]
    <3>1. PICK o, p \in Keyboards : o # p /\ j \in held[o] /\ j \in held[p]
      BY <1>1, <2>2, <2>3 DEF KeptBackIsShared, KeptBack
    <3> QED  BY <1>8, <3>1
  <2>4. CASE QuietStays
    <3>1. km'.down = km.down
      BY <2>4 DEF QuietStays
    <3>2. CASE j \in pressed
      BY <2>3, <3>1, <3>2
    <3>3. CASE j \notin pressed
      <4>1. j = k /\ j \notin strayed
        BY <1>1, <1>6, <3>3
      <4>2. j \in Down(km)
        BY <2>1, <3>1 DEF Down, KeptBack
      <4>3. j \in HeldKeys
        BY <2>2, <4>1, <4>2 DEF RecordHeld
      <4>4. HeldTyped(held)
        BY <1>2 DEF HeldTyped
      <4>5. PICK o \in Keyboards : j \in held[o]
        BY <4>3, <4>4, HeldSomewhere DEF HeldKeys
      <4> QED  BY <1>1, <1>8, <4>1, <4>5
    <3> QED  BY <3>2, <3>3
  <2>5. CASE Cleared
    BY <2>1, <2>5 DEF Cleared, KeptBack
  <2>6. CASE PutDown(k) /\ j # k
    <3>1. km'.down[j] = km.down[j] /\ j \in pressed
      BY <1>4, <1>6, <2>1, <2>6 DEF PutDown, KeybindManager
    <3> QED  BY <2>3, <3>1
  <2>7. CASE PutDown(k) /\ j = k /\ (Unheard \/ ~km'.found)
    <3>1. PICK st \in Stroke :
            /\ st.sent = ~km'.found
            /\ km'.down = [km.down EXCEPT ![k] = Append(km.down[k], st)]
      BY <2>7 DEF PutDown
    <3>2. km.down \in [Keys -> Seq(Stroke)]
      BY <1>4 DEF KeybindManager
    <3>3. Last(km'.down[k]) = st
      BY <3>1, <3>2 DEF Last
    <3>4. km'.found /\ Unheard
      BY <2>7, <3>1, <3>3 DEF KeptBack
    <3>5. k \in HeldKeys
      BY <1>1, <2>2, <2>7, <3>4 DEF NoStuckKeys, Unheard
    <3>6. HeldTyped(held)
      BY <1>2 DEF HeldTyped
    <3>7. PICK o \in Keyboards : k \in held[o]
      BY <3>5, <3>6, HeldSomewhere DEF HeldKeys
    <3> QED  BY <1>1, <1>8, <2>7, <3>7
  <2> QED  BY <1>3, <2>4, <2>5, <2>6, <2>7
<1>13. StrokesSound'
  <2> SUFFICES ASSUME NEW j \in Keys, NEW i \in DOMAIN km'.down[j]
               PROVE  km'.down[j][i].key = j /\ RanByPress(km'.down[j][i])
    BY DEF StrokesSound, RanByPress
  <2>1. StrokesSound
    BY DEF IInv
  <2>2. km.down \in [Keys -> Seq(Stroke)]
    BY <1>4 DEF KeybindManager
  <2>3. CASE QuietStays
    BY <2>1, <2>3 DEF QuietStays, StrokesSound
  <2>4. CASE Cleared
    BY <2>4 DEF Cleared
  <2>5. CASE PutDown(k)
    <3>1. PICK st \in Stroke :
            /\ st.key = k /\ RanByPress(st)
            /\ km'.down = [km.down EXCEPT ![k] = Append(km.down[k], st)]
      BY <2>5 DEF PutDown
    <3>2. CASE j # k
      <4>1. km'.down[j] = km.down[j]
        BY <2>2, <3>1, <3>2
      <4> QED  BY <2>1, <4>1 DEF StrokesSound
    <3>3. CASE j = k
      <4>1. km'.down[j] = Append(km.down[k], st) /\ km.down[k] \in Seq(Stroke)
        BY <2>2, <3>1, <3>3
      <4>2. km'.down[j][i] = st \/ (i \in DOMAIN km.down[k] /\ km'.down[j][i] = km.down[k][i])
        BY <4>1
      <4> QED  BY <2>1, <3>1, <3>3, <4>2 DEF StrokesSound
    <3> QED  BY <3>2, <3>3
  <2> QED  BY <1>3, <2>3, <2>4, <2>5
<1>14. SpecialAreGlobal'
  <2>1. SpecialAreGlobal
    BY DEF IInv
  <2> QED  BY <1>3, <2>1 DEF QuietStays, Cleared, PutDown, SpecialAreGlobal, Global
<1>15. ~away' => ~away
  <2>1. away' = away \/ away' = TRUE
    BY <1>3
  <2> QED  BY <2>1
<1>16. ShadowsArePressed'
  <2> SUFFICES ASSUME ~away', NEW b \in km'.shadowed  PROVE Binds[b].key \in Down(km')
    BY DEF ShadowsArePressed, Down
  <2>1. ~away /\ ShadowsArePressed
    BY <1>15 DEF IInv
  <2>2. CASE QuietStays
    BY <2>1, <2>2 DEF QuietStays, ShadowsArePressed, Down
  <2>3. CASE PutDown(k) /\ b \in km.shadowed
    <3>1. Binds[b].key \in Down(km)
      BY <2>1, <2>3 DEF ShadowsArePressed
    <3>2. PICK st \in Stroke : km'.down = [km.down EXCEPT ![k] = Append(km.down[k], st)]
      BY <2>3 DEF PutDown
    <3>3. km.down \in [Keys -> Seq(Stroke)]
      BY <1>4 DEF KeybindManager
    <3>4. Append(km.down[k], st) # <<>>
      BY <3>3
    <3> QED  BY <3>1, <3>2, <3>3, <3>4 DEF Down
  <2>4. CASE PutDown(k) /\ b \notin km.shadowed
    BY <2>4 DEF PutDown
  <2> QED  BY <1>3, <2>2, <2>3, <2>4
<1>17. RepeatDown'
  <2> SUFFICES ASSUME NEW b \in km'.active \ km'.slipped, ~away', ~Global(b)
               PROVE  Binds[b].key \in Down(km')
    BY DEF RepeatDown, Global, Down
  <2>1. ~away /\ RepeatDown
    BY <1>15 DEF IInv
  <2>2. CASE QuietStays
    BY <2>1, <2>2 DEF QuietStays, RepeatDown, Down
  <2>3. CASE PutDown(k)
    <3>1. Binds[b].key = k
      BY <2>3 DEF PutDown
    <3>2. PICK st \in Stroke : km'.down = [km.down EXCEPT ![k] = Append(km.down[k], st)]
      BY <2>3 DEF PutDown
    <3>3. km.down \in [Keys -> Seq(Stroke)]
      BY <1>4 DEF KeybindManager
    <3>4. Append(km.down[k], st) # <<>>
      BY <3>3
    <3> QED  BY <3>1, <3>2, <3>3, <3>4 DEF Down
  <2> QED  BY <1>3, <2>2, <2>3
<1>18. RecordHeld'
  <2> SUFFICES ASSUME NEW j \in Down(km')  PROVE j \in HeldKeys' \cup strayed'
    BY DEF RecordHeld, Down, HeldKeys
  <2>1. RecordHeld /\ j \in Keys
    BY DEF IInv, Down
  <2>2. CASE j = k
    BY <1>9, <2>2
  <2>3. CASE j # k
    <3>1. km'.down[j] = km.down[j] \/ km'.down[j] = <<>>
      BY <1>3, <1>4, <2>1, <2>3 DEF QuietStays, Cleared, PutDown, KeybindManager
    <3>2. j \in Down(km)
      BY <3>1 DEF Down
    <3>3. j \in HeldKeys \cup strayed
      BY <2>1, <3>2 DEF RecordHeld
    <3> QED  BY <1>1, <1>9, <3>3
  <2> QED  BY <2>2, <2>3
<1> QED  BY <1>6, <1>7, <1>10, <1>11, <1>12, <1>13, <1>14, <1>16, <1>17, <1>18 DEF IInv

LEMMA ReleaseKeeps ==
  ASSUME IInv, NEW kb \in Keyboards, NEW k \in Keys, Release(kb, k)
  PROVE  IInv'
<1>1. /\ Typed /\ Key(kb, k, FALSE) /\ k \in held[kb]
      /\ strayed' = IF Strays(kb, k) THEN strayed \cup {k}
                    ELSE IF k \notin pressed' THEN strayed \ {k} ELSE strayed
  BY DEF IInv, Release, Key
<1>2. /\ held' = [held EXCEPT ![kb] = @ \ {k}]
      /\ held \in [Keyboards -> SUBSET Keys] /\ held' \in [Keyboards -> SUBSET Keys]
      /\ mods' \subseteq Mods /\ strayed' \subseteq Keys
      /\ mode' \in [Modes -> BOOLEAN] /\ away' \in BOOLEAN
      /\ config' = config /\ focus' = focus /\ changes' = changes
  BY <1>1, KeyFrame DEF Typed
<1>3. \/ ~Heard(kb) /\ QuietStays /\ Unheard /\ away' = away
      \/ /\ Heard(kb) /\ Cleared /\ away' = TRUE /\ ~Bound(kb)
         /\ Unheard \/ Tell(held', k, FALSE)
         /\ ~mode.ime => Tell(held', k, FALSE)
      \/ /\ Heard(kb) /\ QuietStays /\ away' = away /\ ~config[kb].binds
         /\ Unheard \/ Tell(held', k, FALSE)
         /\ ~mode.ime => Tell(held', k, FALSE)
      \/ /\ Heard(kb) /\ LetGo(k) /\ away' = FALSE /\ Bound(kb)
         /\ km' = OnRelease(Quietened(km), k)
         /\ Unheard \/ Tell(held', k, FALSE)
         /\ ~km'.found /\ ~mode.ime /\ ~mode.dragging => Tell(held', k, FALSE)
  BY <1>1, ReleaseRoutes
<1>4. km' \in KeybindManager /\ km \in KeybindManager
  BY <1>1, <1>3 DEF QuietStays, Cleared, LetGo, Typed
<1>5. Unheard \/ Tell(held', k, FALSE)
  BY <1>3
<1>6. /\ pressed' \cup seen' \subseteq Keys /\ SeenIsPressed'
      /\ \A j : j # k => (j \in pressed' <=> j \in pressed)
      /\ Holds(held', k) = {} /\ k \in pressed' => k \in pressed
      /\ Holds(held', k) = {} /\ k \in pressed' => ~Tell(held', k, FALSE)
  <2>1. SeenIsPressed
    BY DEF IInv
  <2>2. ASSUME Tell(held', k, FALSE)
        PROVE  /\ pressed' = IF Holds(held', k) # {} THEN pressed \cup {k} ELSE pressed \ {k}
               /\ pressed' \cup seen' \subseteq Keys
               /\ SeenIsPressed'
    BY <1>1, <1>2, <2>1, <2>2, Told
  <2>3. CASE Unheard /\ ~Tell(held', k, FALSE)
    BY <1>1, <1>2, <2>1, <2>3 DEF Unheard, Typed, SeenIsPressed
  <2>4. CASE Tell(held', k, FALSE)
    <3> HIDE DEF Holds, Tell
    <3> QED  BY <2>2, <2>4
  <2> QED  BY <1>5, <2>3, <2>4
<1>7. Typed'
  BY <1>1, <1>2, <1>4, <1>6 DEF Typed
<1>8. \A o \in Keyboards, j \in Keys : j \in held[o] /\ (o # kb \/ j # k) => j \in held'[o]
  BY <1>2
<1>9. /\ \A j \in Keys : j \in HeldKeys /\ j # k => j \in HeldKeys'
      /\ \A o \in Keyboards, j \in Keys : j \in held'[o] => j \in HeldKeys'
  <2>1. HeldTyped(held) /\ HeldTyped(held')
    BY <1>2 DEF HeldTyped
  <2>2. /\ \A j : j \in HeldKeys <=> \E o \in Keyboards : j \in held[o]
        /\ \A j : j \in HeldKeys' <=> \E o \in Keyboards : j \in held'[o]
    BY <2>1, HeldSomewhere DEF HeldKeys
  <2> QED  BY <1>8, <2>2
<1>10. \A j : j # k => (j \in strayed' <=> j \in strayed)
  BY <1>1
<1>11. \A j \in Keys : j # k => km'.down[j] = km.down[j] \/ km'.down[j] = <<>>
  BY <1>3, <1>4 DEF QuietStays, Cleared, LetGo, KeybindManager
<1>12. km'.down[k] = km.down[k] \/ km'.down[k] = <<>>
  BY <1>3, <1>4 DEF QuietStays, Cleared, LetGo, KeybindManager
<1>13. NoStuckKeys'
  <2> SUFFICES ASSUME NEW j \in pressed', j \notin strayed'  PROVE j \in HeldKeys'
    BY DEF NoStuckKeys, HeldKeys
  <2>1. j \in Keys
    BY <1>6
  <2>2. NoStuckKeys /\ KeptBackIsShared
    BY DEF IInv
  <2>3. CASE j # k
    BY <1>6, <1>9, <1>10, <2>1, <2>2, <2>3 DEF NoStuckKeys
  <2>4. CASE j = k /\ Holds(held', k) # {}
    BY <1>9, <2>4 DEF Holds
  <2>5. CASE j = k /\ Holds(held', k) = {}
    <3>1. /\ Heard(kb) /\ ~mode.ime
          /\ Bound(kb) => ~mode.dragging /\ km.down[k] # <<>>
          /\ k \notin strayed
      BY <1>1, <2>5 DEF Strays
    <3>2. k \in pressed /\ ~Tell(held', k, FALSE)
      <4> HIDE DEF Holds, Tell
      <4> QED  BY <1>6, <2>5
    <3>3. LetGo(k) /\ km'.found /\ Bound(kb)
      <4> HIDE DEF Tell, LetGo
      <4> QED  BY <1>3, <3>1, <3>2
    <3>4. ~Last(km.down[k]).sent
      BY <3>1, <3>3 DEF LetGo
    <3>5. PICK o, p \in Keyboards : o # p /\ k \in held[o] /\ k \in held[p]
      BY <2>2, <3>1, <3>2, <3>3, <3>4 DEF KeptBackIsShared, KeptBack
    <3>6. k \in held'[o] \/ k \in held'[p]
      BY <1>8, <3>5
    <3> QED  BY <1>9, <2>5, <3>6
  <2> QED  BY <2>3, <2>4, <2>5
<1>14. FewPresses'
  <2> SUFFICES ASSUME NEW j \in Keys
               PROVE  Len(km'.down[j]) <= Cardinality(Listened(held, j)') + changes'
    BY DEF FewPresses
  <2>1. FewPresses
    BY DEF IInv
  <2>2. CASE km'.down[j] = <<>>
    BY <1>1, <1>2, <1>4, <2>1, <2>2, CountsGrow
  <2>3. CASE km'.down[j] # <<>>
    <3>1. km'.down[j] = km.down[j]
      BY <1>11, <1>12, <2>3
    <3>2. j # k \/ ~Heard(kb) \/ ~config[kb].binds
      BY <1>3, <1>4, <2>3 DEF Cleared, LetGo, KeybindManager
    <3>3. Listened(held, j) \subseteq Listened(held, j)'
      BY <1>2, <1>8, <3>2 DEF Listened, Heard
    <3> QED  BY <1>1, <1>2, <1>4, <2>1, <3>1, <3>3, CountsGrow
  <2> QED  BY <2>2, <2>3
<1>15. KeptBackIsShared'
  <2> SUFFICES ASSUME NEW j \in pressed' \ strayed', KeptBack(km', j)
               PROVE  \E o, p \in Keyboards : o # p /\ j \in held'[o] /\ j \in held'[p]
    BY DEF KeptBackIsShared, KeptBack
  <2>1. j \in Keys /\ KeptBackIsShared
    BY <1>6 DEF IInv
  <2>2. j # k
    BY <1>1 DEF Strays
  <2>3. j \in pressed \ strayed /\ km'.down[j] = km.down[j]
    BY <1>6, <1>10, <1>11, <2>1, <2>2 DEF KeptBack
  <2>4. KeptBack(km, j)
    BY <2>3 DEF KeptBack
  <2>5. PICK o, p \in Keyboards : o # p /\ j \in held[o] /\ j \in held[p]
    BY <2>1, <2>3, <2>4 DEF KeptBackIsShared
  <2> QED  BY <1>8, <2>1, <2>2, <2>5
<1>16. StrokesSound'
  <2> SUFFICES ASSUME NEW j \in Keys, NEW i \in DOMAIN km'.down[j]
               PROVE  km'.down[j][i].key = j /\ RanByPress(km'.down[j][i])
    BY DEF StrokesSound, RanByPress
  <2>1. StrokesSound
    BY DEF IInv
  <2>2. km'.down[j] # <<>>
    BY <1>4 DEF KeybindManager
  <2>3. km'.down[j] = km.down[j]
    BY <1>11, <1>12, <2>2
  <2> QED  BY <2>1, <2>3 DEF StrokesSound
<1>17. SpecialAreGlobal'
  <2>1. SpecialAreGlobal
    BY DEF IInv
  <2> QED  BY <1>3, <2>1 DEF QuietStays, Cleared, LetGo, SpecialAreGlobal, Global
<1>18. ShadowsArePressed'
  <2> SUFFICES ASSUME ~away', NEW b \in km'.shadowed  PROVE Binds[b].key \in Down(km')
    BY DEF ShadowsArePressed, Down
  <2>1. CASE QuietStays /\ away' = away
    BY <2>1 DEF IInv, QuietStays, ShadowsArePressed, Down
  <2>2. CASE LetGo(k)
    BY <2>2 DEF LetGo
  <2> QED  BY <1>3, <2>1, <2>2
<1>19. RepeatDown'
  <2> SUFFICES ASSUME NEW b \in km'.active \ km'.slipped, ~away', ~Global(b)
               PROVE  Binds[b].key \in Down(km')
    BY DEF RepeatDown, Global, Down
  <2>1. CASE QuietStays /\ away' = away
    BY <2>1 DEF IInv, QuietStays, RepeatDown, Down
  <2>2. CASE LetGo(k)
    BY <2>2 DEF LetGo
  <2> QED  BY <1>3, <2>1, <2>2
<1>20. RecordHeld'
  <2> SUFFICES ASSUME NEW j \in Down(km')  PROVE j \in HeldKeys' \cup strayed'
    BY DEF RecordHeld, Down, HeldKeys
  <2>1. RecordHeld /\ j \in Keys /\ km'.down[j] # <<>>
    BY DEF IInv, Down
  <2>2. CASE j = k
    BY <1>1, <2>1, <2>2 DEF Strays
  <2>3. CASE j # k
    <3>1. j \in Down(km)
      BY <1>11, <2>1, <2>3 DEF Down
    <3>2. j \in HeldKeys \cup strayed
      BY <2>1, <3>1 DEF RecordHeld
    <3> QED  BY <1>9, <1>10, <2>1, <2>3, <3>2
  <2> QED  BY <2>2, <2>3
<1> QED  BY <1>6, <1>7, <1>13, <1>14, <1>15, <1>16, <1>17, <1>18, <1>19, <1>20 DEF IInv

LEMMA OneMore ==
  ASSUME NEW S, NEW T, IsFiniteSet(T), NEW x, S \subseteq T \cup {x}
  PROVE  Cardinality(S) <= Cardinality(T) + 1
<1>1. /\ IsFiniteSet(T \cup {x}) /\ Cardinality(T) \in Nat
      /\ Cardinality(T \cup {x}) = IF x \in T THEN Cardinality(T) ELSE Cardinality(T) + 1
  BY FS_AddElement, FS_CardinalityType
<1>2. IsFiniteSet(S) /\ Cardinality(S) <= Cardinality(T \cup {x}) /\ Cardinality(S) \in Nat
  BY <1>1, FS_Subset, FS_CardinalityType
<1> QED  BY <1>1, <1>2

\* The steps that leave the keybind manager and the held keys alone.
LEMMA OthersKeep ==
  ASSUME IInv, \/ \E c \in Clients \cup {NoClient} : SetKeyboardFocus(c)
               \/ \E kb \in Keyboards : ConfigureKeyboard(kb)
               \/ ModeChanges \/ Reload \/ UNCHANGED vars
  PROVE  IInv'
<1>1. /\ Typed /\ FewPresses /\ KeptBackIsShared /\ StrokesSound /\ SpecialAreGlobal
      /\ NoStuckKeys /\ SeenIsPressed /\ ShadowsArePressed /\ RepeatDown /\ RecordHeld
  BY DEF IInv
<1>2. CASE \E c \in Clients \cup {NoClient} : SetKeyboardFocus(c)
  <2>1. /\ UNCHANGED <<held, config, mods, km, pressed, mode, changes, strayed, away>>
        /\ focus' \in Clients \cup {NoClient}
        /\ seen' = IF focus' = NoClient THEN {} ELSE pressed
    BY <1>2 DEF SetKeyboardFocus
  <2>2. Typed' /\ SeenIsPressed'
    BY <1>1, <2>1 DEF Typed, SeenIsPressed
  <2>3. /\ FewPresses' /\ KeptBackIsShared' /\ StrokesSound' /\ SpecialAreGlobal'
        /\ NoStuckKeys' /\ ShadowsArePressed' /\ RepeatDown' /\ RecordHeld'
    BY <1>1, <2>1 DEF FewPresses, Listened, Heard, KeptBackIsShared, KeptBack, StrokesSound, SpecialAreGlobal,
       RanByPress, NoStuckKeys, HeldKeys, ShadowsArePressed, Down, RepeatDown, RecordHeld, Global
  <2> QED  BY <2>2, <2>3 DEF IInv
<1>3. CASE \E kb \in Keyboards : ConfigureKeyboard(kb)
  <2>1. PICK kb \in Keyboards, c \in Setting :
          /\ UNCHANGED <<held, mods, km, pressed, focus, seen, mode, strayed, away>>
          /\ config' = [config EXCEPT ![kb] = c]
          /\ changes < MaxChanges /\ changes' = changes + 1
    BY <1>3, SettingAssumption DEF ConfigureKeyboard, Changes
  <2>2. Typed'
    BY <1>1, <2>1, KeyAssumption DEF Typed
  <2>3. FewPresses'
    <3> SUFFICES ASSUME NEW k \in Keys
                 PROVE  Len(km.down[k]) <= Cardinality(Listened(held, k)') + changes'
      BY <2>1 DEF FewPresses
    <3>1. Listened(held, k) \subseteq Listened(held, k)' \cup {kb}
      BY <1>1, <2>1 DEF Listened, Typed, Heard
    <3>2. IsFiniteSet(Listened(held, k)') /\ Cardinality(Listened(held, k)') \in Nat
      <4>1. Listened(held, k)' \subseteq Keyboards /\ IsFiniteSet(Keyboards)
        BY KeyAssumption DEF Listened
      <4> HIDE DEF Listened
      <4> QED  BY <4>1, FS_Subset, FS_CardinalityType
    <3>3. Cardinality(Listened(held, k)) \in Nat
      BY ListenedFinite
    <3>4. Cardinality(Listened(held, k)) <= Cardinality(Listened(held, k)') + 1
      <4> HIDE DEF Listened
      <4> QED  BY <3>1, <3>2, OneMore
    <3>5. Len(km.down[k]) <= Cardinality(Listened(held, k)) + changes /\ Len(km.down[k]) \in Nat
      BY <1>1 DEF FewPresses, Typed, KeybindManager
    <3>6. changes \in Nat /\ changes' = changes + 1
      BY <1>1, <2>1, KeyAssumption DEF Typed
    <3> HIDE DEF Listened
    <3> QED  BY <3>2, <3>3, <3>4, <3>5, <3>6
  <2>4. /\ KeptBackIsShared' /\ StrokesSound' /\ SpecialAreGlobal'
        /\ NoStuckKeys' /\ SeenIsPressed' /\ ShadowsArePressed' /\ RepeatDown' /\ RecordHeld'
    BY <1>1, <2>1 DEF KeptBackIsShared, KeptBack, StrokesSound, SpecialAreGlobal, RanByPress,
       NoStuckKeys, HeldKeys, SeenIsPressed, ShadowsArePressed, Down, RepeatDown, RecordHeld, Global
  <2> QED  BY <2>2, <2>3, <2>4 DEF IInv
<1>4. CASE ModeChanges \/ Reload
  <2>1. /\ UNCHANGED <<held, config, mods, pressed, focus, seen, strayed, away>>
        /\ changes < MaxChanges /\ changes' = changes + 1
    BY <1>4 DEF ModeChanges, Reload, Changes
  <2>2. mode' \in [Modes -> BOOLEAN]
    BY <1>1, <1>4 DEF ModeChanges, Reload, Typed
  <2>3. /\ km' \in KeybindManager /\ km'.down = km.down
        /\ km'.shadowed \subseteq km.shadowed /\ km'.special \subseteq km.special
        /\ km'.active \ km'.slipped \subseteq km.active \ km.slipped
    BY <1>1, <1>4 DEF ModeChanges, Reload, Typed, KeybindManager
  <2>4. Typed'
    BY <1>1, <2>1, <2>2, <2>3, KeyAssumption DEF Typed
  <2>5. FewPresses'
    <3> SUFFICES ASSUME NEW k \in Keys
                 PROVE  Len(km.down[k]) <= Cardinality(Listened(held, k)) + changes'
      BY <2>1, <2>3 DEF FewPresses, Listened, Heard
    <3>1. Len(km.down[k]) <= Cardinality(Listened(held, k)) + changes /\ Len(km.down[k]) \in Nat
      BY <1>1 DEF FewPresses, Typed, KeybindManager
    <3>2. changes \in Nat /\ changes' = changes + 1 /\ Cardinality(Listened(held, k)) \in Nat
      BY <1>1, <2>1, KeyAssumption, ListenedFinite DEF Typed
    <3> HIDE DEF Listened
    <3> QED  BY <3>1, <3>2
  <2>6. KeptBackIsShared' /\ NoStuckKeys' /\ SeenIsPressed'
    BY <1>1, <2>1, <2>3 DEF KeptBackIsShared, KeptBack, NoStuckKeys, HeldKeys, SeenIsPressed
  <2>7. StrokesSound' /\ SpecialAreGlobal'
    BY <1>1, <2>3 DEF StrokesSound, SpecialAreGlobal, RanByPress, Global
  <2>8. ShadowsArePressed' /\ RepeatDown' /\ RecordHeld'
    BY <1>1, <2>1, <2>3 DEF ShadowsArePressed, Down, RepeatDown, RecordHeld, Global, HeldKeys
  <2> QED  BY <2>4, <2>5, <2>6, <2>7, <2>8 DEF IInv
<1>5. CASE UNCHANGED vars
  BY <1>1, <1>5 DEF vars, IInv, Typed, FewPresses, Listened, Heard, KeptBackIsShared, KeptBack, StrokesSound,
     RanByPress, SpecialAreGlobal, NoStuckKeys, HeldKeys, SeenIsPressed, ShadowsArePressed,
     Down, RepeatDown, RecordHeld, Global
<1> QED  BY <1>2, <1>3, <1>4, <1>5

LEMMA NextKeeps == IInv /\ [Next]_vars => IInv'
<1> SUFFICES ASSUME IInv, [Next]_vars  PROVE IInv'
  OBVIOUS
<1>1. CASE \E kb \in Keyboards, k \in Keys : Press(kb, k) \/ Release(kb, k)
  BY <1>1, PressKeeps, ReleaseKeeps
<1>2. CASE \/ \E c \in Clients \cup {NoClient} : SetKeyboardFocus(c)
           \/ \E kb \in Keyboards : ConfigureKeyboard(kb)
           \/ ModeChanges \/ Reload \/ UNCHANGED vars
  BY <1>2, OthersKeep
<1> QED  BY <1>1, <1>2 DEF Next

LEMMA Always == Spec => []IInv
BY InitInvariant, NextKeeps, PTL DEF Spec

-----------------------------------------------------------------------------
(* What the clients and the keybinds believe of the keyboard.               *)

\* However many keyboards, binds and clients there are, a key that the clients
\* were told pressed is held somewhere, but for those whose release went
\* elsewhere (InputManager::onKeyboardKey).
THEOREM NoKeyIsStuck == Spec => []NoStuckKeys
<1>1. IInv => NoStuckKeys
  BY DEF IInv
<1> QED  BY <1>1, Always, PTL

\* The focused client believes pressed what the compositor does
\* (CSeatManager::setKeyboardFocus, InputManager::shareKeyFromAllKBs).
THEOREM ClientBelievesRight == Spec => []SeenIsPressed
<1>1. IInv => SeenIsPressed
  BY DEF IInv
<1> QED  BY <1>1, Always, PTL

\* The record of the presses stays short, and no bind is shadowed or repeats
\* without its key (CKeybindManager::onKeyEvent, shadowKeybinds).
THEOREM KeybindsBelieveRight == Spec => []BindsSound
<1>1. IInv => BindsSound
  <2> SUFFICES ASSUME IInv  PROVE BindsSound
    OBVIOUS
  <2>1. Typed /\ FewPresses /\ ShadowsArePressed /\ RepeatDown /\ RecordHeld
    BY DEF IInv
  <2>2. ASSUME NEW k \in Keys
        PROVE  Len(km.down[k]) <= Cardinality(Keyboards) + MaxChanges
    <3>1. Len(km.down[k]) <= Cardinality(Listened(held, k)) + changes /\ Len(km.down[k]) \in Nat
      BY <2>1 DEF FewPresses, Typed, KeybindManager
    <3>2. changes \in Nat /\ changes <= MaxChanges /\ MaxChanges \in Nat
      BY <2>1, KeyAssumption DEF Typed
    <3>3. /\ Cardinality(Listened(held, k)) \in Nat /\ Cardinality(Keyboards) \in Nat
          /\ Cardinality(Listened(held, k)) <= Cardinality(Keyboards)
      BY ListenedFinite
    <3> HIDE DEF Listened
    <3> QED  BY <3>1, <3>2, <3>3
  <2>3. TypeOK
    BY <2>1, <2>2 DEF Typed, TypeOK
  <2>4. RepeatHeld
    BY <2>1 DEF RepeatDown, RecordHeld, RepeatHeld
  <2> QED  BY <2>1, <2>3, <2>4 DEF BindsSound
<1> QED  BY <1>1, Always, PTL

-----------------------------------------------------------------------------
(* What a release does.                                                     *)

\* A key that came up did so in a release, on a keyboard whose keys reach the binds.
LEMMA CameUpByRelease ==
  ASSUME Typed, [Next]_vars, NEW k, CameUp(k)
  PROVE  \E kb \in Keyboards : /\ Heard(kb) /\ Bound(kb)
                               /\ k \in Keys /\ Release(kb, k)
<1>1. PICK kb \in Keyboards : Heard(kb) /\ Bound(kb) /\ k \in held[kb] \ held'[kb]
  BY DEF CameUp
<1>2. held' # held
  BY <1>1
<1>3. PICK o \in Keyboards, j \in Keys : Press(o, j) \/ Release(o, j)
  BY <1>2 DEF Next, vars, SetKeyboardFocus, ConfigureKeyboard, ModeChanges, Reload
<1>4. held' = [held EXCEPT ![o] = @ \cup {j}] \/ (Release(o, j) /\ held' = [held EXCEPT ![o] = @ \ {j}])
  BY <1>3 DEF Press, Release, Key
<1>5. Release(o, j) /\ o = kb /\ j = k
  BY <1>1, <1>4 DEF Typed
<1> QED  BY <1>1, <1>5

\* A bind that the press ran waits for no release, so only other modifiers
\* make the release run it; but it is a bind of the modifiers of the press.
LEMMA RunOnce ==
  ASSUME IInv, [Next]_vars, NEW k \in Keys, CameUp(k), PressedAlike(k),
         NEW i \in DOMAIN km.down[k], NEW b \in km.down[k][i].ran \cap km'.ran
  PROVE  Global(b)
<1>1. Typed /\ StrokesSound
  BY DEF IInv
<1>2. PICK kb \in Keyboards : Heard(kb) /\ Bound(kb) /\ Release(kb, k)
  BY <1>1, CameUpByRelease
<1>3. LetGo(k)
  <2>1. config[kb].binds
    BY <1>2 DEF Bound
  <2> HIDE DEF LetGo, Cleared, Tell, Release
  <2> QED  BY <1>1, <1>2, <2>1, ReleaseRoutes
<1>4. QED
  <2>1. km.down[k] # <<>>
    BY <1>1 DEF Typed, KeybindManager
  <2>2. PICK j \in DOMAIN km.down[k] : RunBy(b, km.down[k][j], FALSE)
    BY <1>3, <2>1 DEF LetGo
  <2>3. RanByPress(km.down[k][i])
    BY <1>1 DEF StrokesSound
  <2>4. km.down[k][i].mods = km.down[k][j].mods
    BY DEF PressedAlike
  <2> QED  BY <2>2, <2>3, <2>4 DEF RunBy, RanByPress, Waits, ModsChanged

\* A bind that a press ran is not run again by the release, under whatever
\* submap and modifiers (CKeybindManager::handleKeybinds).
THEOREM PressRunsOnce == Spec => OncePerPress
<1>1. IInv /\ [Next]_vars =>
        [\A k \in Keys : CameUp(k) /\ PressedAlike(k) =>
           \A i \in DOMAIN km.down[k] : \A b \in km.down[k][i].ran \cap km'.ran : Global(b)]_vars
  BY RunOnce
<1> QED  BY <1>1, Always, PTL DEF Spec, OncePerPress

-----------------------------------------------------------------------------
(* A shortcut is let go.                                                    *)

\* The bind b has run, or one before it has changed the submap.
Settled(t, b) == b \in t.ran \/ \E c \in t.ran : c < b /\ Binds[c].handler = "submap"

\* May run at all, now.
MayRun(b) ==
  /\ Binds[b].dontInhibit \/ ~Inhibited
  /\ Binds[b].locked \/ ~mode.locked

\* Binds other than b leave it special; b itself, unless the loop has ended,
\* runs or is given up, and it is not given up under the modifiers of the press.
Settling(t, u, c, b, e) ==
  /\ t.ran \subseteq u.ran
  /\ u.stop => t.stop \/ (c \in u.ran /\ Binds[c].handler = "submap")
  /\ b \in t.special => b \in u.special \/ b \in u.ran
  /\ c = b /\ b \in t.special /\ ~t.stop /\ e.mods = mods => b \in u.ran

LEMMA ConsiderSettles ==
  ASSUME NEW t \in KeybindManager, NEW c \in BindIds, NEW b \in BindIds, NEW e,
         Global(b), MayRun(b), Binds[b].key = e.key,
         NEW u, u = Consider(t, c, e, FALSE)
  PROVE  u \in KeybindManager /\ Settling(t, u, c, b, e)
<1>1. CASE t.stop \/ ~Matches(t, c, e, FALSE) \/ GivenUp(c, e, FALSE)
  <2>1. u = t
    BY <1>1 DEF Consider
  <2>2. c = b /\ b \in t.special /\ ~t.stop => Matches(t, c, e, FALSE)
    BY DEF Matches, IgnoresConditions, MayRun
  <2>3. e.mods = mods => ~GivenUp(c, e, FALSE)
    BY DEF GivenUp, ModsChanged
  <2> QED  BY <1>1, <2>1, <2>2, <2>3 DEF Settling
<1>2. CASE /\ ~(t.stop \/ ~Matches(t, c, e, FALSE) \/ GivenUp(c, e, FALSE))
           /\ Waits(c, e, FALSE)
  <2>1. PICK f \in BOOLEAN : f = (t.found \/ ~Binds[c].nonConsuming)
    OBVIOUS
  <2>2. PICK d : d = [t EXCEPT !.found = f]
    OBVIOUS
  <2>3. u = d
    BY <1>2, <2>1, <2>2 DEF Consider
  <2>4. /\ d \in KeybindManager /\ d.special = t.special /\ d.ran = t.ran
        /\ d.stop = t.stop
    BY <2>2, WaitingFields
  <2>5. c # b
    BY <1>2 DEF Waits
  <2> QED  BY <2>3, <2>4, <2>5 DEF Settling
<1>3. CASE /\ ~(t.stop \/ ~Matches(t, c, e, FALSE) \/ GivenUp(c, e, FALSE))
           /\ ~Waits(c, e, FALSE)
  <2>1. u = Dispatch(t, c, e, FALSE)
    BY <1>3 DEF Consider
  <2>2. u \in KeybindManager /\ Dispatched(t, u, c, e, FALSE)
    BY <2>1, DispatchFields
  <2>3. /\ u.special = t.special \ {c} /\ u.ran = t.ran \cup {c}
        /\ u.stop = (Binds[c].handler = "submap")
    BY <2>2 DEF Dispatched
  <2> QED  BY <2>2, <2>3 DEF Settling
<1> QED  BY <1>1, <1>2, <1>3

LEMMA HandleSettles ==
  ASSUME NEW s \in KeybindManager, NEW b \in BindIds, NEW e,
         Global(b), MayRun(b), Binds[b].key = e.key, Settled(s, b) \/ b \in s.special
  PROVE  /\ HandleKeybinds(s, e, FALSE) \in KeybindManager
         /\ LET d == HandleKeybinds(s, e, FALSE)
            IN /\ Settled(d, b) \/ b \in d.special
               /\ e.mods = mods \/ Settled(s, b) => Settled(d, b)
<1> DEFINE Soon(t) == /\ Settled(t, b) \/ b \in t.special
                      /\ Settled(s, b) => Settled(t, b)
           Before(t, n) == Soon(t) /\ (t.stop =>
                             \E c \in t.ran : c <= n /\ Binds[c].handler = "submap")
           After(t) == Soon(t) /\ (e.mods = mods => Settled(t, b))
           I == [n \in 0..Len(Binds) |->
                  {t \in KeybindManager : IF n < b THEN Before(t, n) ELSE After(t)}]
<1>1. /\ Len(Binds) \in Nat /\ BindIds = 1..Len(Binds)
      /\ b \in Nat /\ 0 < b /\ b <= Len(Binds)
  BY BindsTyped
<1>2. ASSUME NEW n \in 0..Len(Binds), NEW t \in KeybindManager
      PROVE  t \in I[n] <=> IF n < b THEN Before(t, n) ELSE After(t)
  OBVIOUS
<1>3. I[Len(Binds)] = {t \in KeybindManager : After(t)}
  BY <1>1
<1> HIDE DEF I, Before, After
<1>4. ASSUME NEW d \in KeybindManager, d = [s EXCEPT !.stop = FALSE, !.found = FALSE]
      PROVE  d \in I[0]
  <2>1. d.special = s.special /\ d.ran = s.ran /\ d.stop = FALSE
    BY <1>4, StartFields
  <2>2. Before(d, 0)
    BY <2>1 DEF Settled, Before
  <2>3. 0 \in 0..Len(Binds) /\ 0 < b
    BY <1>1
  <2> QED  BY <1>2, <2>2, <2>3
<1>5. ASSUME NEW c \in BindIds, NEW t \in KeybindManager, t \in I[c - 1]
      PROVE  Consider(t, c, e, FALSE) \in I[c]
  <2>1. /\ c \in Nat /\ c \in 0..Len(Binds) /\ c - 1 \in 0..Len(Binds)
        /\ c - 1 < b <=> c <= b
    BY <1>1
  <2>2. IF c - 1 < b THEN Before(t, c - 1) ELSE After(t)
    BY <1>2, <1>5, <2>1
  <2>3. PICK u : u = Consider(t, c, e, FALSE)
    OBVIOUS
  <2>4. u \in KeybindManager /\ Settling(t, u, c, b, e)
    BY <2>3, ConsiderSettles
  <2>5. Settled(t, b) => Settled(u, b)
    BY <2>4 DEF Settled, Settling
  <2>6. Soon(u)
    BY <2>2, <2>4, <2>5 DEF Settled, Settling, Before, After
  <2>7. CASE c < b
    <3>1. Before(t, c - 1)
      BY <2>1, <2>2, <2>7
    <3>2. ASSUME u.stop  PROVE \E a \in u.ran : a <= c /\ Binds[a].handler = "submap"
      <4>1. CASE t.stop
        <5>1. PICK a \in t.ran : a <= c - 1 /\ Binds[a].handler = "submap"
          BY <3>1, <4>1 DEF Before
        <5>2. a \in Nat
          BY <1>1 DEF KeybindManager
        <5> QED  BY <2>1, <2>4, <5>1, <5>2 DEF Settling
      <4>2. CASE c \in u.ran /\ Binds[c].handler = "submap"
        BY <2>1, <4>2
      <4> QED  BY <2>4, <3>2, <4>1, <4>2 DEF Settling
    <3>3. Before(u, c)
      BY <2>6, <3>2 DEF Before
    <3> QED  BY <1>2, <2>1, <2>3, <2>4, <2>7, <3>3
  <2>8. CASE c = b
    <3>1. Before(t, c - 1)
      BY <2>1, <2>2, <2>8
    <3>2. t.stop => Settled(t, b)
      <4>1. \A a \in t.ran : a \in Nat
        BY <1>1 DEF KeybindManager
      <4> QED  BY <1>1, <2>8, <3>1, <4>1 DEF Settled, Before
    <3>3. e.mods = mods => Settled(u, b)
      BY <2>4, <2>5, <2>8, <3>1, <3>2 DEF Settled, Settling, Before
    <3>4. After(u)
      BY <2>6, <3>3 DEF After
    <3>5. ~(c < b)
      BY <2>1, <2>8
    <3> QED  BY <1>2, <2>1, <2>3, <2>4, <3>4, <3>5
  <2>9. CASE c > b
    <3>1. After(t)
      BY <1>1, <2>1, <2>2, <2>9
    <3>2. After(u)
      BY <2>5, <2>6, <3>1 DEF After
    <3>3. ~(c < b)
      BY <1>1, <2>1, <2>9
    <3> QED  BY <1>2, <2>1, <2>3, <2>4, <3>2, <3>3
  <2>10. c < b \/ c = b \/ c > b
    BY <1>1
  <2> QED  BY <2>7, <2>8, <2>9, <2>10
<1>6. HandleKeybinds(s, e, FALSE) \in KeybindManager \cap I[Len(Binds)]
  BY <1>4, <1>5, HandleLeads
<1> QED  BY <1>3, <1>6 DEF After

\* A stroke under the modifiers of now settles the shortcut, and no other
\* unsettles it.
LEMMA ReleaseSettles ==
  ASSUME NEW s \in KeybindManager, NEW b \in BindIds, NEW k, k = Binds[b].key,
         Global(b), MayRun(b), b \in s.special,
         \A i \in DOMAIN s.down[k] : s.down[k][i].key = k,
         NEW j \in DOMAIN s.down[k], s.down[k][j].mods = mods,
         NEW d, d = OnRelease(s, k)
  PROVE  Settled(d, b)
<1> DEFINE N == Len(s.down[k])
           Sure(t, i) == /\ Settled(t, b) \/ b \in t.special
                         /\ i >= j => Settled(t, b)
           I == [i \in 0..N |-> {t \in KeybindManager : Sure(t, i)}]
<1>1. k \in Keys /\ s.down[k] \in Seq(Stroke)
  BY BindsTyped DEF KeybindManager, Bind
<1>2. /\ N \in Nat /\ DOMAIN s.down[k] = 1..N /\ j \in Nat /\ 0 < j /\ j <= N
      /\ s.down[k] # <<>>
  BY <1>1
<1>3. ASSUME NEW i \in 0..N, NEW t \in KeybindManager
      PROVE  t \in I[i] <=> Sure(t, i)
  OBVIOUS
<1>4. I[N] = {t \in KeybindManager : Sure(t, N)}
  BY <1>2
<1> HIDE DEF I, N
<1>5. s \in I[0]
  BY <1>2, <1>3
<1>6. ASSUME NEW i \in 1..N, NEW t \in KeybindManager, t \in I[i - 1]
      PROVE  HandleKeybinds(t, s.down[k][i], FALSE) \in I[i]
  <2>1. i \in Nat /\ i \in 0..N /\ i - 1 \in 0..N /\ i \in DOMAIN s.down[k]
    BY <1>2
  <2>2. Sure(t, i - 1)
    BY <1>3, <1>6, <2>1
  <2>3. PICK e : e = s.down[k][i]
    OBVIOUS
  <2>4. Binds[b].key = e.key
    BY <2>1, <2>3
  <2>5. PICK u : u = HandleKeybinds(t, e, FALSE)
    OBVIOUS
  <2>6. /\ u \in KeybindManager
        /\ Settled(u, b) \/ b \in u.special
        /\ e.mods = mods \/ Settled(t, b) => Settled(u, b)
    BY <2>2, <2>4, <2>5, HandleSettles
  <2>7. i >= j => i - 1 >= j \/ i = j
    BY <1>2, <2>1
  <2>8. Sure(u, i)
    BY <2>2, <2>3, <2>6, <2>7
  <2> QED  BY <1>3, <2>1, <2>3, <2>5, <2>6, <2>8
<1>7. PICK h \in KeybindManager \cap I[N] :
        d = ShadowKeybinds([h EXCEPT !.down[k] = <<>>, !.found = ~Last(s.down[k]).sent], {})
  <2>1. \A i \in 1..Len(s.down[k]) : \A t \in KeybindManager :
          t \in I[i - 1] => HandleKeybinds(t, s.down[k][i], FALSE) \in I[i]
    BY <1>6 DEF N
  <2>2. \E h \in KeybindManager \cap I[Len(s.down[k])] :
          OnRelease(s, k) = ShadowKeybinds(
            [h EXCEPT !.down[k] = <<>>, !.found = ~Last(s.down[k]).sent], {})
    BY <1>1, <1>2, <1>5, <2>1, ReleaseLeads
  <2> QED  BY <2>2 DEF N
<1>8. Settled(h, b)
  BY <1>2, <1>4, <1>7
<1> DEFINE D == [s.down EXCEPT ![k] = <<>>]
           H == [h.down EXCEPT ![k] = <<>>]
           f == ~Last(s.down[k]).sent
           t == [h EXCEPT !.down[k] = <<>>, !.found = f]
<1>9. f \in BOOLEAN /\ H \in Strokes
  BY <1>1 DEF KeybindManager, Strokes
<1>10. d = ShadowKeybinds(t, {})
  BY <1>7
<1> HIDE DEF f
<1> HIDE DEF t, H
<1>11. t = [h EXCEPT !.down = H, !.found = f]
  BY <1>7 DEF KeybindManager, t, H
<1>12. t \in KeybindManager /\ Recording(h, t, H, f)
  BY <1>9, <1>11, RecordFields
<1>13. d \in KeybindManager /\ Shadowing(t, d)
  BY <1>10, <1>12, ShadowFields
<1>14. d.ran = h.ran
  BY <1>12, <1>13 DEF Recording, Shadowing
<1> QED  BY <1>8, <1>14 DEF Settled

LEMMA LetGoInTime ==
  ASSUME IInv, [Next]_vars, NEW b \in km.special,
         CameUp(Binds[b].key), MayRun(b),
         NEW i \in DOMAIN km.down[Binds[b].key], km.down[Binds[b].key][i].mods = mods
  PROVE  Settled(km', b)
<1> DEFINE k == Binds[b].key
<1>1. Typed /\ StrokesSound /\ Global(b)
  BY DEF IInv, SpecialAreGlobal
<1>2. b \in BindIds /\ km \in KeybindManager
  BY <1>1 DEF Typed, KeybindManager
<1>3. PICK kb \in Keyboards :
        Heard(kb) /\ Bound(kb) /\ k \in Keys /\ Release(kb, k)
  BY <1>1, CameUpByRelease
<1>4. km' = OnRelease(Quietened(km), k)
  <2>1. config[kb].binds
    BY <1>3 DEF Bound
  <2> HIDE DEF LetGo, Cleared, Tell, Release, k
  <2> QED  BY <1>1, <1>3, <2>1, ReleaseRoutes
<1>5. PICK s : s = Quietened(km)
  OBVIOUS
<1>6. s \in KeybindManager /\ s.down = km.down /\ s.special = km.special
  BY <1>2, <1>5, QuietenedFields
<1>7. \A n \in DOMAIN s.down[k] : s.down[k][n].key = k
  BY <1>1, <1>3, <1>6 DEF StrokesSound
<1>8. i \in DOMAIN s.down[k] /\ s.down[k][i].mods = mods /\ b \in s.special
  BY <1>6
<1>9. PICK d : d = OnRelease(s, k)
  OBVIOUS
<1> HIDE DEF k
<1>10. Settled(d, b)
  BY <1>1, <1>2, <1>6, <1>7, <1>8, <1>9, ReleaseSettles DEF k
<1> QED  BY <1>4, <1>5, <1>9, <1>10

\* A shortcut whose key comes up is released, whatever else the binds do
\* (CKeybindManager::handleKeybinds).
THEOREM ShortcutsAreLetGo == Spec => ShortcutLetGo
<1>1. IInv /\ [Next]_vars =>
        [\A b \in km.special :
           /\ CameUp(Binds[b].key)
           /\ Binds[b].dontInhibit \/ ~Inhibited
           /\ Binds[b].locked \/ ~mode.locked
           /\ \E i \in DOMAIN km.down[Binds[b].key] : km.down[Binds[b].key][i].mods = mods
           => \/ b \in km'.ran
              \/ \E c \in km'.ran : c < b /\ Binds[c].handler = "submap"]_vars
  BY LetGoInTime DEF Settled, MayRun
<1> QED  BY <1>1, Always, PTL DEF Spec, ShortcutLetGo
=============================================================================
