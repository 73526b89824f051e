----------------------- MODULE MonitorWorkspaces_proofs -----------------------
(***************************************************************************)
(* Proofs about MonitorWorkspaces, for any outputs, workspaces, windows    *)
(* and rules.                                                              *)
(***************************************************************************)
EXTENDS MonitorWorkspaces, FiniteSetTheorems, TLAPS

-----------------------------------------------------------------------------
(* Induction and recursion.                                                 *)

LEMMA LeastNumber ==
  ASSUME NEW B \in SUBSET Nat, B # {}
  PROVE  \E k \in B : \A j \in B : k <= j
<1> DEFINE X == {0..k : k \in B}
<1>1. X \subseteq FiniteSubsetsOf(Nat) /\ X # {}
  <2>1. ASSUME NEW k \in B  PROVE IsFiniteSet(0..k) /\ 0..k \in SUBSET Nat
    <3>1. 0 \in Int /\ k \in Int
      OBVIOUS
    <3> QED  BY <3>1, FS_Interval
  <2> QED  BY <2>1 DEF FiniteSubsetsOf
<1>2. IsWellFoundedOn(StrictSubsetOrdering(Nat), FiniteSubsetsOf(Nat))
  BY FS_StrictSubsetOrderingWellFounded
<1> HIDE DEF X
<1>3. PICK x \in X : \A y \in X : <<y, x>> \notin StrictSubsetOrdering(Nat)
  BY <1>1, <1>2, WFMin
<1>4. PICK k \in B : x = 0..k
  BY DEF X
<1>5. ASSUME NEW j \in B, j < k  PROVE FALSE
  <2>1. 0..j \in X
    BY DEF X
  <2>2. 0..j \subseteq 0..k /\ 0..j # 0..k /\ 0..k \in SUBSET Nat /\ 0..j \in SUBSET Nat
    <3>1. k \in 0..k /\ k \notin 0..j
      BY <1>5
    <3> QED  BY <1>5, <3>1
  <2>3. <<0..j, x>> \in StrictSubsetOrdering(Nat)
    BY <1>4, <2>2 DEF StrictSubsetOrdering
  <2> QED  BY <1>3, <2>1, <2>3
<1>6. \A j \in B : k <= j
  BY <1>5
<1> QED  BY <1>6

\* Induction, for a set of numbers.
LEMMA CountingUp ==
  ASSUME NEW N \in Nat, NEW P, 0 \in P, \A k \in 0..N : k \in P /\ k < N => k + 1 \in P
  PROVE  0..N \subseteq P
<1> DEFINE B == (0..N) \ P
<1> SUFFICES ASSUME B # {}  PROVE FALSE
  OBVIOUS
<1>1. B \in SUBSET Nat
  OBVIOUS
<1> HIDE DEF B
<1>2. PICK k \in B : \A j \in B : k <= j
  BY <1>1, LeastNumber
<1>3. k \in 0..N /\ k \notin P
  BY DEF B
<1>4. k - 1 \in 0..N /\ k - 1 < N /\ k - 1 \notin B
  BY <1>1, <1>2, <1>3
<1> QED  BY <1>3, <1>4 DEF B

\* Each of N steps G leads from S into S.
LeadsOn(G, N, S) == \A t \in S, i \in 1..N : G[<<t, i>>] \in S

IsWalk(g, G, N, S, s0) ==
  /\ g \in [0..N -> S] /\ g[0] = s0
  /\ \A i \in 1..N : g[i] = G[<<g[i - 1], i>>]

\* A walk of N steps from s0 exists, if each step leads somewhere.
LEMMA WalkExists ==
  ASSUME NEW N \in Nat, NEW S, NEW s0 \in S, NEW G, LeadsOn(G, N, S)
  PROVE  \E g : IsWalk(g, G, N, S, s0)
<1> DEFINE P == {n \in 0..N : \E g \in [0..n -> S] :
                   g[0] = s0 /\ \A i \in 1..n : g[i] = G[<<g[i - 1], i>>]}
<1>1. 0 \in P
  <2> DEFINE g == [i \in 0..0 |-> s0]
  <2>1. g \in [0..0 -> S] /\ g[0] = s0 /\ \A i \in 1..0 : g[i] = G[<<g[i - 1], i>>]
    OBVIOUS
  <2> HIDE DEF g
  <2> QED  BY <2>1
<1>2. ASSUME NEW n \in 0..N, n \in P, n < N  PROVE n + 1 \in P
  <2>1. PICK g \in [0..n -> S] : g[0] = s0 /\ \A i \in 1..n : g[i] = G[<<g[i - 1], i>>]
    BY <1>2
  <2> DEFINE h == [i \in 0..(n + 1) |-> IF i = n + 1 THEN G[<<g[n], n + 1>>] ELSE g[i]]
  <2>2. g[n] \in S /\ n + 1 \in 1..N /\ G[<<g[n], n + 1>>] \in S
    BY <1>2 DEF LeadsOn
  <2>3. h \in [0..(n + 1) -> S] /\ h[0] = s0
    BY <2>1, <2>2
  <2>4. h[n + 1] = G[<<g[n], n + 1>>] /\ \A i \in 0..n : h[i] = g[i]
    BY <1>2
  <2> HIDE DEF h
  <2>5. ASSUME NEW i \in 1..(n + 1)  PROVE h[i] = G[<<h[i - 1], i>>]
    <3>1. CASE i = n + 1
      <4>1. i - 1 = n /\ n \in 0..n
        BY <3>1
      <4> QED  BY <2>4, <3>1, <4>1
    <3>2. CASE i # n + 1
      <4>1. i \in 1..n /\ i \in 0..n /\ i - 1 \in 0..n
        BY <3>2
      <4> QED  BY <2>1, <2>4, <4>1
    <3> QED  BY <3>1, <3>2
  <2> QED  BY <1>2, <2>3, <2>5
<1> HIDE DEF P
<1>3. N \in P
  BY <1>1, <1>2, CountingUp
<1> QED  BY <1>3 DEF P, IsWalk

-----------------------------------------------------------------------------
(* Lists.                                                                   *)

LEMMA ListMembers ==
  ASSUME NEW T, NEW list \in Seq(T)
  PROVE  /\ ToSet(list) = {list[i] : i \in 1..Len(list)}
         /\ ToSet(list) \subseteq T /\ Len(list) \in Nat
         /\ IsFiniteSet(ToSet(list))
<1>1. /\ ToSet(list) = {list[i] : i \in 1..Len(list)}
      /\ ToSet(list) \subseteq T /\ Len(list) \in Nat /\ DOMAIN list = 1..Len(list)
  BY DEF ToSet
<1>2. IsFiniteSet(1..Len(list))
  <2>1. 1 \in Int /\ Len(list) \in Int
    BY <1>1
  <2> QED  BY <2>1, FS_Interval
<1>3. list \in Surjection(1..Len(list), ToSet(list))
  BY <1>1 DEF Surjection
<1> QED  BY <1>1, <1>2, <1>3, FS_Surjection

LEMMA AppendMembers ==
  ASSUME NEW T, NEW list \in Seq(T), NEW x \in T
  PROVE  /\ Append(list, x) \in Seq(T)
         /\ ToSet(Append(list, x)) = ToSet(list) \cup {x}
<1>1. Append(list, x) \in Seq(T) /\ Len(Append(list, x)) = Len(list) + 1
      /\ \A i \in 1..Len(list) : Append(list, x)[i] = list[i]
      /\ Append(list, x)[Len(list) + 1] = x
  OBVIOUS
<1>2. \A y : y \in ToSet(Append(list, x)) <=> y \in ToSet(list) \cup {x}
  <2>1. Len(list) \in Nat
    OBVIOUS
  <2>2. \A i \in 1..(Len(list) + 1) : i \in 1..Len(list) \/ i = Len(list) + 1
    BY <2>1
  <2>3. Len(list) + 1 \in 1..(Len(list) + 1) /\ \A i \in 1..Len(list) : i \in 1..(Len(list) + 1)
    BY <2>1
  <2>4. /\ ToSet(list) = {list[i] : i \in 1..Len(list)}
        /\ ToSet(Append(list, x)) = {Append(list, x)[i] : i \in 1..(Len(list) + 1)}
    BY <1>1, ListMembers
  <2> QED  BY <1>1, <2>2, <2>3, <2>4
<1> QED  BY <1>1, <1>2

\* Kept leaves the members of S, and nothing else.
LEMMA KeptMembers ==
  ASSUME NEW T, NEW list \in Seq(T), NEW S
  PROVE  Kept(list, S) \in Seq(T) /\ ToSet(Kept(list, S)) = ToSet(list) \cap S
<1> DEFINE N == Len(list)
           Recurs(f) == f = [i \in 0..N |->
                               IF i = 0 THEN <<>>
                               ELSE IF list[i] \in S THEN Append(f[i - 1], list[i]) ELSE f[i - 1]]
           G == [p \in Seq(T) \X (1..N) |->
                   IF list[p[2]] \in S THEN Append(p[1], list[p[2]]) ELSE p[1]]
<1>1. N \in Nat /\ \A i \in 1..N : list[i] \in T
  OBVIOUS
<1>2. /\ \A t \in Seq(T), i \in 1..N :
           G[<<t, i>>] = IF list[i] \in S THEN Append(t, list[i]) ELSE t
  OBVIOUS
<1>3. Kept(list, S) = (CHOOSE f : Recurs(f))[N]
  BY DEF Kept
<1> HIDE DEF N, G, Recurs
<1>4. LeadsOn(G, N, Seq(T))
  <2> SUFFICES ASSUME NEW t \in Seq(T), NEW i \in 1..N  PROVE G[<<t, i>>] \in Seq(T)
    BY DEF LeadsOn
  <2>1. list[i] \in T
    BY <1>1
  <2>2. Append(t, list[i]) \in Seq(T)
    BY <2>1, AppendMembers
  <2> QED  BY <1>2, <2>2
<1>5. <<>> \in Seq(T)
  OBVIOUS
<1>6. PICK g : IsWalk(g, G, N, Seq(T), <<>>)
  BY <1>1, <1>4, <1>5, WalkExists
<1>7. /\ g \in [0..N -> Seq(T)] /\ g[0] = <<>>
      /\ \A i \in 1..N : g[i] = G[<<g[i - 1], i>>]
  BY <1>6 DEF IsWalk
<1>8. \A i \in 1..N : i - 1 \in 0..N /\ i \in 0..N /\ i # 0
  BY <1>1
<1>9. \A i \in 1..N : g[i] = IF list[i] \in S THEN Append(g[i - 1], list[i]) ELSE g[i - 1]
  BY <1>2, <1>7, <1>8
<1>10. \A i \in 0..N : i = 0 \/ i \in 1..N
  BY <1>1
<1>11. Recurs(g)
  BY <1>7, <1>9, <1>10 DEF Recurs
<1> DEFINE f == CHOOSE h : Recurs(h)
<1>12. Recurs(f)
  BY <1>11
<1> HIDE DEF f
<1>13. f[0] = <<>> /\ \A i \in 1..N :
         f[i] = IF list[i] \in S THEN Append(f[i - 1], list[i]) ELSE f[i - 1]
  <2>1. f = [i \in 0..N |->
               IF i = 0 THEN <<>>
               ELSE IF list[i] \in S THEN Append(f[i - 1], list[i]) ELSE f[i - 1]]
    BY <1>12 DEF Recurs
  <2>2. 0 \in 0..N
    BY <1>1
  <2>3. f[0] = <<>>
    BY <2>1, <2>2
  <2>4. ASSUME NEW i \in 1..N
        PROVE  f[i] = IF list[i] \in S THEN Append(f[i - 1], list[i]) ELSE f[i - 1]
    BY <1>8, <2>1
  <2> QED  BY <2>3, <2>4
<1> DEFINE Done(n) == {list[i] : i \in 1..n} \cap S
           P == {n \in 0..N : f[n] \in Seq(T) /\ ToSet(f[n]) = Done(n)}
<1>14. 0 \in P
  <2>1. 0 \in 0..N /\ Done(0) = {}
    BY <1>1
  <2>2. ToSet(f[0]) = {}
    BY <1>13 DEF ToSet
  <2> QED  BY <1>5, <1>13, <2>1, <2>2
<1>15. \A n \in 0..N : n \in P /\ n < N => n + 1 \in P
  <2> SUFFICES ASSUME NEW n \in 0..N, n \in P, n < N  PROVE n + 1 \in P
    OBVIOUS
  <2>1. n + 1 \in 1..N /\ (n + 1) - 1 = n /\ n + 1 \in 0..N
    BY <1>1
  <2>2. f[n + 1] = IF list[n + 1] \in S THEN Append(f[n], list[n + 1]) ELSE f[n]
    BY <1>13, <2>1
  <2>3. \A i \in 1..(n + 1) : i \in 1..n \/ i = n + 1
    BY <1>1
  <2>4. Done(n + 1) = IF list[n + 1] \in S THEN Done(n) \cup {list[n + 1]} ELSE Done(n)
    <3>1. n + 1 \in 1..(n + 1) /\ \A i \in 1..n : i \in 1..(n + 1)
      BY <1>1
    <3> QED  BY <2>3, <3>1
  <2>5. f[n] \in Seq(T) /\ ToSet(f[n]) = Done(n)
    OBVIOUS
  <2>6. list[n + 1] \in T
    BY <1>1, <2>1
  <2> HIDE DEF Done
  <2>7. f[n + 1] \in Seq(T) /\ ToSet(f[n + 1]) = Done(n + 1)
    <3>1. CASE list[n + 1] \in S
      <4>1. /\ Append(f[n], list[n + 1]) \in Seq(T)
            /\ ToSet(Append(f[n], list[n + 1])) = ToSet(f[n]) \cup {list[n + 1]}
        BY <2>5, <2>6, AppendMembers
      <4> QED  BY <2>2, <2>4, <2>5, <3>1, <4>1
    <3>2. CASE list[n + 1] \notin S
      BY <2>2, <2>4, <2>5, <3>2
    <3> QED  BY <3>1, <3>2
  <2> QED  BY <2>1, <2>7
<1> HIDE DEF P
<1>16. N \in P
  <2>1. 0..N \subseteq P
    BY <1>1, <1>14, <1>15, CountingUp
  <2>2. N \in 0..N
    BY <1>1
  <2> QED  BY <2>1, <2>2
<1>17. f[N] \in Seq(T) /\ ToSet(f[N]) = Done(N)
  BY <1>16 DEF P
<1>18. Done(N) = ToSet(list) \cap S
  BY ListMembers DEF N
<1>19. Kept(list, S) = f[N]
  BY <1>3 DEF f
<1> HIDE DEF Done
<1> QED  BY <1>17, <1>18, <1>19

-----------------------------------------------------------------------------
(* What each operator on a desk writes.                                     *)

LEMMA DeskFields ==
  ASSUME NEW d \in Desk
  PROVE  /\ d.enabled \in Seq(Outputs) /\ d.order \in Seq(Workspaces)
         /\ d.home \in [Workspaces -> Outputs \cup {NoMonitor}]
         /\ d.back \in [Workspaces -> Outputs \cup {NoMonitor}]
         /\ d.visible \in SUBSET Workspaces
         /\ d.active \in [Outputs -> Ids \cup {NoWorkspace}]
         /\ d.special \in [Outputs -> Specials \cup {NoWorkspace}]
         /\ d.focused \in Outputs \cup {NoMonitor}
         /\ d.on \in [Windows -> Workspaces \cup {NoWorkspace}]
         /\ d.screen \in [Windows -> Outputs \cup {NoMonitor}]
         /\ d.pinned \in SUBSET Windows /\ d.torn \in BOOLEAN
BY DEF Desk

LEMMA DeskSets ==
  ASSUME NEW d \in Desk
  PROVE  /\ Existing(d) \subseteq Workspaces /\ IsFiniteSet(Existing(d))
         /\ Enabled(d) \subseteq Outputs
BY DeskFields, ListMembers DEF Existing, Enabled

LEMMA FocusFields ==
  ASSUME NEW d \in Desk, NEW m \in Outputs \cup {NoMonitor},
         NEW e, e = [d EXCEPT !.focused = m]
  PROVE  /\ e \in Desk
         /\ e.focused = m
         /\ e.enabled = d.enabled /\ e.order = d.order /\ e.home = d.home
         /\ e.back = d.back /\ e.visible = d.visible /\ e.active = d.active
         /\ e.special = d.special /\ e.on = d.on /\ e.screen = d.screen
         /\ e.pinned = d.pinned /\ e.torn = d.torn
BY DEF Desk

LEMMA BackFields ==
  ASSUME NEW d \in Desk, NEW s \in Workspaces, NEW m \in Outputs \cup {NoMonitor},
         NEW e, e = [d EXCEPT !.back[s] = m]
  PROVE  /\ e \in Desk
         /\ \A x \in Workspaces : e.back[x] = IF x = s THEN m ELSE d.back[x]
         /\ e.enabled = d.enabled /\ e.order = d.order /\ e.home = d.home
         /\ e.visible = d.visible /\ e.active = d.active
         /\ e.special = d.special /\ e.focused = d.focused /\ e.on = d.on
         /\ e.screen = d.screen /\ e.pinned = d.pinned /\ e.torn = d.torn
BY DEF Desk

LEMMA ClosedSpecialFields ==
  ASSUME NEW d \in Desk, NEW m \in Outputs,
         NEW e, e = ClosedSpecial(d, m)
  PROVE  /\ e \in Desk
         /\ \A n \in Outputs : e.special[n] = IF n = m THEN NoWorkspace ELSE d.special[n]
         /\ e.visible = d.visible \ {d.special[m]}
         /\ e.enabled = d.enabled /\ e.order = d.order /\ e.home = d.home
         /\ e.back = d.back /\ e.active = d.active /\ e.focused = d.focused
         /\ e.on = d.on /\ e.screen = d.screen /\ e.pinned = d.pinned
         /\ e.torn = d.torn
BY DEF ClosedSpecial, Desk

\* m may be no monitor.
LEMMA ClosedSpecialDesk ==
  ASSUME NEW d \in Desk, NEW m,
         NEW e, e = ClosedSpecial(d, m)
  PROVE  /\ e \in Desk
         /\ e.visible \subseteq d.visible
         /\ e.enabled = d.enabled /\ e.order = d.order /\ e.home = d.home
         /\ e.back = d.back /\ e.active = d.active /\ e.focused = d.focused
         /\ e.on = d.on /\ e.screen = d.screen /\ e.pinned = d.pinned
         /\ e.torn = d.torn
BY DEF ClosedSpecial, Desk

LEMMA RehomedFields ==
  ASSUME NEW d \in Desk, NEW s \in Workspaces, NEW m \in Outputs,
         NEW stays \in Workspaces \cup {NoWorkspace},
         NEW e, e = Rehomed(d, s, m, stays)
  PROVE  /\ e \in Desk
         /\ d.torn => e.torn
         /\ \A n \in Outputs : d.special[n] = s => e.torn
         /\ \A x \in Workspaces : e.home[x] = IF x = s THEN m ELSE d.home[x]
         /\ \A w \in Windows : e.on[w] =
                      IF d.on[w] = s /\ w \in d.pinned THEN stays ELSE d.on[w]
         /\ \A w \in Windows : e.screen[w] =
                          IF d.on[w] = s /\ w \notin d.pinned THEN m ELSE d.screen[w]
         /\ e.enabled = d.enabled /\ e.order = d.order /\ e.back = d.back
         /\ e.visible = d.visible /\ e.active = d.active
         /\ e.special = d.special /\ e.focused = d.focused
         /\ e.pinned = d.pinned
BY DEF Rehomed, Desk

LEMMA OpenedSpecialFields ==
  ASSUME NEW d \in Desk, NEW s \in Specials, NEW m \in Outputs, d.special[m] # s,
         NEW e, e = OpenedSpecial(d, m, s)
  PROVE  /\ e \in Desk
         /\ \A n \in Outputs : e.special[n] =
                           IF n = m THEN s
                           ELSE IF n = d.home[s] /\ d.special[n] = s THEN NoWorkspace
                           ELSE d.special[n]
         /\ e.visible = (d.visible \ {d.special[m]}) \cup {s}
         /\ \A x \in Workspaces : e.home[x] = IF x = s THEN m ELSE d.home[x]
         /\ \A w \in Windows : e.screen[w] = IF d.on[w] = s THEN m ELSE d.screen[w]
         /\ e.enabled = d.enabled /\ e.order = d.order /\ e.back = d.back
         /\ e.active = d.active /\ e.focused = d.focused /\ e.on = d.on
         /\ e.pinned = d.pinned /\ e.torn = d.torn
BY DEF OpenedSpecial, Desk, Workspaces

LEMMA ChangedFields ==
  ASSUME NEW d \in Desk, NEW s \in Ids, NEW m \in Outputs, NEW internal \in BOOLEAN,
         d.active[m] # s,
         NEW e, e = Changed(d, m, s, internal)
  PROVE  /\ e \in Desk
         /\ \A n \in Outputs : e.active[n] = IF n = m THEN s ELSE d.active[n]
         /\ e.visible = (d.visible \ {d.active[m]}) \cup {s}
         /\ \A w \in Windows : e.on[w] =
                      IF ~internal /\ w \in d.pinned /\ d.on[w] = d.active[m] /\ d.on[w] # NoWorkspace
                      THEN s ELSE d.on[w]
         /\ e.enabled = d.enabled /\ e.order = d.order /\ e.home = d.home
         /\ e.back = d.back /\ e.special = d.special /\ e.focused = d.focused
         /\ e.screen = d.screen /\ e.pinned = d.pinned /\ e.torn = d.torn
BY MonitorAssumption DEF Changed, Desk, Workspaces

LEMMA ShownFields ==
  ASSUME NEW d \in Desk, NEW s \in Ids, NEW m \in Outputs,
         NEW e, e = Shown(d, s, m)
  PROVE  /\ e \in Desk
         /\ e.focused = m
         /\ \A n \in Outputs : e.active[n] = IF n = m THEN s ELSE d.active[n]
         /\ \A n \in Outputs : e.special[n] = IF HideSpecial /\ n = m THEN NoWorkspace ELSE d.special[n]
         /\ e.visible = ((IF HideSpecial THEN d.visible \ {d.special[m]} ELSE d.visible)
                          \ {d.active[m]}) \cup {s}
         /\ e.enabled = d.enabled /\ e.order = d.order /\ e.home = d.home
         /\ e.back = d.back /\ e.on = d.on /\ e.screen = d.screen
         /\ e.pinned = d.pinned /\ e.torn = d.torn
<1>1. CASE HideSpecial
  <2>c. PICK c : c = ClosedSpecial(d, m)
    OBVIOUS
  <2>1. /\ c \in Desk /\ \A n \in Outputs : c.special[n] = IF n = m THEN NoWorkspace ELSE d.special[n]
        /\ c.visible = d.visible \ {d.special[m]}
        /\ c.enabled = d.enabled /\ c.order = d.order /\ c.home = d.home
        /\ c.back = d.back /\ c.active = d.active /\ c.focused = d.focused
        /\ c.on = d.on /\ c.screen = d.screen /\ c.pinned = d.pinned
        /\ c.torn = d.torn
    BY <2>c, ClosedSpecialFields
  <2>v. PICK v : v = (c.visible \ {d.active[m]}) \cup {s}
    OBVIOUS
  <2>2. e = [c EXCEPT !.focused = m, !.active[m] = s, !.visible = v]
    BY <1>1, <2>c, <2>v DEF Shown
  <2>3. v \in SUBSET Workspaces
    BY <2>1, <2>v DEF Desk, Workspaces
  <2>4. /\ e \in Desk /\ e.focused = m /\ \A n \in Outputs : e.active[n] = IF n = m THEN s ELSE c.active[n]
        /\ e.visible = v
        /\ e.enabled = c.enabled /\ e.order = c.order /\ e.home = c.home
        /\ e.back = c.back /\ e.special = c.special /\ e.on = c.on
        /\ e.screen = c.screen /\ e.pinned = c.pinned /\ e.torn = c.torn
    <3>1. c \in Desk
      BY <2>1
    <3>2. PICK a : a = [c.active EXCEPT ![m] = s]
      OBVIOUS
    <3>3. a \in [Outputs -> Ids \cup {NoWorkspace}]
      BY <3>1, <3>2 DEF Desk
    <3>4. e = [c EXCEPT !.focused = m, !.active = a, !.visible = v]
      BY <2>2, <3>2
    <3>5. \A n \in Outputs : a[n] = IF n = m THEN s ELSE c.active[n]
      BY <3>1, <3>2 DEF Desk
    <3> QED  BY <2>3, <3>1, <3>3, <3>4, <3>5 DEF Desk
  <2> QED  BY <1>1, <2>1, <2>4, <2>v
<1>2. CASE ~HideSpecial
  BY <1>2 DEF Shown, Desk, Workspaces
<1> QED  BY <1>1, <1>2

\* A workspace is made, with its monitor.
Added(d, s, m) == [d EXCEPT !.order = Append(@, s), !.home[s] = m]

LEMMA AddedFields ==
  ASSUME NEW d \in Desk, NEW s \in Workspaces, NEW m \in Outputs,
         NEW e, e = Added(d, s, m)
  PROVE  /\ e \in Desk
         /\ e.order = Append(d.order, s) /\ Existing(e) = Existing(d) \cup {s}
         /\ \A x \in Workspaces : e.home[x] = IF x = s THEN m ELSE d.home[x]
         /\ e.enabled = d.enabled /\ e.back = d.back /\ e.visible = d.visible
         /\ e.active = d.active /\ e.special = d.special
         /\ e.focused = d.focused /\ e.on = d.on /\ e.screen = d.screen
         /\ e.pinned = d.pinned /\ e.torn = d.torn
<1>1. d.order \in Seq(Workspaces)
  BY DeskFields
<1>2. Append(d.order, s) \in Seq(Workspaces)
      /\ ToSet(Append(d.order, s)) = ToSet(d.order) \cup {s}
  BY <1>1, AppendMembers
<1> QED  BY <1>2 DEF Added, Desk, Existing

-----------------------------------------------------------------------------
(***************************************************************************)
(* What the fields of a desk say of each other: monitors show and open     *)
(* workspaces that exist and are their own, the flags say which, and       *)
(* windows are on a workspace that exists and on its monitor, unless       *)
(* pinned.  It survives each operator by itself, in the midst of handlers. *)
(***************************************************************************)

ShowsOwn(d) ==
  \A m \in Outputs : d.active[m] # NoWorkspace =>
    d.active[m] \in Existing(d) /\ d.home[d.active[m]] = m

OpensOwn(d) ==
  \A m \in Outputs : d.special[m] # NoWorkspace =>
    /\ d.special[m] \in Existing(d) /\ d.home[d.special[m]] = m
    /\ d.active[m] # NoWorkspace

FlagsShown(d) ==
  \A s \in Workspaces :
    s \in d.visible <=> \E m \in Outputs : d.active[m] = s \/ d.special[m] = s

WindowsPlaced(d) ==
  \A w \in Windows :
    /\ d.on[w] # NoWorkspace => d.on[w] \in Existing(d)
    /\ d.on[w] # NoWorkspace /\ w \notin d.pinned => d.screen[w] = d.home[d.on[w]]
    /\ w \in d.pinned => d.on[w] # NoWorkspace

Agrees(d) == ShowsOwn(d) /\ OpensOwn(d) /\ FlagsShown(d) /\ WindowsPlaced(d)

Lit(d) == {m \in Outputs : d.active[m] # NoWorkspace}

LEMMA Sorts ==
  /\ NoWorkspace \notin Ids /\ NoWorkspace \notin Specials /\ NoWorkspace \notin Workspaces
  /\ Ids \cap Specials = {} /\ Workspaces = Ids \cup Specials
  /\ NoMonitor \notin Outputs /\ Monitors \subseteq Outputs /\ Fallback \in Outputs
  /\ Fallback \notin Monitors
  /\ BoundTo \in [Ids -> Monitors \cup {NoMonitor}]
  /\ DefaultFor \in [Outputs -> Ids \cup {NoWorkspace}]
  /\ Ids \subseteq Nat
BY MonitorAssumption DEF Workspaces, Outputs

\* What does not touch what monitors show and where windows are.
LEMMA QuietAgrees ==
  ASSUME NEW d \in Desk, Agrees(d), NEW e \in Desk, Existing(e) = Existing(d),
         e.home = d.home, e.visible = d.visible, e.active = d.active,
         e.special = d.special, e.on = d.on, e.screen = d.screen, e.pinned = d.pinned
  PROVE  Agrees(e)
BY DEF Agrees, ShowsOwn, OpensOwn, FlagsShown, WindowsPlaced

LEMMA AddedAgrees ==
  ASSUME NEW d \in Desk, Agrees(d), NEW s \in Workspaces, s \notin Existing(d),
         NEW m \in Outputs, NEW e, e = Added(d, s, m)
  PROVE  Agrees(e)
<1>1. /\ Existing(e) = Existing(d) \cup {s} /\ \A x \in Workspaces : e.home[x] = IF x = s THEN m ELSE d.home[x]
      /\ e.visible = d.visible /\ e.active = d.active /\ e.special = d.special
      /\ e.on = d.on /\ e.screen = d.screen /\ e.pinned = d.pinned
  BY AddedFields
<1>2. \A t \in Existing(d) : e.home[t] = d.home[t]
  BY <1>1, DeskFields, DeskSets
<1> QED  BY <1>1, <1>2 DEF Agrees, ShowsOwn, OpensOwn, FlagsShown, WindowsPlaced

LEMMA ClosedAgrees ==
  ASSUME NEW d \in Desk, Agrees(d), NEW m \in Outputs, NEW e, e = ClosedSpecial(d, m)
  PROVE  Agrees(e) /\ Lit(e) = Lit(d)
<1>1. /\ \A n \in Outputs : e.special[n] = IF n = m THEN NoWorkspace ELSE d.special[n]
      /\ e.visible = d.visible \ {d.special[m]}
      /\ e.order = d.order /\ e.home = d.home /\ e.active = d.active
      /\ e.on = d.on /\ e.screen = d.screen /\ e.pinned = d.pinned
  BY ClosedSpecialFields
<1>2. Existing(e) = Existing(d)
  BY <1>1 DEF Existing
<1>3. \A n \in Outputs : e.special[n] = IF n = m THEN NoWorkspace ELSE d.special[n]
  BY <1>1, DeskFields
<1>4. ShowsOwn(e) /\ OpensOwn(e) /\ WindowsPlaced(e) /\ Lit(e) = Lit(d)
  BY <1>1, <1>2, <1>3 DEF Agrees, ShowsOwn, OpensOwn, WindowsPlaced, Lit
<1>5. \A n \in Outputs : d.special[n] = d.special[m] /\ d.special[m] # NoWorkspace => n = m
  BY DEF Agrees, OpensOwn
<1>6. \A n \in Outputs : d.active[n] # d.special[m] \/ d.special[m] = NoWorkspace
  BY DeskFields, Sorts
<1>7. FlagsShown(e)
  BY <1>1, <1>3, <1>5, <1>6, Sorts DEF Agrees, FlagsShown
<1> QED  BY <1>4, <1>7 DEF Agrees

LEMMA OpenedAgrees ==
  ASSUME NEW d \in Desk, Agrees(d), NEW m \in Lit(d), NEW s \in Specials, s \in Existing(d),
         NEW e, e = OpenedSpecial(d, m, s)
  PROVE  Agrees(e) /\ Lit(e) = Lit(d)
<1>0. m \in Outputs /\ d.active[m] # NoWorkspace /\ s # NoWorkspace
  BY Sorts DEF Lit
<1>1. CASE d.special[m] = s
  BY <1>1 DEF OpenedSpecial
<1>2. CASE d.special[m] # s
  <2>1. /\ \A n \in Outputs : e.special[n] =
                          IF n = m THEN s
                          ELSE IF n = d.home[s] /\ d.special[n] = s THEN NoWorkspace
                          ELSE d.special[n]
        /\ e.visible = (d.visible \ {d.special[m]}) \cup {s}
        /\ \A x \in Workspaces : e.home[x] = IF x = s THEN m ELSE d.home[x]
        /\ \A w \in Windows : e.screen[w] = IF d.on[w] = s THEN m ELSE d.screen[w]
        /\ e.order = d.order /\ e.active = d.active
        /\ e.on = d.on /\ e.pinned = d.pinned
    BY <1>0, <1>2, OpenedSpecialFields
  <2>2. Existing(e) = Existing(d) /\ \A t \in Existing(d) : e.home[t] = IF t = s THEN m ELSE d.home[t]
    BY <2>1, DeskFields, DeskSets DEF Existing
  <2>3. \A n \in Outputs : d.special[n] = s => d.home[s] = n
    BY <1>0 DEF Agrees, OpensOwn
  <2>4. \A n \in Outputs : e.special[n] = IF n = m THEN s
                                          ELSE IF d.special[n] = s THEN NoWorkspace
                                          ELSE d.special[n]
    BY <2>1, <2>3
  <2>5. \A n \in Outputs : d.active[n] # s /\ (d.active[n] = NoWorkspace \/ d.active[n] # d.special[m])
    BY DeskFields, <1>0, Sorts
  <2>6. ShowsOwn(e) /\ Lit(e) = Lit(d)
    BY <2>1, <2>2, <2>5 DEF Agrees, ShowsOwn, Lit
  <2>7. OpensOwn(e)
    BY <1>0, <2>1, <2>2, <2>4 DEF Agrees, OpensOwn
  <2>8. WindowsPlaced(e)
    BY <1>0, <2>1, <2>2 DEF Agrees, WindowsPlaced
  <2>9. \A n \in Outputs : n # m /\ d.special[n] = d.special[m] => d.special[m] = NoWorkspace
    BY <1>0 DEF Agrees, OpensOwn
  <2>10. FlagsShown(e)
    <3> SUFFICES ASSUME NEW t \in Workspaces
                 PROVE  t \in e.visible <=> \E n \in Outputs : e.active[n] = t \/ e.special[n] = t
      BY DEF FlagsShown
    <3>1. t \in d.visible <=> \E n \in Outputs : d.active[n] = t \/ d.special[n] = t
      BY DEF Agrees, FlagsShown
    <3>2. t # NoWorkspace
      BY Sorts
    <3>3. CASE t = s
      BY <1>0, <2>1, <2>4, <3>3
    <3>4. CASE t = d.special[m] /\ t # s
      <4>1. t \notin e.visible
        BY <2>1, <3>4
      <4>2. \A n \in Outputs : e.active[n] # t /\ e.special[n] # t
        BY <2>1, <2>4, <2>5, <2>9, <3>2, <3>4
      <4> QED  BY <4>1, <4>2
    <3>5. CASE t # d.special[m] /\ t # s
      BY <2>1, <2>4, <3>1, <3>2, <3>5
    <3> QED  BY <3>3, <3>4, <3>5
  <2> QED  BY <2>6, <2>7, <2>8, <2>10 DEF Agrees
<1> QED  BY <1>1, <1>2

LEMMA ChangedAgrees ==
  ASSUME NEW d \in Desk, Agrees(d), NEW m \in Outputs, NEW s \in Ids, s \in Existing(d),
         d.home[s] = m, NEW internal \in BOOLEAN, NEW e, e = Changed(d, m, s, internal)
  PROVE  Agrees(e) /\ Lit(e) = Lit(d) \cup {m}
<1>0. s \notin Specials /\ s # NoWorkspace
  BY Sorts
<1>1. CASE d.active[m] = s
  BY <1>0, <1>1 DEF Changed, Lit
<1>2. CASE d.active[m] # s
  <2>1. /\ \A n \in Outputs : e.active[n] = IF n = m THEN s ELSE d.active[n]
        /\ e.visible = (d.visible \ {d.active[m]}) \cup {s}
        /\ \A w \in Windows : e.on[w] =
                     IF ~internal /\ w \in d.pinned /\ d.on[w] = d.active[m] /\ d.on[w] # NoWorkspace
                     THEN s ELSE d.on[w]
        /\ e.order = d.order /\ e.home = d.home /\ e.special = d.special
        /\ e.screen = d.screen /\ e.pinned = d.pinned
    BY <1>2, ChangedFields
  <2>2. Existing(e) = Existing(d)
    BY <2>1 DEF Existing
  <2>3. \A n \in Outputs : e.active[n] = IF n = m THEN s ELSE d.active[n]
    BY <2>1, DeskFields
  <2>4. ShowsOwn(e) /\ OpensOwn(e) /\ Lit(e) = Lit(d) \cup {m}
    BY <1>0, <2>1, <2>2, <2>3 DEF Agrees, ShowsOwn, OpensOwn, Lit
  <2>5. WindowsPlaced(e)
    BY <1>0, <2>1, <2>2 DEF Agrees, WindowsPlaced
  <2>6. FlagsShown(e)
    <3> SUFFICES ASSUME NEW t \in Workspaces
                 PROVE  t \in e.visible <=> \E n \in Outputs : e.active[n] = t \/ e.special[n] = t
      BY DEF FlagsShown
    <3>1. t \in d.visible <=> \E n \in Outputs : d.active[n] = t \/ d.special[n] = t
      BY DEF Agrees, FlagsShown
    <3>2. t # NoWorkspace
      BY Sorts
    <3>3. CASE t = s
      BY <2>1, <2>3, <3>3
    <3>4. CASE t = d.active[m] /\ t # s
      <4>1. t \notin e.visible
        BY <2>1, <3>4
      <4>2. \A n \in Outputs : d.special[n] # t
        BY DeskFields, Sorts, <3>2, <3>4
      <4>3. \A n \in Outputs : n # m => d.active[n] # t
        BY <3>2, <3>4 DEF Agrees, ShowsOwn
      <4> QED  BY <2>1, <2>3, <3>4, <4>1, <4>2, <4>3
    <3>5. CASE t # d.active[m] /\ t # s
      BY <2>1, <2>3, <3>1, <3>5
    <3> QED  BY <3>3, <3>4, <3>5
  <2> QED  BY <2>4, <2>5, <2>6 DEF Agrees
<1> QED  BY <1>1, <1>2

LEMMA RehomedAgrees ==
  ASSUME NEW d \in Desk, Agrees(d), NEW s \in Existing(d), NEW m \in Outputs,
         NEW stays \in Existing(d), \A n \in Outputs : d.active[n] # s,
         NEW e, e = Rehomed(d, s, m, stays), ~e.torn
  PROVE  Agrees(e) /\ Lit(e) = Lit(d)
<1>0. s \in Workspaces /\ stays \in Workspaces /\ stays # NoWorkspace
  BY DeskSets, Sorts
<1>1. /\ d.torn => e.torn
      /\ \A n \in Outputs : d.special[n] = s => e.torn
      /\ \A x \in Workspaces : e.home[x] = IF x = s THEN m ELSE d.home[x]
      /\ \A w \in Windows : e.on[w] =
                   IF d.on[w] = s /\ w \in d.pinned THEN stays ELSE d.on[w]
      /\ \A w \in Windows : e.screen[w] =
                       IF d.on[w] = s /\ w \notin d.pinned THEN m ELSE d.screen[w]
      /\ e.order = d.order /\ e.active = d.active /\ e.special = d.special
      /\ e.visible = d.visible /\ e.pinned = d.pinned
  BY <1>0, RehomedFields
<1>2. Existing(e) = Existing(d) /\ \A t \in Existing(d) : e.home[t] = IF t = s THEN m ELSE d.home[t]
  BY <1>1, DeskFields, DeskSets DEF Existing
<1>3. \A n \in Outputs : d.special[n] # s
  BY <1>1
<1>4. ShowsOwn(e) /\ OpensOwn(e) /\ FlagsShown(e) /\ Lit(e) = Lit(d)
  BY <1>1, <1>2, <1>3 DEF Agrees, ShowsOwn, OpensOwn, FlagsShown, Lit
<1>5. WindowsPlaced(e)
  BY <1>0, <1>1, <1>2 DEF Agrees, WindowsPlaced
<1> QED  BY <1>4, <1>5 DEF Agrees

LEMMA ShownAgrees ==
  ASSUME NEW d \in Desk, Agrees(d), NEW m \in Outputs, NEW s \in Ids, s \in Existing(d),
         d.home[s] = m, NEW e, e = Shown(d, s, m)
  PROVE  Agrees(e) /\ Lit(e) = Lit(d) \cup {m}
<1>1. PICK c : c = IF HideSpecial THEN ClosedSpecial(d, m) ELSE d
  OBVIOUS
<1>2. /\ c \in Desk /\ Agrees(c) /\ Lit(c) = Lit(d)
      /\ c.order = d.order /\ c.home = d.home /\ c.active = d.active
      /\ c.on = d.on /\ c.screen = d.screen /\ c.pinned = d.pinned
      /\ \A n \in Outputs : c.special[n] = IF HideSpecial /\ n = m THEN NoWorkspace ELSE d.special[n]
      /\ c.visible = IF HideSpecial THEN d.visible \ {d.special[m]} ELSE d.visible
  <2>1. CASE HideSpecial
    <3>1. c = ClosedSpecial(d, m)
      BY <1>1, <2>1
    <3>2. Agrees(c) /\ Lit(c) = Lit(d)
      BY <3>1, ClosedAgrees
    <3> QED  BY <2>1, <3>1, <3>2, ClosedSpecialFields
  <2>2. CASE ~HideSpecial
    BY <1>1, <2>2
  <2> QED  BY <2>1, <2>2
<1>s. /\ e \in Desk /\ \A n \in Outputs : e.active[n] = IF n = m THEN s ELSE d.active[n]
      /\ \A n \in Outputs : e.special[n] = IF HideSpecial /\ n = m THEN NoWorkspace ELSE d.special[n]
      /\ e.visible = ((IF HideSpecial THEN d.visible \ {d.special[m]} ELSE d.visible)
                          \ {d.active[m]}) \cup {s}
      /\ e.order = d.order /\ e.home = d.home
      /\ e.on = d.on /\ e.screen = d.screen /\ e.pinned = d.pinned
  BY ShownFields
<1>p. e.special = c.special
  <2>1. \A n \in Outputs : e.special[n] = c.special[n]
    BY <1>2, <1>s
  <2> QED  BY <1>2, <1>s, <2>1, DeskFields
<1>3. /\ e \in Desk /\ \A n \in Outputs : e.active[n] = IF n = m THEN s ELSE d.active[n]
      /\ e.special = c.special /\ e.visible = (c.visible \ {d.active[m]}) \cup {s}
      /\ e.order = d.order /\ e.home = d.home
      /\ e.on = d.on /\ e.screen = d.screen /\ e.pinned = d.pinned
  BY <1>2, <1>s, <1>p
<1>4. CASE d.active[m] = s
  <2>1. e.active = c.active
    BY <1>2, <1>3, <1>4, DeskFields
  <2>2. s \in c.visible
    BY <1>2, <1>4, Sorts DEF Agrees, FlagsShown
  <2>3. e.visible = c.visible
    BY <1>3, <1>4, <2>2
  <2>4. Existing(e) = Existing(c) /\ Lit(e) = Lit(c) /\ m \in Lit(c)
    BY <1>2, <1>3, <1>4, <2>1, Sorts DEF Existing, Lit
  <2> QED  BY <1>2, <1>3, <2>1, <2>3, <2>4, QuietAgrees
<1>5. CASE d.active[m] # s
  <2>0. PICK internal \in BOOLEAN : internal
    OBVIOUS
  <2>1. PICK g : g = Changed(c, m, s, internal)
    OBVIOUS
  <2>2. s \in Existing(c) /\ c.home[s] = m /\ c.active[m] # s
    BY <1>2, <1>5 DEF Existing
  <2>3. Agrees(g) /\ Lit(g) = Lit(d) \cup {m}
    BY <1>2, <2>1, <2>2, ChangedAgrees
  <2>4. /\ g \in Desk /\ \A n \in Outputs : g.active[n] = IF n = m THEN s ELSE c.active[n]
        /\ g.visible = (c.visible \ {c.active[m]}) \cup {s}
        /\ \A w \in Windows : g.on[w] =
                     IF ~internal /\ w \in c.pinned /\ c.on[w] = c.active[m] /\ c.on[w] # NoWorkspace
                     THEN s ELSE c.on[w]
        /\ g.order = c.order /\ g.home = c.home /\ g.special = c.special
        /\ g.screen = c.screen /\ g.pinned = c.pinned
    BY <1>2, <2>1, <2>2, ChangedFields
  <2>5. g.on = c.on
    BY <1>2, <2>0, <2>4, DeskFields
  <2>6. Existing(e) = Existing(g) /\ Lit(e) = Lit(g)
    BY <1>2, <1>3, <2>4 DEF Existing, Lit
  <2>7. /\ e.home = g.home /\ e.visible = g.visible /\ e.active = g.active
        /\ e.special = g.special /\ e.on = g.on /\ e.screen = g.screen /\ e.pinned = g.pinned
    <3>1. e.active = g.active
      <4>1. \A n \in Outputs : e.active[n] = g.active[n]
        BY <1>2, <1>3, <2>4
      <4>2. e \in Desk /\ g \in Desk
        BY <1>3, <2>4
      <4> QED  BY <4>1, <4>2, DeskFields
    <3> QED  BY <1>2, <1>3, <2>4, <2>5, <3>1
  <2> QED  BY <1>3, <2>3, <2>4, <2>6, <2>7, QuietAgrees
<1> QED  BY <1>4, <1>5

-----------------------------------------------------------------------------
(* New workspaces.                                                          *)

\* Ids never run out: beside any that are in use there is one without a rule.
Endless ==
  \A used \in SUBSET Ids :
    IsFiniteSet(used) => \E id \in Ids \ used : BoundTo[id] = NoMonitor

\* No workspace outlives its use, and the last monitor is not disabled.
Orderly == Persistent = {} /\ ~DisableLast

LEMMA MinIsMember ==
  ASSUME NEW S \in SUBSET Ids, S # {}
  PROVE  Min(S) \in S
<1>1. S \in SUBSET Nat
  BY Sorts
<1>2. \E k \in S : \A j \in S : k <= j
  BY <1>1, LeastNumber
<1> QED  BY <1>2 DEF Min

LEMMA FreshIds ==
  ASSUME Endless, NEW d \in Desk, NEW m \in Outputs
  PROVE  /\ Min(FreeFor(d, m)) \in FreeFor(d, m)
         /\ Min(UnboundFor(d, m)) \in UnboundFor(d, m)
<1>1. IsFiniteSet(Ids \cap Existing(d)) /\ Ids \cap Existing(d) \in SUBSET Ids
  BY DeskSets, FS_Intersection
<1>2. PICK id \in Ids \ (Ids \cap Existing(d)) : BoundTo[id] = NoMonitor
  BY <1>1 DEF Endless
<1>3. NoMonitor \notin Enabled(d)
  BY DeskSets, Sorts
<1>4. id \in FreeFor(d, m) /\ id \in UnboundFor(d, m)
  BY <1>2, <1>3 DEF FreeFor, UnboundFor, BoundMonitor
<1>5. FreeFor(d, m) \in SUBSET Ids /\ UnboundFor(d, m) \in SUBSET Ids
  BY DEF FreeFor, UnboundFor
<1>6. Min(FreeFor(d, m)) \in FreeFor(d, m)
  <2>1. FreeFor(d, m) # {}
    BY <1>4
  <2> QED  BY <1>5, <2>1, MinIsMember
<1>7. Min(UnboundFor(d, m)) \in UnboundFor(d, m)
  <2>1. UnboundFor(d, m) # {}
    BY <1>4
  <2> QED  BY <1>5, <2>1, MinIsMember
<1> QED  BY <1>6, <1>7

LEMMA CreatedIsAdded ==
  ASSUME NEW d \in Desk, NEW s \in Workspaces, NEW m, s \notin Existing(d)
  PROVE  \/ BoundMonitor(d, s) = NoMonitor /\ Created(d, s, m) = Added(d, s, m)
         \/ /\ BoundMonitor(d, s) \in Enabled(d)
            /\ Created(d, s, m) = Added(d, s, BoundMonitor(d, s))
<1>1. BoundMonitor(d, s) = NoMonitor \/ BoundMonitor(d, s) \in Enabled(d)
  BY DEF BoundMonitor
<1>2. CASE BoundMonitor(d, s) = NoMonitor
  <2>1. Created(d, s, m) = Added(d, s, m)
    BY <1>2 DEF Created, Added
  <2> QED  BY <1>2, <2>1
<1>3. CASE BoundMonitor(d, s) # NoMonitor
  <2>1. Created(d, s, m) = Added(d, s, BoundMonitor(d, s))
    BY <1>3 DEF Created, Added
  <2> QED  BY <1>1, <1>3, <2>1
<1> QED  BY <1>2, <1>3

\* What is shown when s leaves m: a workspace of m, or one made for it.
LEMMA GapPluggedBy ==
  ASSUME Endless, NEW d \in Desk, NEW s \in Existing(d), NEW m \in Outputs
  PROVE  \E t \in Ids, c \in Desk :
           /\ t # s /\ t \in Existing(c) /\ c.home[t] = m
           /\ \/ c = d
              \/ t \notin Existing(d) /\ c = Added(d, t, m)
           /\ GapPlugged(d, s, m) = Changed(c, m, t, FALSE)
<1> DEFINE own == Kept(d.order, {t \in Ids : d.home[t] = m /\ t # s})
<1>1. own \in Seq(Workspaces) /\ ToSet(own) = Existing(d) \cap {t \in Ids : d.home[t] = m /\ t # s}
  <2>1. d.order \in Seq(Workspaces)
    BY DeskFields
  <2> QED  BY <2>1, KeptMembers DEF Existing
<1>2. GapPlugged(d, s, m) = IF own # <<>> THEN Changed(d, m, own[1], FALSE)
                            ELSE ChangedToNew(d, m, Min(FreeFor(d, m)))
  BY DEF GapPlugged
<1> HIDE DEF own
<1>3. CASE own # <<>>
  <2>1. own[1] \in ToSet(own)
    BY <1>1, <1>3, ListMembers
  <2> QED  BY <1>1, <1>2, <1>3, <2>1
<1>4. CASE own = <<>>
  <2>1. PICK t : t = Min(FreeFor(d, m))
    OBVIOUS
  <2>2. t \in Ids /\ t \notin Existing(d) /\ BoundMonitor(d, t) \in {NoMonitor, m}
    BY <2>1, FreshIds DEF FreeFor
  <2>3. t \in Workspaces /\ t # s
    BY <2>2, Sorts
  <2>n. NoMonitor \notin Enabled(d)
    BY DeskSets, Sorts
  <2>4. Created(d, t, m) = Added(d, t, m)
    BY <2>2, <2>3, CreatedIsAdded, <2>n
  <2>5. PICK c : c = Added(d, t, m)
    OBVIOUS
  <2>6. c \in Desk /\ t \in Existing(c) /\ \A x \in Workspaces : c.home[x] = IF x = t THEN m ELSE d.home[x]
    BY <2>3, <2>5, AddedFields
  <2>7. c.home[t] = m
    BY <2>3, <2>6, DeskFields
  <2>8. GapPlugged(d, s, m) = Changed(c, m, t, FALSE)
    BY <1>2, <1>4, <2>1, <2>4, <2>5 DEF ChangedToNew
  <2> QED  BY <2>2, <2>3, <2>5, <2>6, <2>7, <2>8
<1> QED  BY <1>3, <1>4

-----------------------------------------------------------------------------
(***************************************************************************)
(* Moving workspaces.  Moves says what became of the desk d when those of  *)
(* V have gone to m, one after the other.                                  *)
(***************************************************************************)

\* What is shown, opened and lived on exists, torn or not.
Listed(d) ==
  /\ \A m \in Outputs : d.active[m] # NoWorkspace => d.active[m] \in Existing(d)
  /\ \A m \in Outputs : d.special[m] # NoWorkspace => d.special[m] \in Existing(d)
  /\ \A w \in Windows : d.on[w] # NoWorkspace => d.on[w] \in Existing(d)

\* Workspaces keep their monitor, but for those of V; new ones are where one of
\* V was.  Windows that are not pinned stay where they are.
HomesMove(d, e, V, m) ==
  /\ Existing(d) \subseteq Existing(e)
  /\ \A x \in Existing(d) : e.home[x] = IF x \in V THEN m ELSE d.home[x]
  /\ \A x \in Existing(e) \ Existing(d) :
       e.home[x] # m /\ e.home[x] \in Outputs /\ \E y \in V : e.home[x] = d.home[y]
  /\ \A w \in Windows \ d.pinned : e.on[w] = d.on[w]

\* What another monitor shows changes only when it goes.  What m shows changes
\* only when the focused monitor loses what it shows, to m.
ViewsMove(d, e, V, m) ==
  /\ \A n \in Outputs \ {m} :
       e.active[n] = d.active[n] \/ (d.active[n] \in V /\ d.home[d.active[n]] = n)
  /\ \/ /\ e.focused = d.focused /\ e.active[m] = d.active[m]
        /\ d.focused \in Outputs => e.active[d.focused] = d.active[d.focused]
     \/ /\ e.focused = m /\ d.focused \in Outputs /\ e.active[m] = d.active[d.focused]
        /\ d.active[d.focused] \in V /\ d.home[d.active[d.focused]] = d.focused

Moves(d, e, V, m) ==
  /\ e.enabled = d.enabled /\ e.pinned = d.pinned /\ (d.torn => e.torn)
  /\ HomesMove(d, e, V, m) /\ ViewsMove(d, e, V, m)

\* Whatever moves, lists stay whole, monitors stay lit, and what agrees does so
\* until it tears.
Follows(d, e, m) ==
  /\ e \in Desk
  /\ Listed(d) => Listed(e)
  /\ Lit(d) \subseteq Lit(e) /\ Lit(e) \subseteq Lit(d) \cup {m}
  /\ Orderly /\ Agrees(d) /\ ~e.torn => Agrees(e)

LEMMA GapPluggedFields ==
  ASSUME Endless, NEW d \in Desk, NEW s \in Existing(d), NEW m \in Outputs, d.active[m] = s,
         NEW g, g = GapPlugged(d, s, m)
  PROVE  /\ g \in Desk
         /\ g.enabled = d.enabled /\ g.back = d.back /\ g.special = d.special
         /\ g.focused = d.focused /\ g.screen = d.screen /\ g.pinned = d.pinned
         /\ g.torn = d.torn
         /\ \E t \in Ids :
              /\ t # s /\ Existing(g) = Existing(d) \cup {t} /\ g.home[t] = m
              /\ \A x \in Existing(d) : g.home[x] = d.home[x]
              /\ \A n \in Outputs : g.active[n] = IF n = m THEN t ELSE d.active[n]
              /\ \A w \in Windows : g.on[w] =
                           IF w \in d.pinned /\ d.on[w] = s THEN t ELSE d.on[w]
         /\ Agrees(d) => Agrees(g) /\ Lit(g) = Lit(d)
<1>1. PICK t \in Ids, c \in Desk :
         /\ t # s /\ t \in Existing(c) /\ c.home[t] = m
         /\ \/ c = d
            \/ t \notin Existing(d) /\ c = Added(d, t, m)
         /\ GapPlugged(d, s, m) = Changed(c, m, t, FALSE)
  BY GapPluggedBy
<1>2. t \in Workspaces /\ s \in Workspaces /\ s # NoWorkspace
  BY Sorts, DeskSets
<1>3. /\ c.enabled = d.enabled /\ c.back = d.back /\ c.visible = d.visible
      /\ c.active = d.active /\ c.special = d.special
      /\ c.focused = d.focused /\ c.on = d.on /\ c.screen = d.screen
      /\ c.pinned = d.pinned /\ c.torn = d.torn
      /\ Existing(c) = Existing(d) \cup {t}
      /\ \A x \in Existing(d) : c.home[x] = d.home[x]
      /\ Agrees(d) => Agrees(c)
  <2>1. CASE c = d
    BY <1>1, <2>1
  <2>2. CASE c # d
    <3>1. t \notin Existing(d) /\ c = Added(d, t, m)
      BY <1>1, <2>2
    <3>2. /\ Existing(c) = Existing(d) \cup {t}
          /\ \A x \in Workspaces : c.home[x] = IF x = t THEN m ELSE d.home[x]
          /\ c.enabled = d.enabled /\ c.back = d.back /\ c.visible = d.visible
          /\ c.active = d.active /\ c.special = d.special
          /\ c.focused = d.focused /\ c.on = d.on /\ c.screen = d.screen
          /\ c.pinned = d.pinned /\ c.torn = d.torn
      BY <1>2, <3>1, AddedFields
    <3>3. \A x \in Existing(d) : c.home[x] = d.home[x]
      BY <1>2, <3>1, <3>2, DeskFields, DeskSets
    <3>4. Agrees(d) => Agrees(c)
      BY <1>2, <3>1, AddedAgrees
    <3> QED  BY <3>2, <3>3, <3>4
  <2> QED  BY <2>1, <2>2
<1>4. PICK internal \in BOOLEAN : internal = FALSE
  OBVIOUS
<1>5. g = Changed(c, m, t, internal) /\ c.active[m] # t
  BY <1>1, <1>3, <1>4
<1>6. /\ g \in Desk
      /\ \A n \in Outputs : g.active[n] = IF n = m THEN t ELSE c.active[n]
      /\ \A w \in Windows : g.on[w] =
                   IF ~internal /\ w \in c.pinned /\ c.on[w] = c.active[m] /\ c.on[w] # NoWorkspace
                   THEN t ELSE c.on[w]
      /\ g.enabled = c.enabled /\ g.order = c.order /\ g.home = c.home
      /\ g.back = c.back /\ g.special = c.special /\ g.focused = c.focused
      /\ g.screen = c.screen /\ g.pinned = c.pinned /\ g.torn = c.torn
  BY <1>5, ChangedFields
<1>7. Existing(g) = Existing(c)
  BY <1>6 DEF Existing
<1>8. \A w \in Windows : g.on[w] = IF w \in d.pinned /\ d.on[w] = s THEN t ELSE d.on[w]
  BY <1>2, <1>3, <1>4, <1>6
<1>9. Agrees(d) => Agrees(g) /\ Lit(g) = Lit(d)
  <2> SUFFICES ASSUME Agrees(d)  PROVE Agrees(g) /\ Lit(g) = Lit(d)
    OBVIOUS
  <2>1. Agrees(c) /\ t \in Existing(c) /\ c.home[t] = m
    BY <1>1, <1>3
  <2>2. Agrees(g) /\ Lit(g) = Lit(c) \cup {m}
    BY <1>5, <2>1, ChangedAgrees
  <2>3. Lit(c) = Lit(d) /\ m \in Lit(d)
    BY <1>2, <1>3 DEF Lit
  <2> QED  BY <2>2, <2>3
<1>10. /\ t # s /\ Existing(g) = Existing(d) \cup {t} /\ g.home[t] = m
       /\ \A x \in Existing(d) : g.home[x] = d.home[x]
  <2>1. t # s /\ c.home[t] = m
    BY <1>1
  <2>2. g.home = c.home /\ Existing(g) = Existing(d) \cup {t}
    BY <1>3, <1>6, <1>7
  <2>3. \A x \in Existing(d) : c.home[x] = d.home[x]
    BY <1>3
  <2> QED  BY <2>1, <2>2, <2>3
<1>11. \A n \in Outputs : g.active[n] = IF n = m THEN t ELSE d.active[n]
  BY <1>3, <1>6
<1> QED  BY <1>3, <1>6, <1>8, <1>9, <1>10, <1>11

LEMMA MovedCases ==
  ASSUME NEW d \in Desk, NEW s, NEW m, NEW old, old = d.home[s]
  PROVE  \/ old = m /\ Moved(d, s, m) = d
         \/ /\ old # m /\ old # NoMonitor /\ d.active[old] = s
            /\ Moved(d, s, m) = Taken(GapPlugged(d, s, old), s, old, m)
         \/ /\ old # m /\ ~(old # NoMonitor /\ d.active[old] = s)
            /\ Moved(d, s, m) = Rehomed(d, s, m, s)
BY DEF Moved

\* A workspace that is not shown, or not any more, goes to another monitor.
LEMMA RehomedMoves ==
  ASSUME NEW d \in Desk, NEW s \in Existing(d), NEW m \in Outputs, d.home[s] # m,
         NEW stays \in Existing(d), NEW e, e = Rehomed(d, s, m, stays)
  PROVE  /\ e \in Desk /\ e.focused = d.focused /\ e.active = d.active /\ e.back = d.back
         /\ Moves(d, e, {s}, m)
         /\ Listed(d) => Listed(e)
         /\ Existing(e) = Existing(d) /\ e.home[s] = m
<1>0. s \in Workspaces /\ stays \in Workspaces
  BY DeskSets
<1>1. /\ e \in Desk
      /\ d.torn => e.torn
      /\ \A n \in Outputs : d.special[n] = s => e.torn
      /\ \A x \in Workspaces : e.home[x] = IF x = s THEN m ELSE d.home[x]
      /\ \A w \in Windows : e.on[w] =
                   IF d.on[w] = s /\ w \in d.pinned THEN stays ELSE d.on[w]
      /\ e.order = d.order /\ e.active = d.active /\ e.special = d.special
      /\ e.enabled = d.enabled /\ e.pinned = d.pinned /\ e.focused = d.focused
      /\ e.back = d.back
  BY <1>0, RehomedFields
<1>2. Existing(e) = Existing(d) /\ \A x \in Existing(d) : e.home[x] = IF x = s THEN m ELSE d.home[x]
  BY <1>1, DeskFields, DeskSets DEF Existing
<1>3. HomesMove(d, e, {s}, m)
  BY <1>1, <1>2 DEF HomesMove
<1>4. ViewsMove(d, e, {s}, m)
  BY <1>1 DEF ViewsMove
<1>5. Listed(d) => Listed(e)
  BY <1>1, <1>2 DEF Listed
<1>6. Moves(d, e, {s}, m)
  BY <1>1, <1>3, <1>4 DEF Moves
<1> QED  BY <1>1, <1>2, <1>5, <1>6

LEMMA MovedMoves ==
  ASSUME Endless, NEW d \in Desk, NEW s \in Existing(d), NEW m \in Outputs,
         NEW e, e = Moved(d, s, m)
  PROVE  Follows(d, e, m) /\ Moves(d, e, {s}, m) /\ e.back = d.back
<1>0. s \in Workspaces /\ s # NoWorkspace
  BY DeskSets, Sorts
<1>h. PICK old : old = d.home[s]
  OBVIOUS
<1>1. CASE old = m
  <2>1. e = d
    BY <1>h, <1>1 DEF Moved
  <2>2. HomesMove(d, d, {s}, m) /\ ViewsMove(d, d, {s}, m)
    BY <1>h, <1>1 DEF HomesMove, ViewsMove
  <2> QED  BY <2>1, <2>2 DEF Moves, Follows
<1>2. CASE old # m /\ ~(old # NoMonitor /\ d.active[old] = s)
  <2>1. e = Rehomed(d, s, m, s)
    BY <1>h, <1>2, MovedCases
  <2>2. /\ e \in Desk /\ Moves(d, e, {s}, m) /\ (Listed(d) => Listed(e))
        /\ e.back = d.back /\ e.active = d.active
    BY <1>h, <1>2, <2>1, RehomedMoves
  <2>3. Agrees(d) => \A n \in Outputs : d.active[n] # s
    BY <1>h, <1>0, <1>2, Sorts DEF Agrees, ShowsOwn
  <2>4. Agrees(d) /\ ~e.torn => Agrees(e) /\ Lit(e) = Lit(d)
    BY <2>1, <2>3, RehomedAgrees
  <2>5. Lit(e) = Lit(d)
    BY <2>2 DEF Lit
  <2> QED  BY <2>2, <2>4, <2>5 DEF Follows
<1>3. CASE old # m /\ old # NoMonitor /\ d.active[old] = s
  <2>1. PICK g : g = GapPlugged(d, s, old)
    OBVIOUS
  <2>2. e = Taken(g, s, old, m)
    BY <1>h, <1>3, <2>1, MovedCases
  <2>3. old \in Outputs /\ s \in Ids
    BY <1>h, <1>0, <1>3, DeskFields
  <2>4. /\ g \in Desk
        /\ g.enabled = d.enabled /\ g.special = d.special
        /\ g.focused = d.focused /\ g.pinned = d.pinned
        /\ g.torn = d.torn /\ g.back = d.back
        /\ \E t \in Ids :
              /\ t # s /\ Existing(g) = Existing(d) \cup {t} /\ g.home[t] = old
              /\ \A x \in Existing(d) : g.home[x] = d.home[x]
              /\ \A n \in Outputs : g.active[n] = IF n = old THEN t ELSE d.active[n]
              /\ \A w \in Windows : g.on[w] =
                           IF w \in d.pinned /\ d.on[w] = s THEN t ELSE d.on[w]
        /\ Agrees(d) => Agrees(g) /\ Lit(g) = Lit(d)
    BY <1>3, <2>1, <2>3, GapPluggedFields
  <2>5. PICK t \in Ids :
              /\ t # s /\ Existing(g) = Existing(d) \cup {t} /\ g.home[t] = old
              /\ \A x \in Existing(d) : g.home[x] = d.home[x]
              /\ \A n \in Outputs : g.active[n] = IF n = old THEN t ELSE d.active[n]
              /\ \A w \in Windows : g.on[w] =
                           IF w \in d.pinned /\ d.on[w] = s THEN t ELSE d.on[w]
    BY <2>4
  <2>6. \A n \in Outputs : g.active[n] = IF n = old THEN t ELSE d.active[n]
    BY <2>5, DeskFields
  <2>7. PICK r : r = Rehomed(g, s, m, t)
    OBVIOUS
  <2>8. e = IF old = g.focused THEN Shown(r, s, m) ELSE r
    BY <2>2, <2>3, <2>6, <2>7 DEF Taken
  <2>9. s \in Existing(g) /\ t \in Existing(g) /\ g.home[s] # m
    BY <1>h, <1>3, <2>5
  <2>10. /\ r \in Desk /\ r.focused = g.focused /\ r.active = g.active /\ r.back = g.back
         /\ Moves(g, r, {s}, m)
         /\ Listed(g) => Listed(r)
         /\ Existing(r) = Existing(g) /\ r.home[s] = m
    <3>1. g \in Desk
      BY <2>4
    <3>2. s \in Existing(g) /\ t \in Existing(g) /\ g.home[s] # m /\ m \in Outputs
      BY <2>9
    <3>3. /\ r \in Desk /\ r.focused = g.focused /\ r.active = g.active /\ r.back = g.back
          /\ r.order = g.order /\ \A x \in Workspaces : r.home[x] = IF x = s THEN m ELSE g.home[x]
      <4>1. t \in Workspaces
        BY Sorts
      <4> QED  BY <1>0, <2>7, <3>1, <4>1, RehomedFields, SMTT(60)
    <3>4. Moves(g, r, {s}, m)
      BY <2>7, <3>1, <3>2, RehomedMoves
    <3>5. Listed(g) => Listed(r)
      BY <2>7, <3>1, <3>2, RehomedMoves
    <3>6. Existing(r) = Existing(g) /\ r.home[s] = m
      BY <1>0, <3>3 DEF Existing
    <3> QED  BY <3>3, <3>4, <3>5, <3>6
  <2>11. /\ r.enabled = d.enabled /\ r.pinned = d.pinned /\ (d.torn => r.torn)
         /\ \A x \in Existing(g) : r.home[x] = IF x \in {s} THEN m ELSE g.home[x]
         /\ \A w \in Windows \ g.pinned : r.on[w] = g.on[w]
    BY <2>4, <2>10 DEF Moves, HomesMove
  <2>12. HomesMove(d, r, {s}, m)
    <3>1. \A x \in Existing(r) \ Existing(d) : x = t
      BY <2>5, <2>10
    <3>2. r.home[t] = old
      BY <2>5, <2>9, <2>11
    <3>3. \A w \in Windows \ d.pinned : r.on[w] = d.on[w]
      BY <2>4, <2>5, <2>11
    <3>4. \A x \in Existing(d) : r.home[x] = IF x \in {s} THEN m ELSE d.home[x]
      BY <2>5, <2>11
    <3> QED  BY <1>h, <1>3, <2>3, <2>5, <2>10, <3>1, <3>2, <3>3, <3>4 DEF HomesMove
  <2>13. \A n \in Outputs : n # old => r.active[n] = d.active[n]
    BY <2>6, <2>10
  <2>14. Listed(d) => Listed(r)
    <3> SUFFICES ASSUME Listed(d)  PROVE Listed(g)
      BY <2>10
    <3>1. \A w \in Windows : g.on[w] = t \/ g.on[w] = d.on[w]
      BY <2>5
    <3> QED  BY <2>4, <2>5, <2>6, <3>1 DEF Listed
  <2>15. Agrees(d) /\ ~r.torn => Agrees(r) /\ Lit(r) = Lit(d)
    <3> SUFFICES ASSUME Agrees(d), ~r.torn  PROVE Agrees(r) /\ Lit(r) = Lit(d)
      OBVIOUS
    <3>1. \A n \in Outputs : g.active[n] # s
      BY <1>h, <1>0, <2>5, <2>6 DEF Agrees, ShowsOwn
    <3>2. g \in Desk /\ Agrees(g) /\ Lit(g) = Lit(d)
      BY <2>4
    <3> QED  BY <2>7, <2>9, <3>1, <3>2, RehomedAgrees
  <2>16. CASE old # g.focused
    <3>1. e = r
      BY <2>8, <2>16
    <3>2. ViewsMove(d, r, {s}, m)
      BY <1>h, <1>3, <2>3, <2>4, <2>10, <2>13, <2>16 DEF ViewsMove
    <3>3. Lit(r) = Lit(d)
      BY <1>0, <1>3, <2>3, <2>6, <2>10, Sorts DEF Lit
    <3> QED  BY <2>4, <2>10, <2>11, <2>12, <2>14, <2>15, <3>1, <3>2, <3>3 DEF Moves, Follows
  <2>17. CASE old = g.focused
    <3>1. e = Shown(r, s, m)
      BY <2>8, <2>17
    <3>2. /\ e \in Desk /\ e.focused = m /\ \A n \in Outputs : e.active[n] = IF n = m THEN s ELSE r.active[n]
          /\ \A n \in Outputs : e.special[n] = IF HideSpecial /\ n = m THEN NoWorkspace ELSE r.special[n]
          /\ e.enabled = r.enabled /\ e.order = r.order /\ e.home = r.home
          /\ e.on = r.on /\ e.pinned = r.pinned /\ e.torn = r.torn /\ e.back = r.back
      <4>1. r \in Desk /\ s \in Ids
        BY <2>3, <2>10
      <4>2. e \in Desk /\ e.focused = m
        BY <3>1, <4>1, ShownFields, SMTT(60)
      <4>3. \A n \in Outputs : e.active[n] = IF n = m THEN s ELSE r.active[n]
        BY <3>1, <4>1, ShownFields, SMTT(60)
      <4>4. \A n \in Outputs : e.special[n] = IF HideSpecial /\ n = m THEN NoWorkspace ELSE r.special[n]
        BY <3>1, <4>1, ShownFields, SMTT(60)
      <4>5. /\ e.enabled = r.enabled /\ e.order = r.order /\ e.home = r.home
            /\ e.on = r.on /\ e.pinned = r.pinned /\ e.back = r.back
        BY <3>1, <4>1, ShownFields, SMTT(60)
      <4>6. e.torn = r.torn
        BY <3>1, <4>1, ShownFields, SMTT(60)
      <4> QED  BY <4>2, <4>3, <4>4, <4>5, <4>6
    <3>3. Existing(e) = Existing(r) /\ \A n \in Outputs : e.active[n] = IF n = m THEN s ELSE r.active[n]
      BY <2>10, <3>2, DeskFields DEF Existing
    <3>4. HomesMove(d, e, {s}, m)
      BY <2>12, <3>2, <3>3 DEF HomesMove
    <3>5. ViewsMove(d, e, {s}, m)
      <4>1. d.focused = old /\ e.active[m] = d.active[old] /\ d.home[s] = old
        BY <1>h, <1>3, <2>4, <2>17, <3>3
      <4>2. \A n \in Outputs \ {m} : e.active[n] = d.active[n] \/ n = old
        BY <2>13, <3>3
      <4> QED  BY <1>3, <2>3, <3>2, <4>1, <4>2 DEF ViewsMove
    <3>6. Listed(d) => Listed(e)
      <4>1. \A n \in Outputs : e.special[n] = NoWorkspace \/ e.special[n] = r.special[n]
        BY <2>10, <3>2, DeskFields
      <4>2. s \in Existing(e)
        BY <2>9, <2>10, <3>3
      <4> QED  BY <2>14, <3>2, <3>3, <4>1, <4>2 DEF Listed
    <3>7. Agrees(d) /\ ~e.torn => Agrees(e)
      <4>1. s \in Existing(r)
        BY <2>9, <2>10
      <4>2. Agrees(r) => Agrees(e) /\ Lit(e) = Lit(r) \cup {m}
        BY <2>3, <2>10, <3>1, <4>1, ShownAgrees
      <4> QED  BY <2>15, <3>2, <4>2
    <3>8. Lit(e) = Lit(d) \cup {m}
      BY <1>0, <1>3, <2>3, <2>6, <2>10, <3>3, Sorts DEF Lit
    <3> QED  BY <2>4, <2>10, <2>11, <3>2, <3>4, <3>5, <3>6, <3>7, <3>8 DEF Moves, Follows
  <2> QED  BY <2>16, <2>17
<1> QED  BY <1>1, <1>2, <1>3

LEMMA MovesNowhere ==
  ASSUME NEW d \in Desk, NEW m \in Outputs
  PROVE  Moves(d, d, {}, m)
BY DEF Moves, HomesMove, ViewsMove

\* One more goes.
LEMMA MovesOn ==
  ASSUME NEW d \in Desk, NEW t \in Desk, NEW e \in Desk, NEW m \in Outputs,
         NEW V \in SUBSET Existing(d), NEW s \in Existing(d),
         Moves(d, t, V, m), Moves(t, e, {s}, m)
  PROVE  Moves(d, e, V \cup {s}, m)
<1>1. /\ t.enabled = d.enabled /\ t.pinned = d.pinned /\ (d.torn => t.torn)
      /\ e.enabled = t.enabled /\ e.pinned = t.pinned /\ (t.torn => e.torn)
  BY DEF Moves
<1>2. /\ Existing(d) \subseteq Existing(t)
      /\ \A x \in Existing(d) : t.home[x] = IF x \in V THEN m ELSE d.home[x]
      /\ \A x \in Existing(t) \ Existing(d) :
           t.home[x] # m /\ t.home[x] \in Outputs /\ \E y \in V : t.home[x] = d.home[y]
      /\ \A w \in Windows \ d.pinned : t.on[w] = d.on[w]
  BY DEF Moves, HomesMove
<1>3. /\ Existing(t) \subseteq Existing(e)
      /\ \A x \in Existing(t) : e.home[x] = IF x = s THEN m ELSE t.home[x]
      /\ \A x \in Existing(e) \ Existing(t) :
           e.home[x] # m /\ e.home[x] \in Outputs /\ e.home[x] = t.home[s]
      /\ \A w \in Windows \ d.pinned : e.on[w] = t.on[w]
  BY <1>1 DEF Moves, HomesMove
<1>4. HomesMove(d, e, V \cup {s}, m)
  <2>1. \A x \in Existing(d) : e.home[x] = IF x \in V \cup {s} THEN m ELSE d.home[x]
    BY <1>2, <1>3
  <2>2. ASSUME NEW x \in Existing(e) \ Existing(d)
        PROVE  /\ e.home[x] # m /\ e.home[x] \in Outputs
               /\ \E y \in V \cup {s} : e.home[x] = d.home[y]
    <3>1. CASE x \in Existing(t)
      BY <1>2, <1>3, <3>1
    <3>2. CASE x \notin Existing(t)
      <4>1. e.home[x] # m /\ e.home[x] \in Outputs /\ e.home[x] = t.home[s]
        BY <1>3, <3>2
      <4>2. t.home[s] = d.home[s]
        BY <1>2, <4>1
      <4> QED  BY <4>1, <4>2
    <3> QED  BY <3>1, <3>2
  <2> QED  BY <1>2, <1>3, <2>1, <2>2 DEF HomesMove
<1>5. \A n \in Outputs \ {m} :
        e.active[n] = d.active[n] \/ (d.active[n] \in V \cup {s} /\ d.home[d.active[n]] = n)
  <2> SUFFICES ASSUME NEW n \in Outputs \ {m}, e.active[n] # d.active[n]
               PROVE  d.active[n] \in V \cup {s} /\ d.home[d.active[n]] = n
    OBVIOUS
  <2>1. t.active[n] = d.active[n] \/ (d.active[n] \in V /\ d.home[d.active[n]] = n)
    BY DEF Moves, ViewsMove
  <2>2. e.active[n] = t.active[n] \/ (t.active[n] = s /\ t.home[s] = n)
    BY DEF Moves, ViewsMove
  <2>3. CASE t.active[n] = d.active[n]
    BY <1>2, <2>2, <2>3
  <2> QED  BY <2>1, <2>3
<1>6. \/ /\ e.focused = d.focused /\ e.active[m] = d.active[m]
         /\ d.focused \in Outputs => e.active[d.focused] = d.active[d.focused]
      \/ /\ e.focused = m /\ d.focused \in Outputs /\ e.active[m] = d.active[d.focused]
         /\ d.active[d.focused] \in V \cup {s} /\ d.home[d.active[d.focused]] = d.focused
  <2>1. \/ /\ t.focused = d.focused /\ t.active[m] = d.active[m]
           /\ d.focused \in Outputs => t.active[d.focused] = d.active[d.focused]
        \/ /\ t.focused = m /\ d.focused \in Outputs /\ t.active[m] = d.active[d.focused]
           /\ d.active[d.focused] \in V /\ d.home[d.active[d.focused]] = d.focused
    BY DEF Moves, ViewsMove
  <2>2. \/ /\ e.focused = t.focused /\ e.active[m] = t.active[m]
           /\ t.focused \in Outputs => e.active[t.focused] = t.active[t.focused]
        \/ /\ e.focused = m /\ t.focused \in Outputs /\ e.active[m] = t.active[t.focused]
           /\ t.active[t.focused] = s /\ t.home[s] = t.focused
    BY DEF Moves, ViewsMove
  <2>3. t.home[s] = m \/ t.home[s] = d.home[s]
    BY <1>2
  <2> QED  BY <2>1, <2>2, <2>3
<1> QED  BY <1>1, <1>4, <1>5, <1>6 DEF Moves, ViewsMove

LEMMA AllMovedMoves ==
  ASSUME Endless, NEW d \in Desk, NEW S, NEW m \in Outputs,
         NEW back \in Outputs \cup {NoMonitor}, NEW e, e = AllMoved(d, S, m, back)
  PROVE  Follows(d, e, m) /\ Moves(d, e, Existing(d) \cap S, m)
<1> DEFINE N == Len(d.order)
           Goes(t, x) == IF x \in S THEN Moved([t EXCEPT !.back[x] = back], x, m) ELSE t
           T == {t \in Desk : Existing(d) \subseteq Existing(t)}
           Recurs(f) == f = [i \in 0..N |->
                               IF i = 0 THEN d
                               ELSE IF d.order[i] \in S
                                    THEN Moved([f[i - 1] EXCEPT !.back[d.order[i]] = back], d.order[i], m)
                                    ELSE f[i - 1]]
           G == [p \in T \X (1..N) |-> Goes(p[1], d.order[p[2]])]
<1>0. d.order \in Seq(Workspaces)
  BY DeskFields
<1>1. /\ N \in Nat /\ Existing(d) = {d.order[i] : i \in 1..N} /\ Existing(d) \subseteq Workspaces
  BY <1>0, ListMembers DEF Existing
<1>2. \A t \in T, i \in 1..N : G[<<t, i>>] = Goes(t, d.order[i])
  OBVIOUS
<1>3. e = (CHOOSE f : Recurs(f))[N]
  BY DEF AllMoved
<1>4. \A f : Recurs(f) <=> f = [i \in 0..N |->
                               IF i = 0 THEN d ELSE Goes(f[i - 1], d.order[i])]
  OBVIOUS
<1>5. ASSUME NEW t \in T, NEW x \in Existing(d)
      PROVE  /\ Follows(t, Goes(t, x), m) /\ Goes(t, x) \in T
             /\ Moves(t, Goes(t, x), Existing(d) \cap S \cap {x}, m)
  <2>1. CASE x \notin S
    <3>1. Goes(t, x) = t /\ Existing(d) \cap S \cap {x} = {}
      BY <2>1
    <3>2. Follows(t, t, m)
      BY DEF Follows
    <3> QED  BY <3>1, <3>2, MovesNowhere
  <2>2. CASE x \in S
    <3>1. PICK b : b = [t EXCEPT !.back[x] = back]
      OBVIOUS
    <3>2. x \in Workspaces
      BY <1>1
    <3>3. /\ b \in Desk /\ b.enabled = t.enabled /\ b.order = t.order /\ b.home = t.home
          /\ b.visible = t.visible /\ b.active = t.active /\ b.screen = t.screen
          /\ b.special = t.special /\ b.focused = t.focused /\ b.on = t.on
          /\ b.pinned = t.pinned /\ b.torn = t.torn
      BY <3>1, <3>2, BackFields
    <3>4. Existing(b) = Existing(t)
      BY <3>3 DEF Existing
    <3>5. PICK u : u = Moved(b, x, m)
      OBVIOUS
    <3>6. Follows(b, u, m) /\ Moves(b, u, {x}, m)
      <4>1. x \in Existing(b) /\ b \in Desk
        BY <3>3, <3>4
      <4> QED  BY <3>5, <4>1, MovedMoves
    <3>7. Moves(t, u, {x}, m)
      BY <3>3, <3>4, <3>6 DEF Moves, HomesMove, ViewsMove
    <3>8. (Listed(t) => Listed(b)) /\ Lit(b) = Lit(t)
      BY <3>3, <3>4 DEF Listed, Lit
    <3>9. Agrees(t) => Agrees(b)
      BY <3>3, <3>4, QuietAgrees
    <3>10. Follows(t, u, m)
      BY <3>6, <3>8, <3>9 DEF Follows
    <3>11. u \in T
      BY <3>6, <3>7 DEF Moves, HomesMove, Follows
    <3>12. Goes(t, x) = u /\ Existing(d) \cap S \cap {x} = {x}
      BY <2>2, <3>1, <3>5
    <3> QED  BY <3>7, <3>10, <3>11, <3>12
  <2> QED  BY <2>1, <2>2
<1>6. d \in T
  OBVIOUS
<1> HIDE DEF N, G, Recurs, Goes, T
<1>7. LeadsOn(G, N, T)
  BY <1>1, <1>2, <1>5 DEF LeadsOn
<1>8. PICK g : IsWalk(g, G, N, T, d)
  BY <1>1, <1>6, <1>7, WalkExists
<1>9. /\ g \in [0..N -> T] /\ g[0] = d
      /\ \A i \in 1..N : g[i] = G[<<g[i - 1], i>>]
  BY <1>8 DEF IsWalk
<1>10. \A i \in 1..N : i - 1 \in 0..N /\ i \in 0..N /\ i # 0 /\ d.order[i] \in Existing(d)
  BY <1>1
<1>11. \A i \in 1..N : g[i] = Goes(g[i - 1], d.order[i])
  BY <1>2, <1>9, <1>10
<1>12. \A i \in 0..N : i = 0 \/ i \in 1..N
  BY <1>1
<1>13. Recurs(g)
  <2>1. g = [i \in 0..N |-> IF i = 0 THEN d ELSE Goes(g[i - 1], d.order[i])]
    BY <1>9, <1>11, <1>12
  <2> QED  BY <1>4, <2>1
<1> DEFINE f == CHOOSE h : Recurs(h)
<1>14. Recurs(f)
  BY <1>13
<1> HIDE DEF f
<1>15. f[0] = d /\ \A i \in 1..N : f[i] = Goes(f[i - 1], d.order[i])
  <2>1. f = [i \in 0..N |-> IF i = 0 THEN d ELSE Goes(f[i - 1], d.order[i])]
    BY <1>4, <1>14
  <2>2. 0 \in 0..N
    BY <1>1
  <2>3. f[0] = d
    BY <2>1, <2>2
  <2>4. ASSUME NEW i \in 1..N  PROVE f[i] = Goes(f[i - 1], d.order[i])
    BY <1>10, <2>1
  <2> QED  BY <2>3, <2>4
<1> DEFINE Gone1(n) == Existing(d) \cap S \cap {d.order[i] : i \in 1..n}
           P == {n \in 0..N : f[n] \in T /\ Follows(d, f[n], m) /\ Moves(d, f[n], Gone1(n), m)}
<1>16. 0 \in P
  <2>1. 0 \in 0..N /\ Gone1(0) = {}
    BY <1>1
  <2>2. Follows(d, d, m) /\ Moves(d, d, {}, m)
    BY MovesNowhere DEF Follows
  <2> HIDE DEF Gone1
  <2> QED  BY <1>6, <1>15, <2>1, <2>2
<1>17. \A n \in 0..N : n \in P /\ n < N => n + 1 \in P
  <2> SUFFICES ASSUME NEW n \in 0..N, n \in P, n < N  PROVE n + 1 \in P
    OBVIOUS
  <2>1. n + 1 \in 1..N /\ (n + 1) - 1 = n /\ n + 1 \in 0..N
    BY <1>1
  <2>2. PICK x : x = d.order[n + 1]
    OBVIOUS
  <2>3. f[n + 1] = Goes(f[n], x) /\ x \in Existing(d)
    BY <1>10, <1>15, <2>1, <2>2
  <2>4. Gone1(n + 1) = Gone1(n) \cup (Existing(d) \cap S \cap {x})
    <3>1. \A i \in 1..(n + 1) : i \in 1..n \/ i = n + 1
      BY <1>1
    <3>2. n + 1 \in 1..(n + 1) /\ \A i \in 1..n : i \in 1..(n + 1)
      BY <1>1
    <3> QED  BY <2>2, <3>1, <3>2
  <2>5. f[n] \in T /\ Follows(d, f[n], m) /\ Moves(d, f[n], Gone1(n), m) /\ Gone1(n) \in SUBSET Existing(d)
    OBVIOUS
  <2> HIDE DEF Gone1
  <2>6. /\ f[n + 1] \in T /\ Follows(f[n], f[n + 1], m)
        /\ Moves(f[n], f[n + 1], Existing(d) \cap S \cap {x}, m)
    BY <1>5, <2>3, <2>5
  <2>7. f[n] \in Desk /\ f[n + 1] \in Desk
    BY <2>5, <2>6 DEF Follows
  <2>8. Moves(d, f[n + 1], Gone1(n + 1), m)
    <3>1. CASE x \in S
      <4>1. Existing(d) \cap S \cap {x} = {x}
        BY <2>3, <3>1
      <4> QED  BY <2>3, <2>4, <2>5, <2>6, <2>7, <4>1, MovesOn
    <3>2. CASE x \notin S
      <4>1. Gone1(n + 1) = Gone1(n)
        BY <2>4, <3>2
      <4>2. f[n + 1] = f[n]
        BY <2>3, <3>2 DEF Goes
      <4> QED  BY <2>5, <4>1, <4>2
    <3> QED  BY <3>1, <3>2
  <2>9. Follows(d, f[n + 1], m)
    <3>1. ~f[n + 1].torn => ~f[n].torn
      BY <2>6 DEF Moves
    <3> QED  BY <2>5, <2>6, <3>1 DEF Follows
  <2> QED  BY <2>1, <2>6, <2>8, <2>9
<1> HIDE DEF P
<1>18. N \in P
  <2>1. 0..N \subseteq P
    BY <1>1, <1>16, <1>17, CountingUp
  <2>2. N \in 0..N
    BY <1>1
  <2> QED  BY <2>1, <2>2
<1>19. Follows(d, f[N], m) /\ Moves(d, f[N], Gone1(N), m)
  BY <1>18 DEF P
<1>20. Gone1(N) = Existing(d) \cap S
  BY <1>1
<1>21. e = f[N]
  BY <1>3 DEF f
<1> HIDE DEF Gone1
<1> QED  BY <1>19, <1>20, <1>21

-----------------------------------------------------------------------------
(***************************************************************************)
(* A monitor comes.  Settles says how a desk changes while m gets its      *)
(* workspaces, those of V: windows that are not pinned take the workspace  *)
(* they are on with them, and no other monitor shows anything else, but    *)
(* for what went.                                                          *)
(***************************************************************************)

Lived(d, x) == x \in Existing(d) /\ \E w \in Windows \ d.pinned : d.on[w] = x

Settles(d, e, V, m) ==
  /\ Follows(d, e, m)
  /\ e.enabled = d.enabled /\ e.pinned = d.pinned /\ (d.torn => e.torn)
  /\ \A w \in Windows \ d.pinned : e.on[w] = d.on[w]
  /\ \A x \in Existing(e) : e.home[x] = m \/ \E y \in Existing(d) : e.home[x] = d.home[y]
  /\ \A x : Lived(d, x) =>
       x \in Existing(e) /\ (x \in V \/ d.home[x] = m => e.home[x] = m)
  /\ \A n \in Outputs \ {m} : e.active[n] = d.active[n] \/ d.active[n] \in V

LEMMA SettlesOn ==
  ASSUME NEW d \in Desk, NEW t, NEW e, NEW m \in Outputs, NEW V, NEW W,
         Settles(d, t, V, m), Settles(t, e, W, m)
  PROVE  Settles(d, e, V \cup W, m)
<1>1. Follows(d, e, m)
  <2>1. ~e.torn => ~t.torn
    BY DEF Settles
  <2> QED  BY <2>1 DEF Settles, Follows
<1>2. e.enabled = d.enabled /\ e.pinned = d.pinned /\ (d.torn => e.torn)
  BY DEF Settles
<1>3. \A w \in Windows \ d.pinned : t.on[w] = d.on[w] /\ e.on[w] = d.on[w]
  BY DEF Settles
<1>4. \A x \in Existing(e) : e.home[x] = m \/ \E y \in Existing(d) : e.home[x] = d.home[y]
  <2> TAKE x \in Existing(e)
  <2>1. e.home[x] = m \/ \E y \in Existing(t) : e.home[x] = t.home[y]
    BY DEF Settles
  <2>2. \A y \in Existing(t) : t.home[y] = m \/ \E z \in Existing(d) : t.home[y] = d.home[z]
    BY DEF Settles
  <2> QED  BY <2>1, <2>2
<1>5. ASSUME NEW x, Lived(d, x)
      PROVE  x \in Existing(e) /\ (x \in V \cup W \/ d.home[x] = m => e.home[x] = m)
  <2>1. x \in Existing(t) /\ (x \in V \/ d.home[x] = m => t.home[x] = m)
    BY <1>5 DEF Settles
  <2>2. Lived(t, x)
    <3>1. t.pinned = d.pinned
      BY DEF Settles
    <3> QED  BY <1>3, <1>5, <2>1, <3>1 DEF Lived
  <2>3. x \in Existing(e) /\ (x \in W \/ t.home[x] = m => e.home[x] = m)
    BY <2>2 DEF Settles
  <2> QED  BY <2>1, <2>3
<1>6. \A n \in Outputs \ {m} : e.active[n] = d.active[n] \/ d.active[n] \in V \cup W
  BY DEF Settles
<1> QED  BY <1>1, <1>2, <1>3, <1>4, <1>5, <1>6 DEF Settles

LEMMA MovesSettle ==
  ASSUME NEW d \in Desk, NEW e, NEW m \in Outputs, NEW V \in SUBSET Existing(d),
         Follows(d, e, m), Moves(d, e, V, m)
  PROVE  Settles(d, e, V, m)
<1>1. /\ Existing(d) \subseteq Existing(e)
      /\ \A x \in Existing(d) : e.home[x] = IF x \in V THEN m ELSE d.home[x]
      /\ \A x \in Existing(e) \ Existing(d) : \E y \in V : e.home[x] = d.home[y]
      /\ \A w \in Windows \ d.pinned : e.on[w] = d.on[w]
  BY DEF Moves, HomesMove
<1>2. \A x \in Existing(e) : e.home[x] = m \/ \E y \in Existing(d) : e.home[x] = d.home[y]
  BY <1>1
<1>3. \A n \in Outputs \ {m} : e.active[n] = d.active[n] \/ d.active[n] \in V
  BY DEF Moves, ViewsMove
<1>4. \A x : Lived(d, x) => x \in Existing(e) /\ (x \in V \/ d.home[x] = m => e.home[x] = m)
  BY <1>1 DEF Lived
<1>5. e.enabled = d.enabled /\ e.pinned = d.pinned /\ (d.torn => e.torn)
  BY DEF Moves
<1> QED  BY <1>1, <1>2, <1>3, <1>4, <1>5 DEF Settles

\* What leaves workspaces and windows alone.
LEMMA QuietSettles ==
  ASSUME NEW d \in Desk, NEW e \in Desk, NEW m \in Outputs, e.order = d.order,
         e.enabled = d.enabled, e.home = d.home, e.visible = d.visible, e.active = d.active,
         e.special = d.special, e.on = d.on, e.screen = d.screen, e.pinned = d.pinned,
         e.torn = d.torn
  PROVE  Settles(d, e, {}, m)
<1>1. Existing(e) = Existing(d)
  BY DEF Existing
<1>2. Agrees(d) => Agrees(e)
  BY <1>1, QuietAgrees
<1>3. Follows(d, e, m)
  BY <1>1, <1>2 DEF Follows, Listed, Lit
<1> QED  BY <1>1, <1>3 DEF Settles, Lived

\* A collection leaves what is held.
LEMMA CollectedFields ==
  ASSUME NEW d \in Desk, NEW e, e = Collected(d)
  PROVE  /\ e \in Desk
         /\ Existing(e) = Existing(d) \cap Held(d)
         /\ \A x \in Existing(e) : e.home[x] = d.home[x] /\ e.back[x] = d.back[x]
         /\ e.visible = d.visible \cap Existing(e)
         /\ e.enabled = d.enabled /\ e.active = d.active /\ e.special = d.special
         /\ e.focused = d.focused /\ e.on = d.on /\ e.screen = d.screen
         /\ e.pinned = d.pinned /\ e.torn = d.torn
<1>1. PICK alive : alive = {s \in Existing(d) : s \in Held(d)}
  OBVIOUS
<1>2. PICK order : order = Kept(d.order, alive)
  OBVIOUS
<1>3. order \in Seq(Workspaces) /\ ToSet(order) = Existing(d) \cap alive
  <2>1. d.order \in Seq(Workspaces)
    BY DeskFields
  <2> QED  BY <1>2, <2>1, KeptMembers DEF Existing
<1>4. e = [d EXCEPT !.order = order,
               !.home = [s \in Workspaces |-> IF s \in alive THEN @[s] ELSE NoMonitor],
               !.back = [s \in Workspaces |-> IF s \in alive THEN @[s] ELSE NoMonitor],
               !.visible = @ \cap alive]
  BY <1>1, <1>2 DEF Collected
<1>5. /\ e.order = order /\ e.visible = d.visible \cap alive
      /\ e.home = [s \in Workspaces |-> IF s \in alive THEN d.home[s] ELSE NoMonitor]
      /\ e.back = [s \in Workspaces |-> IF s \in alive THEN d.back[s] ELSE NoMonitor]
      /\ e.enabled = d.enabled /\ e.active = d.active /\ e.special = d.special
      /\ e.focused = d.focused /\ e.on = d.on /\ e.screen = d.screen
      /\ e.pinned = d.pinned /\ e.torn = d.torn
  BY <1>4 DEF Desk
<1>6. e \in Desk
  <2>1. PICK h : h = [s \in Workspaces |-> IF s \in alive THEN d.home[s] ELSE NoMonitor]
    OBVIOUS
  <2>2. PICK b : b = [s \in Workspaces |-> IF s \in alive THEN d.back[s] ELSE NoMonitor]
    OBVIOUS
  <2>3. PICK v : v = d.visible \cap alive
    OBVIOUS
  <2>4. e = [d EXCEPT !.order = order, !.home = h, !.back = b, !.visible = v]
    BY <1>4, <2>1, <2>2, <2>3
  <2>5. /\ h \in [Workspaces -> Outputs \cup {NoMonitor}]
        /\ b \in [Workspaces -> Outputs \cup {NoMonitor}]
        /\ v \in SUBSET Workspaces
    BY <2>1, <2>2, <2>3, DeskFields
  <2> QED  BY <1>3, <2>4, <2>5 DEF Desk
<1>7. Existing(e) = alive /\ alive = Existing(d) \cap Held(d) /\ alive \subseteq Workspaces
  BY <1>1, <1>3, <1>5, DeskSets DEF Existing
<1> QED  BY <1>5, <1>6, <1>7

LEMMA HeldMembers ==
  ASSUME NEW d \in Desk
  PROVE  /\ \A n \in Outputs : d.active[n] \in Held(d) /\ d.special[n] \in Held(d)
         /\ \A w \in Windows : d.on[w] \in Held(d)
         /\ \A x \in Held(d) : \/ \E n \in Outputs : d.active[n] = x \/ d.special[n] = x
                               \/ \E w \in Windows : d.on[w] = x
                               \/ x \in Persistent
BY DeskFields DEF Held, Range

LEMMA CollectedAgrees ==
  ASSUME NEW d \in Desk, NEW e, e = Collected(d)
  PROVE  /\ Agrees(d) => Agrees(e)
         /\ Listed(d) => Listed(e)
         /\ Lit(e) = Lit(d)
<1>1. /\ e \in Desk
      /\ Existing(e) = Existing(d) \cap Held(d)
      /\ \A x \in Existing(e) : e.home[x] = d.home[x]
      /\ e.visible = d.visible \cap Existing(e)
      /\ e.active = d.active /\ e.special = d.special
      /\ e.on = d.on /\ e.screen = d.screen /\ e.pinned = d.pinned
  BY CollectedFields
<1>2. Lit(e) = Lit(d)
  BY <1>1 DEF Lit
<1>3. Listed(d) => Listed(e)
  BY <1>1, HeldMembers DEF Listed
<1>4. ASSUME Agrees(d)  PROVE Agrees(e)
  <2>1. ShowsOwn(e) /\ OpensOwn(e) /\ WindowsPlaced(e)
    BY <1>1, <1>4, HeldMembers DEF Agrees, ShowsOwn, OpensOwn, WindowsPlaced
  <2>2. FlagsShown(e)
    BY <1>1, <1>4, HeldMembers, Sorts DEF Agrees, FlagsShown, ShowsOwn, OpensOwn
  <2> QED  BY <2>1, <2>2 DEF Agrees
<1> QED  BY <1>2, <1>3, <1>4

LEMMA CollectedSettles ==
  ASSUME NEW d \in Desk, NEW m \in Outputs, NEW e, e = Collected(d)
  PROVE  Settles(d, e, {}, m)
<1>1. /\ e \in Desk
      /\ Existing(e) = Existing(d) \cap Held(d)
      /\ \A x \in Existing(e) : e.home[x] = d.home[x]
      /\ e.enabled = d.enabled /\ e.active = d.active
      /\ e.on = d.on /\ e.pinned = d.pinned /\ e.torn = d.torn
  BY CollectedFields
<1>2. Follows(d, e, m)
  BY <1>1, CollectedAgrees DEF Follows
<1>3. \A x : Lived(d, x) => x \in Existing(e)
  BY <1>1, HeldMembers DEF Lived
<1>4. \A x : Lived(d, x) => x \in Existing(e) /\ (x \in {} \/ d.home[x] = m => e.home[x] = m)
  BY <1>1, <1>3
<1>5. \A x \in Existing(e) : \E y \in Existing(d) : e.home[x] = d.home[y]
  BY <1>1
<1> QED  BY <1>1, <1>2, <1>4, <1>5 DEF Settles

LEMMA AddedSettles ==
  ASSUME NEW d \in Desk, NEW s \in Workspaces, s \notin Existing(d), NEW m \in Outputs,
         NEW e, e = Added(d, s, m)
  PROVE  Settles(d, e, {}, m)
<1>1. /\ e \in Desk /\ Existing(e) = Existing(d) \cup {s}
      /\ \A x \in Workspaces : e.home[x] = IF x = s THEN m ELSE d.home[x]
      /\ e.enabled = d.enabled /\ e.active = d.active /\ e.special = d.special
      /\ e.on = d.on /\ e.pinned = d.pinned /\ e.torn = d.torn
  BY AddedFields
<1>2. Agrees(d) => Agrees(e)
  BY AddedAgrees
<1>3. Follows(d, e, m)
  BY <1>1, <1>2 DEF Follows, Listed, Lit
<1>4. \A x \in Existing(d) : e.home[x] = d.home[x]
  BY <1>1, DeskSets
<1> QED  BY <1>1, <1>3, <1>4 DEF Settles, Lived

\* A monitor shows another workspace of its own.
LEMMA ChangedSettles ==
  ASSUME NEW d \in Desk, NEW m \in Outputs, NEW s \in Ids, s \in Existing(d), d.home[s] = m,
         NEW internal \in BOOLEAN, NEW e, e = Changed(d, m, s, internal)
  PROVE  /\ Settles(d, e, {}, m) /\ e.active[m] = s /\ e.focused = d.focused
         /\ Existing(e) = Existing(d) /\ e.home = d.home /\ e.back = d.back
<1>1. CASE d.active[m] = s
  <2>1. e = d
    BY <1>1, Sorts DEF Changed
  <2> QED  BY <1>1, <2>1, QuietSettles
<1>2. CASE d.active[m] # s
  <2>1. /\ e \in Desk
        /\ \A n \in Outputs : e.active[n] = IF n = m THEN s ELSE d.active[n]
        /\ \A w \in Windows : e.on[w] =
             IF ~internal /\ w \in d.pinned /\ d.on[w] = d.active[m] /\ d.on[w] # NoWorkspace
             THEN s ELSE d.on[w]
        /\ e.enabled = d.enabled /\ e.order = d.order /\ e.home = d.home
        /\ e.back = d.back /\ e.special = d.special /\ e.focused = d.focused
        /\ e.pinned = d.pinned /\ e.torn = d.torn
    BY <1>2, ChangedFields, SMTT(30)
  <2>2. Existing(e) = Existing(d)
    BY <2>1 DEF Existing
  <2>3. Agrees(d) => Agrees(e)
    BY ChangedAgrees
  <2>4. Lit(e) = Lit(d) \cup {m}
    BY <2>1, Sorts DEF Lit
  <2>5. Listed(d) => Listed(e)
    BY <2>1, <2>2 DEF Listed
  <2>6. Follows(d, e, m)
    BY <2>1, <2>3, <2>4, <2>5 DEF Follows
  <2>7. /\ \A w \in Windows \ d.pinned : e.on[w] = d.on[w]
        /\ \A n \in Outputs \ {m} : e.active[n] = d.active[n]
    BY <2>1
  <2> QED  BY <2>1, <2>2, <2>6, <2>7 DEF Settles, Lived
<1> QED  BY <1>1, <1>2

\* The monitor shows its first workspace.
LEMMA StartsSettle ==
  ASSUME Endless, NEW d \in Desk, NEW m \in Outputs, NEW id \in Ids,
         Orderly /\ ~d.torn => m \notin Lit(d), NEW e, e = StartsWith(d, m, id),
         NEW V, V = {id} \cap Existing(d)
  PROVE  /\ Settles(d, e, V, m)
         /\ m \in Lit(e) /\ e.focused \in {d.focused, m}
         /\ \A x \in Workspaces : e.back[x] = IF x = id THEN NoMonitor ELSE d.back[x]
<1>0. id \in Workspaces /\ id # NoWorkspace /\ id \notin Specials
  BY Sorts
<1>1. PICK a : a = IF id \in Existing(d) THEN Moved(d, id, m) ELSE Added(d, id, m)
  OBVIOUS
<1>2. e = [a EXCEPT !.active[m] = id, !.visible = @ \cup {id}, !.back[id] = NoMonitor]
  BY <1>1 DEF StartsWith, Added
<1>3. /\ a \in Desk /\ Settles(d, a, {id} \cap Existing(d), m)
      /\ a.back = d.back /\ a.focused \in {d.focused, m}
      /\ id \in Existing(a) /\ a.home[id] = m
      /\ a.active[m] = d.active[m] \/ a.active[m] = id
  <2>1. CASE id \in Existing(d)
    <3>1. a = Moved(d, id, m)
      BY <1>1, <2>1
    <3>2. Follows(d, a, m) /\ Moves(d, a, {id}, m) /\ a.back = d.back
      BY <2>1, <3>1, MovedMoves
    <3>3. Settles(d, a, {id}, m)
      BY <2>1, <3>2, MovesSettle
    <3>4. id \in Existing(a) /\ a.home[id] = m
      BY <2>1, <3>2 DEF Moves, HomesMove
    <3>5. /\ a.focused \in {d.focused, m}
          /\ a.active[m] = d.active[m] \/ a.active[m] = id
      BY <3>2 DEF Moves, ViewsMove
    <3>6. {id} \cap Existing(d) = {id}
      BY <2>1
    <3> QED  BY <3>2, <3>3, <3>4, <3>5, <3>6 DEF Follows
  <2>2. CASE id \notin Existing(d)
    <3>1. a = Added(d, id, m)
      BY <1>1, <2>2
    <3>2. /\ a \in Desk /\ Existing(a) = Existing(d) \cup {id}
          /\ \A x \in Workspaces : a.home[x] = IF x = id THEN m ELSE d.home[x]
          /\ a.back = d.back /\ a.active = d.active /\ a.focused = d.focused
      BY <1>0, <3>1, AddedFields, SMTT(30)
    <3>3. Settles(d, a, {}, m)
      BY <1>0, <2>2, <3>1, AddedSettles
    <3>4. {id} \cap Existing(d) = {}
      BY <2>2
    <3> QED  BY <1>0, <3>2, <3>3, <3>4
  <2> QED  BY <2>1, <2>2
<1>4. /\ e \in Desk
      /\ \A n \in Outputs : e.active[n] = IF n = m THEN id ELSE a.active[n]
      /\ e.visible = a.visible \cup {id}
      /\ \A x \in Workspaces : e.back[x] = IF x = id THEN NoMonitor ELSE a.back[x]
      /\ e.enabled = a.enabled /\ e.order = a.order /\ e.home = a.home
      /\ e.special = a.special /\ e.focused = a.focused /\ e.on = a.on
      /\ e.screen = a.screen /\ e.pinned = a.pinned /\ e.torn = a.torn
  <2>1. PICK v : v = [a.active EXCEPT ![m] = id]
    OBVIOUS
  <2>2. PICK b : b = [a.back EXCEPT ![id] = NoMonitor]
    OBVIOUS
  <2>3. PICK f : f = a.visible \cup {id}
    OBVIOUS
  <2>4. e = [a EXCEPT !.active = v, !.visible = f, !.back = b]
    BY <1>2, <2>1, <2>2, <2>3
  <2>5. /\ v \in [Outputs -> Ids \cup {NoWorkspace}]
        /\ \A n \in Outputs : v[n] = IF n = m THEN id ELSE a.active[n]
        /\ b \in [Workspaces -> Outputs \cup {NoMonitor}]
        /\ \A x \in Workspaces : b[x] = IF x = id THEN NoMonitor ELSE a.back[x]
        /\ f \in SUBSET Workspaces
    BY <1>0, <1>3, <2>1, <2>2, <2>3, DeskFields
  <2> QED  BY <1>3, <2>3, <2>4, <2>5 DEF Desk
<1>5. Existing(e) = Existing(a)
  BY <1>4 DEF Existing
<1>6. ASSUME Orderly, Agrees(d), ~e.torn  PROVE Agrees(e)
  <2>1. Agrees(a) /\ ~d.torn
    BY <1>3, <1>4, <1>6 DEF Settles, Follows
  <2>2. a.active[m] = NoWorkspace \/ a.active[m] = id
    BY <1>3, <1>6, <2>1 DEF Lit
  <2>3. ShowsOwn(e) /\ OpensOwn(e) /\ WindowsPlaced(e)
    BY <1>0, <1>3, <1>4, <1>5, <2>1 DEF Agrees, ShowsOwn, OpensOwn, WindowsPlaced
  <2>4. FlagsShown(e)
    BY <1>0, <1>4, <2>1, <2>2, Sorts DEF Agrees, FlagsShown
  <2> QED  BY <2>3, <2>4 DEF Agrees
<1>7. Lit(e) = Lit(a) \cup {m}
  BY <1>0, <1>4 DEF Lit
<1>8. Listed(a) => Listed(e)
  BY <1>3, <1>4, <1>5 DEF Listed
<1>9. Settles(d, e, {id} \cap Existing(d), m)
  <2>1. Follows(d, e, m)
    BY <1>3, <1>4, <1>6, <1>7, <1>8 DEF Settles, Follows
  <2>2. \A n \in Outputs \ {m} : e.active[n] = a.active[n]
    BY <1>4
  <2> QED  BY <1>3, <1>4, <1>5, <2>1, <2>2 DEF Settles
<1> QED  BY <1>3, <1>4, <1>7, <1>9

LEMMA DefaultSettles ==
  ASSUME Endless, NEW d \in Desk, NEW m \in Outputs,
         Orderly /\ ~d.torn => m \notin Lit(d), NEW e, e = WithDefault(d, m),
         NEW V, V = {x \in Existing(d) : DefaultFor[m] = x}
  PROVE  /\ Settles(d, e, V, m)
         /\ m \in Lit(e) /\ e.focused \in {d.focused, m}
         /\ \A x \in Workspaces : e.back[x] = d.back[x] \/ (e.back[x] = NoMonitor /\ (x \in Existing(d) => x \in V))
<1>1. PICK id : id = IF DefaultFor[m] # NoWorkspace THEN DefaultFor[m] ELSE Min(UnboundFor(d, m))
  OBVIOUS
<1>2. e = StartsWith(d, m, id)
  BY <1>1 DEF WithDefault
<1>3. id \in Ids /\ (id = DefaultFor[m] \/ id \notin Existing(d))
  <2>1. CASE DefaultFor[m] # NoWorkspace
    BY <1>1, <2>1, Sorts
  <2>2. CASE DefaultFor[m] = NoWorkspace
    BY <1>1, <2>2, FreshIds DEF UnboundFor
  <2> QED  BY <2>1, <2>2
<1>v. V = {id} \cap Existing(d)
  <2>1. CASE DefaultFor[m] # NoWorkspace
    BY <1>1, <2>1
  <2>2. CASE DefaultFor[m] = NoWorkspace
    <3>1. id \notin Existing(d)
      BY <1>1, <2>2, FreshIds DEF UnboundFor
    <3>2. NoWorkspace \notin Existing(d)
      BY DeskSets, Sorts
    <3> QED  BY <2>2, <3>1, <3>2
  <2> QED  BY <2>1, <2>2
<1>4. /\ Settles(d, e, V, m)
      /\ m \in Lit(e) /\ e.focused \in {d.focused, m}
      /\ \A x \in Workspaces : e.back[x] = IF x = id THEN NoMonitor ELSE d.back[x]
  <2>1. id \in Ids
    BY <1>3
  <2> QED  BY <1>2, <1>v, <2>1, StartsSettle, SMTT(60)
<1>5. \A x \in Workspaces : e.back[x] = d.back[x] \/ (e.back[x] = NoMonitor /\ (x \in Existing(d) => x \in V))
  <2> TAKE x \in Workspaces
  <2>1. CASE x = id
    <3>1. e.back[x] = NoMonitor
      BY <1>4, <2>1
    <3> QED  BY <1>v, <2>1, <3>1
  <2>2. CASE x # id
    <3>1. e.back[x] = d.back[x]
      BY <1>4, <2>2
    <3> QED  BY <3>1
  <2> QED  BY <2>1, <2>2
<1> QED  BY <1>4, <1>5

LEMMA BroughtBackSettles ==
  ASSUME Endless, NEW d \in Desk, NEW m \in Outputs, NEW e, e = BroughtBack(d, m),
         NEW S, S = {x \in Existing(d) : d.back[x] = m \/ Len(d.enabled) = 1}
  PROVE  /\ Settles(d, e, S, m)
         /\ e.focused \in {d.focused, m}
<1>2. e = AllMoved(d, S, m, NoMonitor)
  BY DEF BroughtBack
<1>3. Follows(d, e, m) /\ Moves(d, e, Existing(d) \cap S, m)
  BY <1>2, AllMovedMoves
<1>4. Existing(d) \cap S = S /\ S \in SUBSET Existing(d)
  OBVIOUS
<1>5. Settles(d, e, S, m)
  BY <1>3, <1>4, MovesSettle
<1>6. e.focused \in {d.focused, m}
  BY <1>3 DEF Moves, ViewsMove
<1> QED  BY <1>5, <1>6

LEMMA SeenSettles ==
  ASSUME Endless, NEW d \in Desk, NEW m \in Outputs, seen \in [Outputs -> Ids \cup {NoWorkspace}],
         m \in Enabled(d), NEW e, e = SeenAgain(d, m),
         NEW V, V = {seen[m]} \cap Existing(d)
  PROVE  /\ Settles(d, e, V, m)
         /\ seen[m] \in Existing(d) => e.active[m] = seen[m]
         /\ e.focused \in Enabled(d)
<1>1. PICK s : s = seen[m]
  OBVIOUS
<1>2. PICK t : t = IF s \in Existing(d) THEN Changed(Moved(d, s, m), m, s, TRUE) ELSE d
  OBVIOUS
<1>3. PICK f : f = IF d.focused \in Enabled(d) THEN t.focused ELSE m
  OBVIOUS
<1>4. e = [t EXCEPT !.focused = f]
  BY <1>1, <1>2, <1>3 DEF SeenAgain
<1>5. /\ t \in Desk /\ Settles(d, t, {s} \cap Existing(d), m)
      /\ t.focused \in {d.focused, m}
      /\ s \in Existing(d) => t.active[m] = s
  <2>1. CASE s \in Existing(d)
    <3>1. PICK u : u = Moved(d, s, m)
      OBVIOUS
    <3>2. PICK internal \in BOOLEAN : internal = TRUE
      OBVIOUS
    <3>3. t = Changed(u, m, s, internal)
      BY <1>2, <2>1, <3>1, <3>2
    <3>4. s \in Ids
      BY <1>1, <2>1, DeskSets, Sorts
    <3>5. Follows(d, u, m) /\ Moves(d, u, {s}, m)
      BY <2>1, <3>1, MovedMoves
    <3>6. Settles(d, u, {s}, m) /\ u \in Desk
      BY <2>1, <3>5, MovesSettle DEF Follows
    <3>7. s \in Existing(u) /\ u.home[s] = m /\ u.focused \in {d.focused, m}
      BY <2>1, <3>5 DEF Moves, HomesMove, ViewsMove
    <3>8. Settles(u, t, {}, m) /\ t.active[m] = s /\ t.focused = u.focused
      BY <3>3, <3>4, <3>6, <3>7, ChangedSettles
    <3>9. Settles(d, t, {s} \cup {}, m)
      BY <3>6, <3>8, SettlesOn
    <3>10. {s} \cup {} = {s} \cap Existing(d)
      BY <2>1
    <3> QED  BY <3>7, <3>8, <3>9, <3>10 DEF Settles, Follows
  <2>2. CASE s \notin Existing(d)
    <3>1. t = d /\ {s} \cap Existing(d) = {}
      BY <1>2, <2>2
    <3> QED  BY <2>2, <3>1, QuietSettles
  <2> QED  BY <2>1, <2>2
<1>6. f \in Enabled(d) /\ f \in Outputs
  BY <1>3, <1>5, DeskSets
<1>7. /\ e \in Desk /\ e.focused = f
      /\ e.enabled = t.enabled /\ e.order = t.order /\ e.home = t.home
      /\ e.back = t.back /\ e.visible = t.visible /\ e.active = t.active
      /\ e.special = t.special /\ e.on = t.on /\ e.screen = t.screen
      /\ e.pinned = t.pinned /\ e.torn = t.torn
  BY <1>4, <1>5, <1>6, FocusFields
<1>8. Settles(t, e, {}, m)
  BY <1>5, <1>7, QuietSettles
<1>9. Settles(d, e, ({s} \cap Existing(d)) \cup {}, m)
  BY <1>5, <1>8, SettlesOn
<1>10. ({s} \cap Existing(d)) \cup {} = {s} \cap Existing(d)
  OBVIOUS
<1> QED  BY <1>1, <1>5, <1>6, <1>7, <1>9, <1>10

\* A monitor that has come gets the workspaces that are due to it.
LEMMA ComesToSettle ==
  ASSUME Endless, NEW c \in Desk, NEW m \in Outputs, seen \in [Outputs -> Ids \cup {NoWorkspace}],
         m \in Enabled(c), Orderly /\ ~c.torn => m \notin Lit(c),
         NEW default, default = WithDefault(c, m),
         NEW left, left = Collected(BroughtBack(default, m)),
         NEW h, h = IF left.focused = NoMonitor THEN [left EXCEPT !.focused = m] ELSE left,
         NEW e, e = SeenAgain(h, m)
  PROVE  /\ m \in Lit(e) /\ e.focused \in Enabled(e)
         /\ \E V :
              /\ Settles(c, e, V, m)
              /\ \A x \in V : c.back[x] = m \/ seen[m] = x \/ DefaultFor[m] = x \/ Len(c.enabled) = 1
              /\ \A x : Lived(c, x) /\ (c.back[x] = m \/ seen[m] = x) => x \in V
              /\ \A x : Lived(c, x) /\ seen[m] = x => e.active[m] = x
<1>u. PICK V1 : V1 = {x \in Existing(c) : DefaultFor[m] = x}
  OBVIOUS
<1>8. /\ Settles(c, default, V1, m)
      /\ m \in Lit(default)
      /\ \A x \in Workspaces : default.back[x] = c.back[x] \/ (default.back[x] = NoMonitor /\ (x \in Existing(c) => x \in V1))
  BY <1>u, DefaultSettles, SMTT(60)
<1>9. default \in Desk /\ default.enabled = c.enabled
  BY <1>8 DEF Settles, Follows
<1>10. PICK V2 : V2 = {x \in Existing(default) : default.back[x] = m \/ Len(default.enabled) = 1}
  OBVIOUS
<1>11. PICK bb : bb = BroughtBack(default, m)
  OBVIOUS
<1>12. Settles(default, bb, V2, m)
  BY <1>9, <1>10, <1>11, BroughtBackSettles
<1>13. bb \in Desk
  BY <1>12 DEF Settles, Follows
<1>14. left = Collected(bb)
  BY <1>11
<1>15. left \in Desk /\ Settles(bb, left, {}, m)
  BY <1>13, <1>14, CollectedSettles, CollectedFields
<1>17. h \in Desk /\ Settles(left, h, {}, m)
  <2>1. CASE left.focused = NoMonitor
    <3>1. h = [left EXCEPT !.focused = m]
      BY <2>1
    <3>2. /\ h \in Desk
          /\ h.enabled = left.enabled /\ h.order = left.order /\ h.home = left.home
          /\ h.back = left.back /\ h.visible = left.visible /\ h.active = left.active
          /\ h.special = left.special /\ h.on = left.on /\ h.screen = left.screen
          /\ h.pinned = left.pinned /\ h.torn = left.torn
      BY <1>15, <3>1, FocusFields
    <3> QED  BY <1>15, <3>2, QuietSettles
  <2>2. CASE left.focused # NoMonitor
    <3>1. h = left
      BY <2>2
    <3> QED  BY <1>15, <3>1, QuietSettles
  <2> QED  BY <2>1, <2>2
<1>19. PICK V3 : V3 = {seen[m]} \cap Existing(h)
  OBVIOUS
<1>20. Settles(c, h, V1 \cup V2, m) /\ Settles(c, default, V1, m)
  <2>1. Settles(c, bb, V1 \cup V2, m)
    BY <1>8, <1>12, SettlesOn
  <2>2. Settles(c, left, V1 \cup V2 \cup {}, m)
    BY <1>15, <2>1, SettlesOn
  <2>3. Settles(c, h, V1 \cup V2 \cup {} \cup {}, m)
    BY <1>17, <2>2, SettlesOn
  <2>4. V1 \cup V2 \cup {} \cup {} = V1 \cup V2
    OBVIOUS
  <2> QED  BY <1>8, <2>3, <2>4
<1>21. m \in Enabled(h) /\ Enabled(h) = Enabled(c)
  BY <1>20 DEF Settles, Enabled
<1>22. /\ Settles(h, e, V3, m)
       /\ seen[m] \in Existing(h) => e.active[m] = seen[m]
       /\ e.focused \in Enabled(h)
  BY <1>17, <1>19, <1>21, SeenSettles
<1>23. Settles(c, e, (V1 \cup V2) \cup V3, m)
  BY <1>20, <1>22, SettlesOn
<1>24. e.focused \in Enabled(e)
  BY <1>22 DEF Settles, Enabled
<1>25. m \in Lit(e)
  BY <1>8, <1>12, <1>15, <1>17, <1>22 DEF Settles, Follows
<1>26. ASSUME NEW x \in (V1 \cup V2) \cup V3
       PROVE  c.back[x] = m \/ seen[m] = x \/ DefaultFor[m] = x \/ Len(c.enabled) = 1
  <2>1. CASE x \in V1
    BY <1>u, <2>1
  <2>2. CASE x \in V3
    BY <1>19, <2>2
  <2>3. CASE x \in V2 /\ default.back[x] = m
    <3>1. x \in Workspaces
      BY <1>9, <1>10, <2>3, DeskSets
    <3>2. default.back[x] = c.back[x]
      BY <1>8, <2>3, <3>1, Sorts
    <3> QED  BY <2>3, <3>2
  <2>4. CASE x \in V2 /\ default.back[x] # m
    BY <1>9, <1>10, <2>4
  <2> QED  BY <2>1, <2>2, <2>3, <2>4
<1>27. ASSUME NEW x, Lived(c, x)
       PROVE  /\ c.back[x] = m \/ seen[m] = x => x \in (V1 \cup V2) \cup V3
              /\ seen[m] = x => e.active[m] = x
  <2>1. Lived(c, x) /\ x \in Existing(c) /\ x \in Workspaces
    BY <1>27, DeskSets DEF Lived
  <2>2. x \in Existing(h) /\ x \in Existing(default)
    BY <1>20, <2>1 DEF Settles
  <2>3. CASE seen[m] = x
    BY <1>19, <1>22, <2>2, <2>3
  <2>4. CASE c.back[x] = m
    <3>1. default.back[x] = c.back[x] \/ x \in V1
      BY <1>8, <2>1
    <3>2. CASE default.back[x] = c.back[x]
      <4>1. default.back[x] = m
        BY <2>4, <3>2
      <4> QED  BY <1>10, <1>22, <1>19, <2>2, <4>1
    <3>3. CASE x \in V1
      BY <1>19, <1>22, <2>2, <3>3
    <3> QED  BY <3>1, <3>2, <3>3
  <2> QED  BY <1>19, <1>22, <2>2, <2>4
<1>28. /\ \A x \in (V1 \cup V2) \cup V3 : c.back[x] = m \/ seen[m] = x \/ DefaultFor[m] = x \/ Len(c.enabled) = 1
       /\ \A x : Lived(c, x) /\ (c.back[x] = m \/ seen[m] = x) => x \in (V1 \cup V2) \cup V3
       /\ \A x : Lived(c, x) /\ seen[m] = x => e.active[m] = x
  BY <1>26, <1>27
<1> QED  BY <1>23, <1>24, <1>25, <1>28

\* d becomes e as the monitor m comes: c is d with m in its list, and V are the
\* workspaces that m may take.
Comes(d, c, e, V, m) ==
  /\ c \in Desk
  /\ Existing(c) = Existing(d) /\ Enabled(c) = Enabled(d) \cup {m}
  /\ Len(c.enabled) = 1 => Enabled(d) = {}
  /\ c.home = d.home /\ c.visible = d.visible /\ c.active = d.active
  /\ c.special = d.special /\ c.on = d.on /\ c.screen = d.screen
  /\ c.pinned = d.pinned /\ c.torn = d.torn /\ c.back = d.back
  /\ m \in Lit(e) /\ e.focused \in Enabled(e)
  /\ Settles(c, e, V, m)
  /\ \A x \in V : c.back[x] = m \/ seen[m] = x \/ DefaultFor[m] = x \/ Len(c.enabled) = 1
  /\ \A x : Lived(c, x) /\ (c.back[x] = m \/ seen[m] = x) => x \in V
  /\ \A x : Lived(c, x) /\ seen[m] = x => e.active[m] = x

LEMMA ConnectedSettles ==
  ASSUME Endless, NEW d \in Desk, NEW m \in Outputs, seen \in [Outputs -> Ids \cup {NoWorkspace}],
         Orderly /\ ~d.torn => m \notin Lit(d), NEW e, e = Connected(d, m)
  PROVE  \E c, V : Comes(d, c, e, V, m)
<1>1. d.enabled \in Seq(Outputs)
  BY DeskFields
<1>2. PICK l : l = Append(d.enabled, m)
  OBVIOUS
<1>3. l \in Seq(Outputs) /\ ToSet(l) = Enabled(d) \cup {m} /\ Len(l) = Len(d.enabled) + 1
  BY <1>1, <1>2, AppendMembers DEF Enabled
<1>4. PICK c : c = [d EXCEPT !.enabled = l]
  OBVIOUS
<1>5. /\ c \in Desk /\ c.enabled = l /\ c.order = d.order /\ c.back = d.back
      /\ c.home = d.home /\ c.visible = d.visible /\ c.active = d.active
      /\ c.special = d.special /\ c.on = d.on /\ c.screen = d.screen
      /\ c.pinned = d.pinned /\ c.torn = d.torn /\ c.focused = d.focused
  BY <1>3, <1>4 DEF Desk
<1>6. Existing(c) = Existing(d) /\ Enabled(c) = Enabled(d) \cup {m} /\ Lit(c) = Lit(d)
  BY <1>3, <1>5 DEF Existing, Enabled, Lit
<1>7. PICK default : default = WithDefault(c, m)
  OBVIOUS
<1>8. PICK left : left = Collected(BroughtBack(default, m))
  OBVIOUS
<1>9. PICK h : h = IF left.focused = NoMonitor THEN [left EXCEPT !.focused = m] ELSE left
  OBVIOUS
<1>10. e = SeenAgain(h, m)
  BY <1>2, <1>4, <1>7, <1>8, <1>9 DEF Connected
<1>11. m \in Enabled(c) /\ (Orderly /\ ~c.torn => m \notin Lit(c))
  BY <1>5, <1>6
<1>12. Len(c.enabled) = 1 => Enabled(d) = {}
  <2> SUFFICES ASSUME Len(c.enabled) = 1  PROVE Enabled(d) = {}
    OBVIOUS
  <2>1. Len(d.enabled) \in Nat /\ Len(d.enabled) + 1 = 1
    BY <1>1, <1>3, <1>5, ListMembers
  <2>2. Len(d.enabled) = 0
    BY <2>1
  <2> QED  BY <1>1, <2>2, ListMembers DEF Enabled
<1>13. c \in Desk
  BY <1>5
<1>14. /\ m \in Lit(e) /\ e.focused \in Enabled(e)
       /\ \E V :
            /\ Settles(c, e, V, m)
            /\ \A x \in V : c.back[x] = m \/ seen[m] = x \/ DefaultFor[m] = x \/ Len(c.enabled) = 1
            /\ \A x : Lived(c, x) /\ (c.back[x] = m \/ seen[m] = x) => x \in V
            /\ \A x : Lived(c, x) /\ seen[m] = x => e.active[m] = x
  BY <1>7, <1>8, <1>9, <1>10, <1>11, <1>13, ComesToSettle
<1>15. PICK V :
            /\ Settles(c, e, V, m)
            /\ \A x \in V : c.back[x] = m \/ seen[m] = x \/ DefaultFor[m] = x \/ Len(c.enabled) = 1
            /\ \A x : Lived(c, x) /\ (c.back[x] = m \/ seen[m] = x) => x \in V
            /\ \A x : Lived(c, x) /\ seen[m] = x => e.active[m] = x
  BY <1>14
<1>16. Comes(d, c, e, V, m)
  BY <1>5, <1>6, <1>12, <1>14, <1>15 DEF Comes
<1> QED  BY <1>5, <1>6, <1>16

-----------------------------------------------------------------------------
(* A monitor goes.                                                          *)

\* The workspaces that stay are on monitors of M.
HomesIn(d, M) == \A x \in Existing(d) \cap Held(d) : d.home[x] \in M

LEMMA OthersMembers ==
  ASSUME NEW d \in Desk, NEW m
  PROVE  /\ OthersThan(d, m) \in Seq(Outputs) /\ ToSet(OthersThan(d, m)) = Enabled(d) \ {m}
         /\ OthersThan(d, m) # <<>> => OthersThan(d, m)[1] \in Enabled(d) \ {m}
         /\ OthersThan(d, m) = <<>> => Enabled(d) \subseteq {m}
<1>1. d.enabled \in Seq(Outputs)
  BY DeskFields
<1>2. PICK l : l = Kept(d.enabled, Outputs \ {m})
  OBVIOUS
<1>3. l \in Seq(Outputs) /\ ToSet(l) = ToSet(d.enabled) \cap (Outputs \ {m})
  BY <1>1, <1>2, KeptMembers
<1>4. ToSet(l) = Enabled(d) \ {m}
  BY <1>3, DeskSets DEF Enabled
<1>5. l # <<>> => l[1] \in ToSet(l)
  BY <1>3, ListMembers
<1>6. l = <<>> => ToSet(l) = {}
  BY ListMembers DEF ToSet
<1>7. OthersThan(d, m) = l
  BY <1>2 DEF OthersThan
<1> QED  BY <1>3, <1>4, <1>5, <1>6, <1>7

LEMMA DarkFields ==
  ASSUME NEW d \in Desk, NEW m \in Outputs, NEW e, e = Dark(d, m)
  PROVE  /\ e \in Desk /\ Enabled(e) = Enabled(d) \ {m}
         /\ e.visible = d.visible \ {d.active[m]}
         /\ \A n \in Outputs : e.active[n] = IF n = m THEN NoWorkspace ELSE d.active[n]
         /\ d.torn => e.torn
         /\ d.special[m] # NoWorkspace => e.torn
         /\ \A w \in d.pinned : d.home[d.on[w]] = m => e.torn
         /\ e.order = d.order /\ e.home = d.home /\ e.back = d.back
         /\ e.special = d.special /\ e.focused = d.focused /\ e.on = d.on
         /\ e.screen = d.screen /\ e.pinned = d.pinned
<1>1. PICK l : l = OthersThan(d, m)
  OBVIOUS
<1>2. PICK v : v = [d.active EXCEPT ![m] = NoWorkspace]
  OBVIOUS
<1>3. PICK f : f = d.visible \ {d.active[m]}
  OBVIOUS
<1>4. PICK t \in BOOLEAN :
        /\ e = [d EXCEPT !.visible = f, !.active = v, !.enabled = l, !.torn = t]
        /\ d.torn => t
        /\ d.special[m] # NoWorkspace => t
        /\ \A w \in d.pinned : d.home[d.on[w]] = m => t
  <2>1. e = [d EXCEPT !.visible = f, !.active = v, !.enabled = l,
                      !.torn = \/ d.torn \/ d.special[m] # NoWorkspace
                               \/ \E w \in d.pinned : d.home[d.on[w]] = m]
    BY <1>1, <1>2, <1>3 DEF Dark
  <2>2. d.torn \in BOOLEAN
    BY DeskFields
  <2> QED  BY <2>1, <2>2
<1>5. l \in Seq(Outputs) /\ ToSet(l) = Enabled(d) \ {m}
  BY <1>1, OthersMembers
<1>6. /\ v \in [Outputs -> Ids \cup {NoWorkspace}]
      /\ \A n \in Outputs : v[n] = IF n = m THEN NoWorkspace ELSE d.active[n]
      /\ f \in SUBSET Workspaces
  BY <1>2, <1>3, DeskFields
<1>7. /\ e \in Desk /\ e.visible = f /\ e.active = v /\ e.enabled = l /\ e.torn = t
      /\ e.order = d.order /\ e.home = d.home /\ e.back = d.back
      /\ e.special = d.special /\ e.focused = d.focused /\ e.on = d.on
      /\ e.screen = d.screen /\ e.pinned = d.pinned
  BY <1>4, <1>5, <1>6 DEF Desk
<1>8. Enabled(e) = Enabled(d) \ {m}
  BY <1>5, <1>7 DEF Enabled
<1> QED  BY <1>3, <1>4, <1>6, <1>7, <1>8

LEMMA DarkKeeps ==
  ASSUME NEW d \in Desk, NEW m \in Outputs, NEW e, e = Dark(d, m)
  PROVE  /\ Lit(e) = Lit(d) \ {m}
         /\ Listed(d) => Listed(e)
         /\ Agrees(d) /\ ~e.torn => Agrees(e) /\ e.special[m] = NoWorkspace
<1>1. /\ e \in Desk
      /\ e.visible = d.visible \ {d.active[m]}
      /\ \A n \in Outputs : e.active[n] = IF n = m THEN NoWorkspace ELSE d.active[n]
      /\ d.special[m] # NoWorkspace => e.torn
      /\ e.order = d.order /\ e.home = d.home
      /\ e.special = d.special /\ e.on = d.on
      /\ e.screen = d.screen /\ e.pinned = d.pinned
  BY DarkFields
<1>2. Existing(e) = Existing(d)
  BY <1>1 DEF Existing
<1>3. Lit(e) = Lit(d) \ {m} /\ (Listed(d) => Listed(e))
  BY <1>1, <1>2 DEF Lit, Listed
<1>4. ASSUME Agrees(d), ~e.torn  PROVE Agrees(e) /\ e.special[m] = NoWorkspace
  <2>1. ShowsOwn(e) /\ OpensOwn(e) /\ WindowsPlaced(e)
    BY <1>1, <1>2, <1>4 DEF Agrees, ShowsOwn, OpensOwn, WindowsPlaced
  <2>2. \A n \in Outputs : n # m /\ d.active[n] # NoWorkspace => d.active[n] # d.active[m]
    BY <1>4 DEF Agrees, ShowsOwn
  <2>3. \A n \in Outputs : d.special[n] # NoWorkspace => d.special[n] # d.active[m]
    BY DeskFields, Sorts
  <2>4. FlagsShown(e)
    BY <1>1, <1>4, <2>2, <2>3, Sorts DEF Agrees, FlagsShown
  <2> QED  BY <1>1, <1>4, <2>1, <2>4 DEF Agrees
<1> QED  BY <1>3, <1>4

\* With another monitor: it has the focus, and takes the workspaces over.
LEMMA EvacuatedKeeps ==
  ASSUME Endless, NEW d \in Desk, NEW m \in Outputs, NEW backup \in Outputs \ {m},
         NEW e, e = Evacuated(d, m, backup)
  PROVE  /\ e \in Desk /\ Enabled(e) = Enabled(d) \ {m} /\ (d.torn => e.torn)
         /\ Listed(d) => Listed(e)
         /\ Lit(d) \ {m} \subseteq Lit(e) /\ Lit(e) \subseteq (Lit(d) \cup {backup}) \ {m}
         /\ e.focused = backup
         /\ \A n \in Outputs \ {m} : e.active[n] = d.active[n]
         /\ Orderly /\ Agrees(d) /\ ~e.torn => Agrees(e)
         /\ Orderly /\ Agrees(d) /\ ~e.torn /\ backup \in Enabled(d)
              /\ (\A x \in Existing(d) : d.home[x] \in Enabled(d) \cup {NoMonitor})
            => HomesIn(e, Enabled(e))
<1>1. PICK S : S = {s \in Existing(d) : d.home[s] \in {m, NoMonitor}}
  OBVIOUS
<1>2. PICK c : c = [d EXCEPT !.focused = backup]
  OBVIOUS
<1>3. /\ c \in Desk /\ c.focused = backup
      /\ c.enabled = d.enabled /\ c.order = d.order /\ c.home = d.home
      /\ c.visible = d.visible /\ c.active = d.active
      /\ c.special = d.special /\ c.on = d.on /\ c.screen = d.screen
      /\ c.pinned = d.pinned /\ c.torn = d.torn
  BY <1>2, FocusFields
<1>4. Existing(c) = Existing(d) /\ Enabled(c) = Enabled(d) /\ Lit(c) = Lit(d)
      /\ (Listed(d) => Listed(c))
  BY <1>3 DEF Existing, Enabled, Lit, Listed
<1>5. Agrees(d) => Agrees(c)
  BY <1>3, <1>4, QuietAgrees
<1>6. PICK a : a = AllMoved(c, S, backup, m)
  OBVIOUS
<1>7. Follows(c, a, backup) /\ Moves(c, a, S, backup)
  <2>1. Existing(c) \cap S = S
    BY <1>1, <1>4
  <2>2. Follows(c, a, backup) /\ Moves(c, a, Existing(c) \cap S, backup)
    BY <1>3, <1>6, AllMovedMoves
  <2> QED  BY <2>1, <2>2
<1>8. a \in Desk /\ Enabled(a) = Enabled(d) /\ (d.torn => a.torn)
  BY <1>3, <1>7 DEF Follows, Moves, Enabled
<1>9. HomesMove(d, a, S, backup)
  <2>1. HomesMove(c, a, S, backup)
    BY <1>7 DEF Moves
  <2> QED  BY <1>3, <1>4, <2>1 DEF HomesMove
<1>10. e = Dark(a, m)
  BY <1>1, <1>2, <1>4, <1>6 DEF Evacuated
<1>11. /\ e \in Desk /\ Enabled(e) = Enabled(a) \ {m}
       /\ \A n \in Outputs : e.active[n] = IF n = m THEN NoWorkspace ELSE a.active[n]
       /\ a.torn => e.torn
       /\ \A w \in a.pinned : a.home[a.on[w]] = m => e.torn
       /\ e.order = a.order /\ e.home = a.home
       /\ e.special = a.special /\ e.focused = a.focused /\ e.on = a.on
       /\ e.pinned = a.pinned
  <2>1. a \in Desk
    BY <1>8
  <2> QED  BY <1>10, <2>1, DarkFields, SMTT(60)
<1>12. /\ Lit(e) = Lit(a) \ {m}
       /\ Listed(a) => Listed(e)
       /\ Agrees(a) /\ ~e.torn => Agrees(e) /\ e.special[m] = NoWorkspace
  BY <1>8, <1>10, DarkKeeps
<1>13. Listed(d) => Listed(e)
  BY <1>4, <1>7, <1>12 DEF Follows
<1>14. Lit(d) \ {m} \subseteq Lit(e) /\ Lit(e) \subseteq (Lit(d) \cup {backup}) \ {m}
  BY <1>4, <1>7, <1>12 DEF Follows
<1>15. /\ \A n \in Outputs \ {backup} :
            a.active[n] = d.active[n] \/ (d.active[n] \in S /\ d.home[d.active[n]] = n)
       /\ a.focused = backup /\ a.active[backup] = d.active[backup]
  BY <1>3, <1>7 DEF Moves, ViewsMove
<1>16. e.focused = backup
  BY <1>11, <1>15
<1>17. ASSUME NEW n \in Outputs \ {m}  PROVE e.active[n] = d.active[n]
  <2>1. e.active[n] = a.active[n]
    BY <1>11
  <2>2. \A s \in S : d.home[s] = m \/ d.home[s] = NoMonitor
    BY <1>1
  <2> QED  BY <1>15, <2>1, <2>2, Sorts
<1>18. Orderly /\ Agrees(d) /\ ~e.torn => Agrees(a) /\ Agrees(e) /\ e.special[m] = NoWorkspace
  BY <1>5, <1>7, <1>11, <1>12 DEF Follows
<1>19. ASSUME Orderly, Agrees(d), ~e.torn, backup \in Enabled(d),
              \A x \in Existing(d) : d.home[x] \in Enabled(d) \cup {NoMonitor}
       PROVE  HomesIn(e, Enabled(e))
  <2> SUFFICES ASSUME NEW x \in Existing(e) \cap Held(e)  PROVE e.home[x] \in Enabled(d) \ {m}
    BY <1>8, <1>11 DEF HomesIn
  <2>1. Existing(e) = Existing(a) /\ e.home = a.home /\ e.on = a.on
        /\ e.pinned = a.pinned /\ a.pinned = d.pinned
    BY <1>3, <1>7, <1>11 DEF Existing, Moves
  <2>2. x # NoWorkspace /\ x \in Existing(a)
    BY <1>11, <2>1, DeskSets, Sorts
  <2>3. CASE x \in Existing(d)
    <3>1. e.home[x] = IF x \in S THEN backup ELSE d.home[x]
      BY <1>9, <2>1, <2>3 DEF HomesMove
    <3>2. x \notin S => d.home[x] # m /\ d.home[x] # NoMonitor
      BY <1>1, <2>3
    <3> QED  BY <1>19, <2>3, <3>1, <3>2
  <2>4. CASE x \notin Existing(d)
    <3>1. e.home[x] \in Outputs /\ \E y \in S : e.home[x] = d.home[y]
      BY <1>9, <2>1, <2>2, <2>4 DEF HomesMove
    <3>2. e.home[x] = m
      BY <1>1, <3>1, Sorts
    <3>3. \A n \in Outputs : e.active[n] # x /\ e.special[n] # x
      BY <1>11, <1>18, <1>19, <2>2, <3>2 DEF Agrees, ShowsOwn, OpensOwn
    <3>4. ASSUME NEW w \in Windows  PROVE e.on[w] # x
      <4>1. CASE w \in e.pinned
        BY <1>11, <1>19, <3>2, <4>1
      <4>2. CASE w \notin e.pinned
        <5>1. e.on[w] = d.on[w]
          BY <1>9, <2>1, <4>2 DEF HomesMove
        <5>2. d.on[w] = NoWorkspace \/ d.on[w] \in Existing(d)
          BY <1>19 DEF Agrees, WindowsPlaced
        <5> QED  BY <2>2, <2>4, <5>1, <5>2
      <4> QED  BY <4>1, <4>2
    <3> QED  BY <1>11, <1>19, <3>3, <3>4, HeldMembers DEF Orderly
  <2> QED  BY <2>3, <2>4
<1> QED  BY <1>8, <1>11, <1>13, <1>14, <1>16, <1>17, <1>18, <1>19

\* The output of m is destroyed.
LEMMA ForgottenKeeps ==
  ASSUME NEW d \in Desk, NEW m \in Outputs, NEW e, e = Forgotten(d, m)
  PROVE  /\ e \in Desk /\ Enabled(e) = Enabled(d) /\ e.torn = d.torn
         /\ Existing(e) = Existing(d)
         /\ Listed(d) => Listed(e)
         /\ Lit(e) = Lit(d) \ {m}
         /\ e.focused = IF d.focused = m THEN NoMonitor ELSE d.focused
         /\ \A n \in Outputs \ {m} : e.active[n] = d.active[n]
         /\ \A x \in Workspaces : e.home[x] = IF d.home[x] = m THEN NoMonitor ELSE d.home[x]
         /\ Agrees(d) /\ m \notin Lit(d) => Agrees(e) /\ Held(e) = Held(d)
<1>1. /\ e \in Desk /\ e.enabled = d.enabled /\ e.torn = d.torn /\ e.order = d.order
      /\ e.active = [d.active EXCEPT ![m] = NoWorkspace]
      /\ e.special = [d.special EXCEPT ![m] = NoWorkspace]
      /\ e.focused = IF d.focused = m THEN NoMonitor ELSE d.focused
      /\ e.home = [s \in Workspaces |-> IF d.home[s] = m THEN NoMonitor ELSE d.home[s]]
      /\ e.screen = [w \in Windows |-> IF d.screen[w] = m THEN NoMonitor ELSE d.screen[w]]
      /\ e.visible = d.visible /\ e.on = d.on /\ e.pinned = d.pinned
  BY DEF Forgotten, Desk
<1>2. Existing(e) = Existing(d) /\ Enabled(e) = Enabled(d)
  BY <1>1 DEF Existing, Enabled
<1>3. /\ \A n \in Outputs : e.active[n] = IF n = m THEN NoWorkspace ELSE d.active[n]
      /\ \A n \in Outputs : e.special[n] = IF n = m THEN NoWorkspace ELSE d.special[n]
  BY <1>1, DeskFields
<1>4. Lit(e) = Lit(d) \ {m}
  BY <1>3 DEF Lit
<1>5. Listed(d) => Listed(e)
  BY <1>1, <1>2, <1>3 DEF Listed
<1>6. ASSUME Agrees(d), m \notin Lit(d)  PROVE Agrees(e) /\ Held(e) = Held(d)
  <2>1. d.active[m] = NoWorkspace /\ d.special[m] = NoWorkspace
    BY <1>6 DEF Lit, Agrees, OpensOwn
  <2>2. e.active = d.active /\ e.special = d.special
    <3>1. e \in Desk /\ d \in Desk
      BY <1>1
    <3>2. /\ e.active \in [Outputs -> Ids \cup {NoWorkspace}] /\ d.active \in [Outputs -> Ids \cup {NoWorkspace}]
          /\ e.special \in [Outputs -> Specials \cup {NoWorkspace}] /\ d.special \in [Outputs -> Specials \cup {NoWorkspace}]
      BY <3>1, DeskFields
    <3>3. \A n \in Outputs : e.active[n] = d.active[n] /\ e.special[n] = d.special[n]
      BY <1>3, <2>1
    <3>4. e.active = d.active
      BY <3>2, <3>3
    <3>5. e.special = d.special
      BY <3>2, <3>3
    <3> QED  BY <3>4, <3>5
  <2>3. Held(e) = Held(d)
    BY <1>1, <2>2 DEF Held
  <2>4. \A x \in Existing(d) : e.home[x] = IF d.home[x] = m THEN NoMonitor ELSE d.home[x]
    BY <1>1, DeskSets
  <2>5. ShowsOwn(e) /\ OpensOwn(e) /\ FlagsShown(e)
    BY <1>1, <1>2, <1>6, <2>1, <2>2, <2>4 DEF Agrees, ShowsOwn, OpensOwn, FlagsShown
  <2>6. WindowsPlaced(e)
    BY <1>1, <1>2, <1>6, <2>4 DEF Agrees, WindowsPlaced
  <2> QED  BY <2>3, <2>5, <2>6 DEF Agrees
<1> QED  BY <1>1, <1>2, <1>3, <1>4, <1>5, <1>6

-----------------------------------------------------------------------------
(***************************************************************************)
(* A desk is tidy when its lists are whole and what is enabled shows       *)
(* something, torn or not; and, unless it is torn, when its fields agree,  *)
(* nothing else shows anything, and every workspace is on a monitor that   *)
(* is enabled, or of M.                                                    *)
(***************************************************************************)

Tidy(d, M) ==
  /\ d \in Desk /\ Listed(d) /\ Enabled(d) \subseteq Lit(d)
  /\ Orderly /\ ~d.torn => /\ Agrees(d) /\ Lit(d) \subseteq Enabled(d)
                /\ \A x \in Existing(d) : d.home[x] \in Enabled(d) \cup M

\* e is tidy as d is, with the same monitors.
TidyAs(d, e, M) ==
  Tidy(e, M) /\ e.enabled = d.enabled /\ Enabled(e) = Enabled(d) /\ (d.torn => e.torn)

LEMMA TidyAsOn ==
  ASSUME NEW M, NEW d, NEW t, NEW e, TidyAs(d, t, M), TidyAs(t, e, M)
  PROVE  TidyAs(d, e, M)
BY DEF TidyAs

LEMMA QuietTidy ==
  ASSUME NEW M, NEW d, Tidy(d, M), NEW e \in Desk, e.enabled = d.enabled, e.order = d.order,
         e.home = d.home, e.visible = d.visible, e.active = d.active,
         e.special = d.special, e.on = d.on, e.screen = d.screen, e.pinned = d.pinned,
         e.torn = d.torn
  PROVE  TidyAs(d, e, M)
<1>1. Existing(e) = Existing(d) /\ Enabled(e) = Enabled(d) /\ Lit(e) = Lit(d)
  BY DEF Existing, Enabled, Lit
<1>2. d \in Desk
  BY DEF Tidy
<1>3. Agrees(d) => Agrees(e)
  BY <1>1, <1>2, QuietAgrees
<1>4. Listed(e)
  BY <1>1 DEF Listed, Tidy
<1> QED  BY <1>1, <1>3, <1>4 DEF Tidy, TidyAs

LEMMA FocusTidy ==
  ASSUME NEW M, NEW d, Tidy(d, M), NEW m \in Outputs \cup {NoMonitor},
         NEW e, e = [d EXCEPT !.focused = m]
  PROVE  TidyAs(d, e, M) /\ e.focused = m /\ Existing(e) = Existing(d)
<1>1. d \in Desk
  BY DEF Tidy
<1>2. /\ e \in Desk /\ e.focused = m
      /\ e.enabled = d.enabled /\ e.order = d.order /\ e.home = d.home
      /\ e.visible = d.visible /\ e.active = d.active
      /\ e.special = d.special /\ e.on = d.on /\ e.screen = d.screen
      /\ e.pinned = d.pinned /\ e.torn = d.torn
  BY <1>1, FocusFields
<1>3. TidyAs(d, e, M)
  BY <1>2, QuietTidy
<1> QED  BY <1>2, <1>3 DEF Existing

LEMMA ClosedTidy ==
  ASSUME NEW M, NEW d, Tidy(d, M), NEW m, Orderly /\ ~d.torn => m \in Outputs,
         NEW e, e = ClosedSpecial(d, m)
  PROVE  /\ TidyAs(d, e, M) /\ e.focused = d.focused /\ Existing(e) = Existing(d)
         /\ e.home = d.home /\ e.active = d.active /\ e.on = d.on /\ e.screen = d.screen
         /\ e.pinned = d.pinned
<1>1. d \in Desk
  BY DEF Tidy
<1>2. /\ e \in Desk
      /\ e.enabled = d.enabled /\ e.order = d.order /\ e.home = d.home
      /\ e.active = d.active /\ e.focused = d.focused
      /\ e.on = d.on /\ e.screen = d.screen /\ e.pinned = d.pinned
      /\ e.torn = d.torn
  BY <1>1, ClosedSpecialDesk
<1>3. Existing(e) = Existing(d) /\ Enabled(e) = Enabled(d) /\ Lit(e) = Lit(d)
  BY <1>2 DEF Existing, Enabled, Lit
<1>4. \A n \in Outputs : e.special[n] = NoWorkspace \/ e.special[n] = d.special[n]
  <2>1. e.special = [d.special EXCEPT ![m] = NoWorkspace]
    BY <1>1 DEF ClosedSpecial, Desk
  <2>2. d.special \in [Outputs -> Specials \cup {NoWorkspace}]
    BY <1>1, DeskFields
  <2> QED  BY <2>1, <2>2
<1>5. Listed(e)
  BY <1>2, <1>3, <1>4 DEF Listed, Tidy
<1>6. Orderly /\ ~e.torn => Agrees(e)
  BY <1>1, <1>2, ClosedAgrees DEF Tidy
<1>7. Tidy(e, M)
  BY <1>2, <1>3, <1>5, <1>6 DEF Tidy
<1> QED  BY <1>2, <1>3, <1>7 DEF TidyAs

LEMMA OpenedTidy ==
  ASSUME NEW M, NEW d, Tidy(d, M), NEW m \in Enabled(d), NEW s \in Specials, s \in Existing(d),
         NEW e, e = OpenedSpecial(d, m, s)
  PROVE  /\ TidyAs(d, e, M) /\ e.focused = d.focused /\ Existing(e) = Existing(d)
         /\ \A x \in Existing(d) : x # s => e.home[x] = d.home[x]
         /\ e.on = d.on /\ e.pinned = d.pinned /\ e.active = d.active
<1>1. d \in Desk /\ m \in Outputs /\ m \in Lit(d)
  BY DeskSets DEF Tidy
<1>2. CASE d.special[m] = s
  <2>1. e = d
    BY <1>2 DEF OpenedSpecial
  <2> QED  BY <2>1 DEF TidyAs
<1>3. CASE d.special[m] # s
  <2>1. /\ e \in Desk
        /\ \A n \in Outputs : e.special[n] =
                          IF n = m THEN s
                          ELSE IF n = d.home[s] /\ d.special[n] = s THEN NoWorkspace
                          ELSE d.special[n]
        /\ \A x \in Workspaces : e.home[x] = IF x = s THEN m ELSE d.home[x]
        /\ e.enabled = d.enabled /\ e.order = d.order
        /\ e.active = d.active /\ e.focused = d.focused /\ e.on = d.on
        /\ e.pinned = d.pinned /\ e.torn = d.torn
    BY <1>1, <1>3, OpenedSpecialFields
  <2>2. Existing(e) = Existing(d) /\ Enabled(e) = Enabled(d) /\ Lit(e) = Lit(d)
    BY <2>1 DEF Existing, Enabled, Lit
  <2>3. \A x \in Existing(d) : e.home[x] = IF x = s THEN m ELSE d.home[x]
    BY <1>1, <2>1, DeskSets
  <2>4. Listed(e)
    BY <2>1, <2>2 DEF Listed, Tidy
  <2>5. Orderly /\ ~e.torn => Agrees(e)
    BY <1>1, <2>1, OpenedAgrees DEF Tidy
  <2>6. Tidy(e, M)
    BY <2>1, <2>2, <2>3, <2>4, <2>5 DEF Tidy
  <2> QED  BY <2>1, <2>2, <2>3, <2>6 DEF TidyAs
<1> QED  BY <1>2, <1>3

LEMMA ChangedTidy ==
  ASSUME NEW M, NEW d, Tidy(d, M), NEW m \in Outputs, NEW s \in Existing(d),
         s \in Specials => m \in Enabled(d),
         Orderly /\ ~d.torn => m \in Enabled(d) /\ (s \in Ids => d.home[s] = m),
         NEW internal \in BOOLEAN, NEW e, e = Changed(d, m, s, internal)
  PROVE  TidyAs(d, e, M) /\ e.focused = d.focused /\ Existing(e) = Existing(d)
<1>1. d \in Desk /\ s \in Workspaces
  BY DeskSets DEF Tidy
<1>2. CASE s \in Specials
  <2>1. e = OpenedSpecial(d, m, s)
    BY <1>2 DEF Changed
  <2> QED  BY <1>2, <2>1, OpenedTidy
<1>3. CASE s \notin Specials /\ d.active[m] = s
  <2>1. e = d
    BY <1>3 DEF Changed
  <2> QED  BY <2>1 DEF TidyAs
<1>4. CASE s \notin Specials /\ d.active[m] # s
  <2>0. s \in Ids
    BY <1>1, <1>4, Sorts
  <2>1. /\ e \in Desk
        /\ \A n \in Outputs : e.active[n] = IF n = m THEN s ELSE d.active[n]
        /\ \A w \in Windows : e.on[w] =
                     IF ~internal /\ w \in d.pinned /\ d.on[w] = d.active[m] /\ d.on[w] # NoWorkspace
                     THEN s ELSE d.on[w]
        /\ e.enabled = d.enabled /\ e.order = d.order /\ e.home = d.home
        /\ e.special = d.special /\ e.focused = d.focused /\ e.torn = d.torn
    BY <1>1, <1>4, <2>0, ChangedFields
  <2>2. Existing(e) = Existing(d) /\ Enabled(e) = Enabled(d)
    BY <2>1 DEF Existing, Enabled
  <2>3. Lit(e) = Lit(d) \cup {m}
    BY <1>1, <2>1, Sorts, <2>0 DEF Lit
  <2>4. Listed(e)
    BY <2>1, <2>2 DEF Listed, Tidy
  <2>5. Orderly /\ ~e.torn => Agrees(e)
    BY <1>1, <2>0, <2>1, ChangedAgrees DEF Tidy
  <2>6. Tidy(e, M)
    BY <2>1, <2>2, <2>3, <2>4, <2>5 DEF Tidy
  <2> QED  BY <2>1, <2>2, <2>6 DEF TidyAs
<1> QED  BY <1>2, <1>3, <1>4

LEMMA CreatedTidy ==
  ASSUME NEW M, NEW d, Tidy(d, M), NEW m \in Outputs, Orderly /\ ~d.torn => m \in Enabled(d),
         NEW s \in Workspaces, NEW e, e = Created(d, s, m)
  PROVE  /\ TidyAs(d, e, M) /\ e.focused = d.focused
         /\ Existing(e) = Existing(d) \cup {s}
         /\ \A x \in Existing(d) : e.home[x] = d.home[x]
         /\ s \notin Existing(d) /\ s \notin Ids => e.home[s] = m
         /\ e.active = d.active /\ e.special = d.special /\ e.visible = d.visible
         /\ e.on = d.on /\ e.screen = d.screen /\ e.pinned = d.pinned
<1>1. d \in Desk
  BY DEF Tidy
<1>2. CASE s \in Existing(d)
  <2>1. e = d
    BY <1>2 DEF Created
  <2> QED  BY <1>2, <2>1 DEF TidyAs
<1>3. CASE s \notin Existing(d)
  <2>1. PICK n \in Outputs : /\ e = Added(d, s, n)
                             /\ n = m \/ (n \in Enabled(d) /\ s \in Ids)
    <3>1. CASE BoundMonitor(d, s) = NoMonitor /\ Created(d, s, m) = Added(d, s, m)
      BY <3>1
    <3>2. CASE /\ BoundMonitor(d, s) \in Enabled(d)
               /\ Created(d, s, m) = Added(d, s, BoundMonitor(d, s))
      <4>1. BoundMonitor(d, s) \in Outputs
        BY <1>1, <3>2, DeskSets
      <4>2. BoundMonitor(d, s) # NoMonitor
        BY <4>1, Sorts
      <4>3. s \in Ids
        BY <4>2 DEF BoundMonitor
      <4> QED  BY <3>2, <4>1, <4>3
    <3> QED  BY <1>1, <1>3, <3>1, <3>2, CreatedIsAdded
  <2>2. /\ e \in Desk
        /\ Existing(e) = Existing(d) \cup {s}
        /\ \A x \in Workspaces : e.home[x] = IF x = s THEN n ELSE d.home[x]
        /\ e.enabled = d.enabled /\ e.visible = d.visible
        /\ e.active = d.active /\ e.special = d.special
        /\ e.focused = d.focused /\ e.on = d.on /\ e.screen = d.screen
        /\ e.pinned = d.pinned /\ e.torn = d.torn
    BY <1>1, <2>1, AddedFields
  <2>3. Enabled(e) = Enabled(d) /\ Lit(e) = Lit(d)
    BY <2>2 DEF Enabled, Lit
  <2>4. \A x \in Existing(d) : e.home[x] = d.home[x]
    BY <1>1, <1>3, <2>2, DeskSets
  <2>5. e.home[s] = n
    BY <2>2
  <2>6. Listed(e)
    BY <2>2 DEF Listed, Tidy
  <2>7. Orderly /\ ~e.torn => Agrees(e)
    BY <1>1, <1>3, <2>1, <2>2, AddedAgrees DEF Tidy
  <2>8. Orderly /\ ~e.torn => n \in Enabled(d)
    BY <2>1, <2>2
  <2>9. Tidy(e, M)
    <3>1. Orderly /\ ~e.torn => \A x \in Existing(e) : e.home[x] \in Enabled(e) \cup M
      BY <2>2, <2>3, <2>4, <2>5, <2>8 DEF Tidy
    <3> QED  BY <2>2, <2>3, <2>6, <2>7, <3>1 DEF Tidy
  <2>10. s \notin Ids => e.home[s] = m
    BY <2>1, <2>5
  <2> QED  BY <2>2, <2>3, <2>4, <2>9, <2>10 DEF TidyAs
<1> QED  BY <1>2, <1>3

LEMMA MovedTidy ==
  ASSUME Endless, NEW M, NEW d, Tidy(d, M), NEW m \in Enabled(d), NEW s \in Existing(d),
         NEW e, e = Moved(d, s, m)
  PROVE  /\ TidyAs(d, e, M) /\ e.focused \in {d.focused, m}
         /\ Existing(d) \subseteq Existing(e) /\ e.home[s] = m
<1>1. d \in Desk /\ m \in Outputs
  BY DeskSets DEF Tidy
<1>2. Follows(d, e, m) /\ Moves(d, e, {s}, m)
  BY <1>1, MovedMoves
<1>3. /\ e.enabled = d.enabled /\ (d.torn => e.torn)
      /\ Existing(d) \subseteq Existing(e)
      /\ \A x \in Existing(d) : e.home[x] = IF x = s THEN m ELSE d.home[x]
      /\ \A x \in Existing(e) \ Existing(d) : e.home[x] = d.home[s]
      /\ e.focused \in {d.focused, m}
  BY <1>2 DEF Moves, HomesMove, ViewsMove
<1>4. Enabled(e) = Enabled(d)
  BY <1>3 DEF Enabled
<1>5. d.torn \in BOOLEAN /\ e.torn \in BOOLEAN /\ e \in Desk
  BY <1>1, <1>2, DeskFields DEF Follows
<1>6. Orderly /\ ~e.torn => Agrees(e) /\ Lit(e) \subseteq Enabled(e)
  BY <1>2, <1>3, <1>4 DEF Follows, Tidy
<1>7. Orderly /\ ~e.torn => \A x \in Existing(e) : e.home[x] \in Enabled(e) \cup M
  BY <1>3, <1>4 DEF Tidy
<1>8. Listed(e) /\ Enabled(e) \subseteq Lit(e)
  BY <1>2, <1>4 DEF Follows, Tidy
<1>9. Tidy(e, M)
  BY <1>5, <1>6, <1>7, <1>8 DEF Tidy
<1> QED  BY <1>3, <1>4, <1>9 DEF TidyAs

-----------------------------------------------------------------------------
(* What the dispatchers do to a tidy desk in use.                           *)

InUse(d) == Tidy(d, {}) /\ d.focused \in Enabled(d)

\* e is in use as d is; a torn one may focus a monitor that is gone.
InUseAs(d, e) == TidyAs(d, e, {}) /\ (Orderly /\ ~e.torn => e.focused \in Enabled(e))

LEMMA InUseFacts ==
  ASSUME NEW d, InUse(d)
  PROVE  /\ d \in Desk /\ Tidy(d, {}) /\ Listed(d) /\ Enabled(d) \subseteq Lit(d)
         /\ Enabled(d) \subseteq Outputs
         /\ d.focused \in Enabled(d)
         /\ Orderly /\ ~d.torn => /\ Agrees(d) /\ \A x \in Existing(d) : d.home[x] \in Enabled(d)
         /\ \A m \in Enabled(d) : m # NoMonitor /\ d.active[m] \in Existing(d) /\ d.active[m] \in Ids
<1>1. d \in Desk /\ Listed(d) /\ Enabled(d) \subseteq Lit(d) /\ d.focused \in Enabled(d)
  BY DEF InUse, Tidy
<1>2. Enabled(d) \subseteq Outputs
  BY <1>1, DeskSets
<1>3. ASSUME NEW m \in Enabled(d)
      PROVE  m # NoMonitor /\ d.active[m] \in Existing(d) /\ d.active[m] \in Ids
  <2>1. m \in Outputs /\ d.active[m] # NoWorkspace
    BY <1>1 DEF Lit
  <2>2. d.active[m] \in Existing(d)
    BY <1>1, <2>1 DEF Listed
  <2>3. d.active[m] \in Ids \cup {NoWorkspace}
    BY <1>1, <2>1, DeskFields
  <2> QED  BY <2>1, <2>2, <2>3, Sorts
<1>4. Orderly /\ ~d.torn => /\ Agrees(d) /\ \A x \in Existing(d) : d.home[x] \in Enabled(d)
  BY DEF InUse, Tidy
<1> QED  BY <1>1, <1>2, <1>3, <1>4 DEF InUse

LEMMA SwappedInUse ==
  ASSUME NEW d, InUse(d), NEW a \in Lit(d), NEW b \in Lit(d), a # b,
         NEW e, e = Swapped(d, a, b)
  PROVE  InUseAs(d, e)
<1>1. PICK A : A = d.active[a]
  OBVIOUS
<1>2. PICK B : B = d.active[b]
  OBVIOUS
<1>3. /\ d \in Desk /\ Listed(d) /\ Enabled(d) \subseteq Lit(d)
      /\ a \in Outputs /\ b \in Outputs
      /\ A \in Existing(d) /\ B \in Existing(d) /\ A \in Ids /\ B \in Ids
      /\ d.focused \in Enabled(d)
      /\ Orderly /\ ~d.torn => /\ Agrees(d) /\ \A x \in Existing(d) : d.home[x] \in Enabled(d)
  <2>1. /\ d \in Desk /\ Listed(d) /\ Enabled(d) \subseteq Lit(d) /\ d.focused \in Enabled(d)
        /\ Orderly /\ ~d.torn => /\ Agrees(d) /\ \A x \in Existing(d) : d.home[x] \in Enabled(d)
    BY InUseFacts
  <2>2. /\ a \in Outputs /\ b \in Outputs /\ A # NoWorkspace /\ B # NoWorkspace
    BY <1>1, <1>2 DEF Lit
  <2>3. A \in Existing(d) /\ B \in Existing(d)
    BY <1>1, <1>2, <2>1, <2>2 DEF Listed
  <2>4. A \in Ids /\ B \in Ids
    BY <1>1, <1>2, <2>1, <2>2, DeskFields
  <2> QED  BY <2>1, <2>2, <2>3, <2>4
<1>4. A \in Workspaces /\ B \in Workspaces /\ A # NoWorkspace /\ B # NoWorkspace
  BY <1>3, Sorts
<1>5. PICK on1 : on1 = [w \in Windows |-> IF d.on[w] = A /\ w \in d.pinned THEN B ELSE d.on[w]]
  OBVIOUS
<1>6. PICK screen1 : screen1 = [w \in Windows |->
                       IF d.on[w] = A /\ w \notin d.pinned THEN b ELSE d.screen[w]]
  OBVIOUS
<1>7. PICK on2 : on2 = [w \in Windows |-> IF on1[w] = B /\ w \in d.pinned THEN A ELSE on1[w]]
  OBVIOUS
<1>8. PICK screen2 : screen2 = [w \in Windows |->
                       IF on1[w] = B /\ w \notin d.pinned THEN a ELSE screen1[w]]
  OBVIOUS
<1>9. e = [d EXCEPT !.home[A] = b, !.home[B] = a, !.active[a] = B, !.active[b] = A,
                    !.on = on2, !.screen = screen2]
  BY <1>1, <1>2, <1>5, <1>6, <1>7, <1>8 DEF Swapped
<1>10. PICK h : h = [d.home EXCEPT ![A] = b, ![B] = a]
  OBVIOUS
<1>11. PICK v : v = [d.active EXCEPT ![a] = B, ![b] = A]
  OBVIOUS
<1>12. e = [d EXCEPT !.home = h, !.active = v, !.on = on2, !.screen = screen2]
  BY <1>3, <1>9, <1>10, <1>11 DEF Desk
<1>13. /\ h \in [Workspaces -> Outputs \cup {NoMonitor}]
       /\ \A x \in Workspaces : h[x] = IF x = B THEN a ELSE IF x = A THEN b ELSE d.home[x]
  BY <1>3, <1>4, <1>10, DeskFields
<1>14. /\ v \in [Outputs -> Ids \cup {NoWorkspace}]
       /\ \A n \in Outputs : v[n] = IF n = b THEN A ELSE IF n = a THEN B ELSE d.active[n]
  BY <1>3, <1>4, <1>11, DeskFields
<1>15. /\ on2 \in [Windows -> Workspaces \cup {NoWorkspace}]
       /\ \A w \in Windows : on2[w] = IF w \in d.pinned /\ d.on[w] \in {A, B} THEN A ELSE d.on[w]
  BY <1>3, <1>4, <1>5, <1>7, DeskFields
<1>16. /\ screen2 \in [Windows -> Outputs \cup {NoMonitor}]
       /\ \A w \in Windows \ d.pinned :
            screen2[w] = IF d.on[w] = B THEN a ELSE IF d.on[w] = A THEN b ELSE d.screen[w]
  BY <1>3, <1>4, <1>5, <1>6, <1>8, DeskFields
<1>17. /\ e \in Desk /\ e.home = h /\ e.active = v /\ e.on = on2 /\ e.screen = screen2
       /\ e.enabled = d.enabled /\ e.order = d.order /\ e.visible = d.visible
       /\ e.special = d.special /\ e.focused = d.focused
       /\ e.pinned = d.pinned /\ e.torn = d.torn
  BY <1>3, <1>12, <1>13, <1>14, <1>15, <1>16 DEF Desk
<1>18. Existing(e) = Existing(d) /\ Enabled(e) = Enabled(d)
  BY <1>17 DEF Existing, Enabled
<1>19. \A x \in Existing(d) : e.home[x] = IF x = B THEN a ELSE IF x = A THEN b ELSE d.home[x]
  BY <1>3, <1>13, <1>17, DeskSets
<1>20. \A n \in Outputs : e.active[n] = IF n = b THEN A ELSE IF n = a THEN B ELSE d.active[n]
  BY <1>14, <1>17
<1>21. Lit(e) = Lit(d)
  BY <1>1, <1>2, <1>4, <1>20 DEF Lit
<1>22. Listed(e)
  BY <1>3, <1>15, <1>17, <1>18, <1>20 DEF Listed
<1>23. ASSUME Orderly /\ ~d.torn  PROVE Agrees(e)
  <2>1. Agrees(d)
    BY <1>3, <1>23
  <2>2. d.home[A] = a /\ d.home[B] = b /\ A # B
    BY <1>1, <1>2, <1>3, <1>4, <2>1 DEF Agrees, ShowsOwn
  <2>3. ShowsOwn(e)
    <3> SUFFICES ASSUME NEW n \in Outputs, e.active[n] # NoWorkspace
                 PROVE  e.active[n] \in Existing(e) /\ e.home[e.active[n]] = n
      BY DEF ShowsOwn
    <3>1. CASE n = a
      BY <1>3, <1>18, <1>19, <1>20, <2>2, <3>1
    <3>2. CASE n = b
      BY <1>3, <1>18, <1>19, <1>20, <2>2, <3>2
    <3>3. CASE n # a /\ n # b
      <4>1. e.active[n] = d.active[n]
        BY <1>20, <3>3
      <4>2. d.active[n] \in Existing(d) /\ d.home[d.active[n]] = n
        BY <2>1, <4>1 DEF Agrees, ShowsOwn
      <4>3. d.active[n] # A /\ d.active[n] # B
        BY <2>2, <3>3, <4>2
      <4> QED  BY <1>18, <1>19, <4>1, <4>2, <4>3
    <3> QED  BY <3>1, <3>2, <3>3
  <2>4. OpensOwn(e)
    <3> SUFFICES ASSUME NEW n \in Outputs, d.special[n] # NoWorkspace
                 PROVE  /\ d.special[n] \in Existing(d) /\ e.home[d.special[n]] = n
                        /\ e.active[n] # NoWorkspace
      BY <1>17, <1>18 DEF OpensOwn
    <3>1. d.special[n] \in Existing(d) /\ d.home[d.special[n]] = n /\ d.active[n] # NoWorkspace
      BY <2>1 DEF Agrees, OpensOwn
    <3>2. d.special[n] \in Specials
      BY <1>3, DeskFields
    <3>3. d.special[n] # A /\ d.special[n] # B
      BY <1>3, <3>2, Sorts
    <3> QED  BY <1>4, <1>19, <1>20, <3>1, <3>3
  <2>5. FlagsShown(e)
    <3> SUFFICES ASSUME NEW t \in Workspaces
                 PROVE  t \in d.visible <=> \E n \in Outputs : e.active[n] = t \/ d.special[n] = t
      BY <1>17 DEF FlagsShown
    <3>1. t \in d.visible <=> \E n \in Outputs : d.active[n] = t \/ d.special[n] = t
      BY <2>1 DEF Agrees, FlagsShown
    <3>2. (\E n \in Outputs : e.active[n] = t) <=> (\E n \in Outputs : d.active[n] = t)
      <4>1. ASSUME NEW n \in Outputs, e.active[n] = t  PROVE \E k \in Outputs : d.active[k] = t
        BY <1>1, <1>2, <1>3, <1>20, <4>1
      <4>2. ASSUME NEW n \in Outputs, d.active[n] = t  PROVE \E k \in Outputs : e.active[k] = t
        BY <1>1, <1>2, <1>3, <1>20, <4>2
      <4> QED  BY <4>1, <4>2
    <3> QED  BY <3>1, <3>2
  <2>6. WindowsPlaced(e)
    <3> SUFFICES ASSUME NEW w \in Windows
                 PROVE  /\ e.on[w] # NoWorkspace => e.on[w] \in Existing(e)
                        /\ e.on[w] # NoWorkspace /\ w \notin e.pinned => e.screen[w] = e.home[e.on[w]]
                        /\ w \in e.pinned => e.on[w] # NoWorkspace
      BY DEF WindowsPlaced
    <3>1. /\ d.on[w] # NoWorkspace => d.on[w] \in Existing(d)
          /\ d.on[w] # NoWorkspace /\ w \notin d.pinned => d.screen[w] = d.home[d.on[w]]
          /\ w \in d.pinned => d.on[w] # NoWorkspace
      BY <2>1 DEF Agrees, WindowsPlaced
    <3>2. CASE w \in d.pinned
      BY <1>3, <1>4, <1>15, <1>17, <1>18, <3>1, <3>2
    <3>3. CASE w \notin d.pinned
      BY <1>15, <1>16, <1>17, <1>18, <1>19, <3>1, <3>3
    <3> QED  BY <3>2, <3>3
  <2> QED  BY <2>3, <2>4, <2>5, <2>6 DEF Agrees
<1>24. Lit(d) \subseteq Enabled(d) \/ d.torn \/ ~Orderly
  BY DEF InUse, Tidy
<1>25. Orderly /\ ~d.torn => \A x \in Existing(e) : e.home[x] \in Enabled(e)
  BY <1>3, <1>18, <1>19, <1>24
<1>26. Tidy(e, {})
  BY <1>3, <1>17, <1>18, <1>21, <1>22, <1>23, <1>24, <1>25 DEF Tidy
<1> QED  BY <1>3, <1>17, <1>18, <1>26 DEF TidyAs, InUseAs

\* What changes another workspace closes first.
LEMMA BareInUse ==
  ASSUME NEW d, InUse(d), NEW n \in Outputs,
         NEW e, e = IF HideSpecial THEN ClosedSpecial(d, n) ELSE d
  PROVE  InUseAs(d, e) /\ Existing(e) = Existing(d) /\ e.home = d.home
<1>1. Tidy(d, {}) /\ d.focused \in Enabled(d)
  BY DEF InUse
<1>2. CASE HideSpecial
  <2>1. e = ClosedSpecial(d, n)
    BY <1>2
  <2>2. TidyAs(d, e, {}) /\ e.focused = d.focused /\ Existing(e) = Existing(d) /\ e.home = d.home
    BY <1>1, <2>1, ClosedTidy
  <2> QED  BY <1>1, <2>2 DEF TidyAs, InUseAs
<1>3. CASE ~HideSpecial
  BY <1>1, <1>3 DEF TidyAs, InUseAs
<1> QED  BY <1>2, <1>3

LEMMA ChangedToInUse ==
  ASSUME NEW d, InUse(d), NEW s \in Workspaces, NEW e, e = ChangedTo(d, s)
  PROVE  InUseAs(d, e)
<1>1. PICK m : m = d.focused
  OBVIOUS
<1>2. PICK made : made = Created(d, s, m)
  OBVIOUS
<1>3. PICK owner : owner = made.home[s]
  OBVIOUS
<1>4. m \in Enabled(d) /\ m \in Outputs /\ Tidy(d, {})
  BY <1>1, InUseFacts
<1>5. /\ TidyAs(d, made, {}) /\ made.focused = m
      /\ s \in Existing(made)
  BY <1>1, <1>2, <1>4, CreatedTidy
<1>6. CASE s = d.active[m]
  <2>1. e = IF HideSpecial THEN ClosedSpecial(d, m) ELSE d
    BY <1>1, <1>6 DEF ChangedTo
  <2> QED  BY <1>4, <2>1, BareInUse
<1>7. CASE s # d.active[m] /\ s \in Specials
  <2>1. e = OpenedSpecial(made, m, s)
    BY <1>1, <1>2, <1>7 DEF ChangedTo
  <2>2. m \in Enabled(made) /\ Tidy(made, {})
    BY <1>4, <1>5 DEF TidyAs
  <2>3. TidyAs(made, e, {}) /\ e.focused = made.focused
    BY <1>5, <1>7, <2>1, <2>2, OpenedTidy
  <2> QED  BY <1>4, <1>5, <2>3 DEF TidyAs, InUseAs
<1>8. CASE s # d.active[m] /\ s \notin Specials /\ owner = NoMonitor
  <2>1. e = made
    BY <1>1, <1>2, <1>3, <1>8 DEF ChangedTo
  <2> QED  BY <1>4, <1>5, <2>1 DEF TidyAs, InUseAs
<1>9. CASE s # d.active[m] /\ s \notin Specials /\ owner # NoMonitor
  <2>0. PICK internal \in BOOLEAN : internal = FALSE
    OBVIOUS
  <2>1. PICK f : f = [made EXCEPT !.focused = owner]
    OBVIOUS
  <2>2. PICK c : c = IF HideSpecial THEN ClosedSpecial(f, owner) ELSE f
    OBVIOUS
  <2>3. e = Changed(c, owner, s, internal)
    BY <1>1, <1>2, <1>3, <1>9, <2>0, <2>1, <2>2 DEF ChangedTo
  <2>4. made \in Desk /\ Tidy(made, {}) /\ Enabled(made) = Enabled(d) /\ (d.torn => made.torn)
    BY <1>5 DEF TidyAs, Tidy
  <2>5. owner \in Outputs
    BY <1>3, <1>9, <2>4, DeskFields
  <2>6. TidyAs(made, f, {}) /\ f.focused = owner /\ Existing(f) = Existing(made)
    BY <2>1, <2>4, <2>5, FocusTidy
  <2>7. f.home = made.home /\ f.torn = made.torn
    BY <2>1, <2>4 DEF Desk
  <2>8. /\ TidyAs(f, c, {}) /\ c.focused = owner
        /\ Existing(c) = Existing(made) /\ c.home = made.home
    <3>1. CASE HideSpecial
      <4>1. c = ClosedSpecial(f, owner)
        BY <2>2, <3>1
      <4>2. Tidy(f, {})
        BY <2>6 DEF TidyAs
      <4> QED  BY <2>5, <2>6, <2>7, <4>1, <4>2, ClosedTidy
    <3>2. CASE ~HideSpecial
      BY <2>2, <2>6, <2>7, <3>2 DEF TidyAs
    <3> QED  BY <3>1, <3>2
  <2>9. TidyAs(made, c, {}) /\ Tidy(c, {})
    BY <2>6, <2>8, TidyAsOn DEF TidyAs
  <2>10. s \in Ids /\ s \in Existing(c) /\ c.home[s] = owner
    BY <1>3, <1>5, <1>9, <2>8, Sorts
  <2>11. Orderly /\ ~c.torn => owner \in Enabled(c)
    BY <2>9, <2>10 DEF Tidy
  <2>12. s \notin Specials
    BY <1>9
  <2>13. TidyAs(c, e, {}) /\ e.focused = c.focused
    BY <2>3, <2>5, <2>9, <2>10, <2>11, <2>12, ChangedTidy
  <2>14. TidyAs(d, c, {})
    BY <1>5, <2>9, TidyAsOn
  <2>15. TidyAs(d, e, {})
    BY <2>13, <2>14, TidyAsOn
  <2>16. Orderly /\ ~e.torn => e.focused \in Enabled(e)
    BY <2>8, <2>11, <2>13 DEF TidyAs
  <2> QED  BY <2>15, <2>16 DEF InUseAs
<1> QED  BY <1>6, <1>7, <1>8, <1>9

LEMMA FocusedInUse ==
  ASSUME NEW d, InUse(d), NEW w \in Mapped(d), NEW e, e = Focused(d, w)
  PROVE  InUseAs(d, e)
<1>1. PICK f : f = d.focused
  OBVIOUS
<1>2. /\ d \in Desk /\ Tidy(d, {}) /\ Listed(d) /\ f \in Enabled(d) /\ f \in Outputs
      /\ d.active[f] \in Existing(d) /\ d.active[f] \in Ids
      /\ w \in Windows /\ d.on[w] # NoWorkspace
  BY <1>1, InUseFacts DEF Mapped
<1>3. PICK here : here = IF w \in d.pinned THEN [d EXCEPT !.on[w] = d.active[f]] ELSE d
  OBVIOUS
<1>4. d.active[f] \in Workspaces /\ d.active[f] # NoWorkspace
  BY <1>2, Sorts
<1>5. /\ here \in Desk /\ here.enabled = d.enabled /\ here.order = d.order /\ here.home = d.home
      /\ here.visible = d.visible /\ here.active = d.active
      /\ here.special = d.special /\ here.screen = d.screen
      /\ here.pinned = d.pinned /\ here.torn = d.torn /\ here.focused = f
      /\ \A u \in Windows : here.on[u] = IF u = w /\ w \in d.pinned THEN d.active[f] ELSE d.on[u]
  <2>1. CASE w \in d.pinned
    <3>1. PICK on : on = [d.on EXCEPT ![w] = d.active[f]]
      OBVIOUS
    <3>2. here = [d EXCEPT !.on = on]
      BY <1>3, <2>1, <3>1
    <3>3. /\ on \in [Windows -> Workspaces \cup {NoWorkspace}]
          /\ \A u \in Windows : on[u] = IF u = w THEN d.active[f] ELSE d.on[u]
      BY <1>2, <1>4, <3>1, DeskFields
    <3> QED  BY <1>1, <1>2, <2>1, <3>2, <3>3 DEF Desk
  <2>2. CASE w \notin d.pinned
    BY <1>1, <1>2, <1>3, <2>2
  <2> QED  BY <2>1, <2>2
<1>6. Existing(here) = Existing(d) /\ Enabled(here) = Enabled(d) /\ Lit(here) = Lit(d)
  BY <1>5 DEF Existing, Enabled, Lit
<1>7. Listed(here)
  BY <1>2, <1>5, <1>6 DEF Listed
<1>8. Orderly /\ ~d.torn => Agrees(here)
  <2> SUFFICES ASSUME Orderly /\ ~d.torn  PROVE Agrees(here)
    OBVIOUS
  <2>1. Agrees(d)
    BY DEF InUse, Tidy
  <2>2. ShowsOwn(here) /\ OpensOwn(here) /\ FlagsShown(here)
    BY <1>5, <1>6, <2>1 DEF Agrees, ShowsOwn, OpensOwn, FlagsShown
  <2>3. WindowsPlaced(here)
    BY <1>2, <1>4, <1>5, <1>6, <2>1 DEF Agrees, WindowsPlaced
  <2> QED  BY <2>2, <2>3 DEF Agrees
<1>9. TidyAs(d, here, {})
  BY <1>2, <1>5, <1>6, <1>7, <1>8 DEF Tidy, TidyAs
<1>10. Tidy(here, {})
  BY <1>9 DEF TidyAs
<1>11. PICK s : s = here.on[w]
  OBVIOUS
<1>12. PICK m : m = here.screen[w]
  OBVIOUS
<1>13. s \in Existing(here) /\ s # NoWorkspace /\ s \in Workspaces /\ m \in Outputs \cup {NoMonitor}
  <2>1. s # NoWorkspace
    BY <1>2, <1>4, <1>5, <1>11
  <2>2. s \in Existing(here)
    BY <1>2, <1>7, <1>11, <2>1 DEF Listed
  <2>3. s \in Workspaces
    BY <1>5, <2>2, DeskSets
  <2>4. m \in Outputs \cup {NoMonitor}
    BY <1>2, <1>5, <1>12, DeskFields
  <2> QED  BY <2>1, <2>2, <2>3, <2>4
<1>14. PICK internal \in BOOLEAN : internal = FALSE
  OBVIOUS
<1>15. TidyAs(here, e, {}) /\ e.focused = here.focused
  <2>1. CASE e = here
    BY <1>10, <2>1 DEF TidyAs
  <2>2. CASE s \notin here.visible /\ s \in Specials /\ e = Changed(here, here.focused, s, FALSE)
    <3>1. e = Changed(here, f, s, internal)
      BY <1>5, <1>14, <2>2
    <3>2. f \in Enabled(here) /\ s \notin Ids
      BY <1>2, <1>6, <2>2, Sorts
    <3> QED  BY <1>2, <1>10, <1>13, <3>1, <3>2, ChangedTidy
  <2>3. CASE /\ s \notin here.visible /\ s \notin Specials /\ m # NoMonitor
             /\ e = Changed(here, m, s, FALSE)
    <3>1. e = Changed(here, m, s, internal) /\ m \in Outputs /\ s \in Ids
      BY <1>13, <1>14, <2>3, Sorts
    <3>2. ASSUME Orderly /\ ~here.torn  PROVE m \in Enabled(here) /\ here.home[s] = m
      <4>1. Agrees(here) /\ \A x \in Existing(here) : here.home[x] \in Enabled(here)
        BY <1>10, <3>2 DEF Tidy
      <4>2. CASE w \in d.pinned
        <5>1. s = here.active[f]
          BY <1>2, <1>5, <1>11, <4>2
        <5>2. s \in here.visible
          BY <1>2, <1>13, <4>1, <5>1 DEF Agrees, FlagsShown
        <5> QED  BY <2>3, <5>2
      <4>3. CASE w \notin d.pinned
        <5>1. m = here.home[s]
          BY <1>2, <1>5, <1>11, <1>12, <1>13, <4>1, <4>3 DEF Agrees, WindowsPlaced
        <5> QED  BY <1>13, <4>1, <5>1
      <4> QED  BY <4>2, <4>3
    <3>3. s \notin Specials
      BY <2>3
    <3> QED  BY <1>10, <1>13, <3>1, <3>2, <3>3, ChangedTidy
  <2>4. CASE m # NoMonitor /\ e = ClosedSpecial(here, m)
    <3>1. m \in Outputs
      BY <1>13, <2>4
    <3> QED  BY <1>10, <2>4, <3>1, ClosedTidy
  <2>5. e = IF s \notin here.visible
            THEN IF s \in Specials THEN Changed(here, here.focused, s, FALSE)
                 ELSE IF m # NoMonitor THEN Changed(here, m, s, FALSE) ELSE here
            ELSE IF m # NoMonitor /\ here.special[m] \notin {s, NoWorkspace} /\ w \notin d.pinned
                 THEN ClosedSpecial(here, m) ELSE here
    BY <1>1, <1>3, <1>11, <1>12 DEF Focused
  <2> QED  BY <2>1, <2>2, <2>3, <2>4, <2>5
<1>16. TidyAs(d, e, {})
  BY <1>9, <1>15, TidyAsOn
<1> QED  BY <1>2, <1>5, <1>15, <1>16 DEF TidyAs, InUseAs

LEMMA CarriedTidy ==
  ASSUME NEW d, Tidy(d, {}), NEW w \in Mapped(d), NEW s \in Existing(d),
         NEW e, e = Carried(d, w, s)
  PROVE  /\ TidyAs(d, e, {}) /\ e.focused = d.focused /\ Existing(e) = Existing(d)
         /\ e.home = d.home /\ w \in Mapped(e)
<1>1. PICK old : old = d.on[w]
  OBVIOUS
<1>2. /\ d \in Desk /\ Listed(d) /\ w \in Windows /\ old # NoWorkspace
      /\ s \in Workspaces /\ s # NoWorkspace
  <2>1. d \in Desk /\ Listed(d)
    BY DEF Tidy
  <2> QED  BY <1>1, <2>1, DeskSets, Sorts DEF Mapped
<1>3. PICK gone : gone = [d EXCEPT !.on[w] = s, !.screen[w] = d.home[s]]
  OBVIOUS
<1>4. /\ gone \in Desk /\ gone.enabled = d.enabled /\ gone.order = d.order /\ gone.home = d.home
      /\ gone.visible = d.visible /\ gone.active = d.active
      /\ gone.special = d.special /\ gone.focused = d.focused
      /\ gone.pinned = d.pinned /\ gone.torn = d.torn
      /\ \A u \in Windows : gone.on[u] = IF u = w THEN s ELSE d.on[u]
      /\ \A u \in Windows : gone.screen[u] = IF u = w THEN d.home[s] ELSE d.screen[u]
  <2>1. PICK on : on = [d.on EXCEPT ![w] = s]
    OBVIOUS
  <2>2. PICK screen : screen = [d.screen EXCEPT ![w] = d.home[s]]
    OBVIOUS
  <2>3. gone = [d EXCEPT !.on = on, !.screen = screen]
    BY <1>2, <1>3, <2>1, <2>2 DEF Desk
  <2>4. d.home[s] \in Outputs \cup {NoMonitor}
    BY <1>2, DeskFields
  <2>5. /\ on \in [Windows -> Workspaces \cup {NoWorkspace}]
        /\ screen \in [Windows -> Outputs \cup {NoMonitor}]
        /\ \A u \in Windows : on[u] = IF u = w THEN s ELSE d.on[u]
        /\ \A u \in Windows : screen[u] = IF u = w THEN d.home[s] ELSE d.screen[u]
    BY <1>2, <2>1, <2>2, <2>4, DeskFields
  <2> QED  BY <1>2, <2>3, <2>5 DEF Desk
<1>5. Existing(gone) = Existing(d) /\ Enabled(gone) = Enabled(d) /\ Lit(gone) = Lit(d)
  BY <1>4 DEF Existing, Enabled, Lit
<1>6. Listed(gone)
  BY <1>2, <1>4, <1>5 DEF Listed
<1>7. Orderly /\ ~d.torn => Agrees(gone)
  <2> SUFFICES ASSUME Orderly /\ ~d.torn  PROVE Agrees(gone)
    OBVIOUS
  <2>1. Agrees(d)
    BY DEF Tidy
  <2>2. ShowsOwn(gone) /\ OpensOwn(gone) /\ FlagsShown(gone)
    BY <1>4, <1>5, <2>1 DEF Agrees, ShowsOwn, OpensOwn, FlagsShown
  <2>3. WindowsPlaced(gone)
    BY <1>2, <1>4, <1>5, <2>1 DEF Agrees, WindowsPlaced
  <2> QED  BY <2>2, <2>3 DEF Agrees
<1>8. TidyAs(d, gone, {}) /\ Tidy(gone, {})
  BY <1>4, <1>5, <1>6, <1>7 DEF Tidy, TidyAs
<1>9. w \in Mapped(gone)
  BY <1>2, <1>4 DEF Mapped
<1>10. CASE w \in d.pinned /\ s \in Specials
  <2>1. e = d
    BY <1>10 DEF Carried
  <2> QED  BY <2>1 DEF TidyAs
<1>11. CASE ~(w \in d.pinned /\ s \in Specials) /\ e = gone
  BY <1>4, <1>5, <1>8, <1>9, <1>11
<1>12. CASE d.home[old] # NoMonitor /\ old \in Specials /\ e = ClosedSpecial(gone, d.home[old])
  <2>1. d.home[old] \in Outputs
    BY <1>2, <1>12, DeskFields, Sorts
  <2>2. /\ TidyAs(gone, e, {}) /\ e.focused = gone.focused /\ Existing(e) = Existing(gone)
        /\ e.home = gone.home /\ e.on = gone.on
    BY <1>8, <1>12, <2>1, ClosedTidy
  <2>3. TidyAs(d, e, {})
    BY <1>8, <2>2, TidyAsOn
  <2> QED  BY <1>4, <1>5, <1>9, <2>2, <2>3 DEF Mapped
<1>13. e = IF w \in d.pinned /\ s \in Specials THEN d
           ELSE IF old \in Specials /\ WindowsOn(gone, old) = {} /\ d.home[old] # NoMonitor
                THEN ClosedSpecial(gone, d.home[old]) ELSE gone
  BY <1>1, <1>3 DEF Carried
<1> QED  BY <1>10, <1>11, <1>12, <1>13

LEMMA ChangedMapped ==
  ASSUME NEW d \in Desk, NEW m \in Outputs, NEW s \in Workspaces, NEW internal \in BOOLEAN,
         NEW e, e = Changed(d, m, s, internal)
  PROVE  Mapped(d) \subseteq Mapped(e)
<1>1. CASE s \in Specials
  <2>1. e = OpenedSpecial(d, m, s)
    BY <1>1 DEF Changed
  <2>2. e.on = d.on
    <3>1. CASE d.special[m] = s
      BY <2>1, <3>1 DEF OpenedSpecial
    <3>2. CASE d.special[m] # s
      BY <1>1, <2>1, <3>2, OpenedSpecialFields
    <3> QED  BY <3>1, <3>2
  <2> QED  BY <2>2 DEF Mapped
<1>2. CASE s \notin Specials /\ d.active[m] = s
  BY <1>2 DEF Changed
<1>3. CASE s \notin Specials /\ d.active[m] # s
  <2>1. s \in Ids /\ s # NoWorkspace
    BY <1>3, Sorts
  <2>2. \A w \in Windows : e.on[w] =
          IF ~internal /\ w \in d.pinned /\ d.on[w] = d.active[m] /\ d.on[w] # NoWorkspace
          THEN s ELSE d.on[w]
    BY <1>3, <2>1, ChangedFields
  <2> QED  BY <2>1, <2>2 DEF Mapped
<1> QED  BY <1>1, <1>2, <1>3

LEMMA FollowedInUse ==
  ASSUME NEW d, InUse(d), NEW w \in Mapped(d), NEW s \in Existing(d), NEW m \in Enabled(d),
         d.home[s] = m, NEW old, Orderly /\ ~d.torn => old \in Existing(d),
         NEW e, e = Followed(d, w, s, m, old)
  PROVE  InUseAs(d, e)
<1>1. /\ d \in Desk /\ Tidy(d, {}) /\ d.focused \in Enabled(d) /\ m \in Outputs
      /\ s \in Workspaces
      /\ Orderly /\ ~d.torn => \A x \in Existing(d) : d.home[x] \in Enabled(d) /\ d.home[x] \in Outputs
  BY InUseFacts, DeskSets
<1>2. PICK open : open = IF s \in Specials THEN OpenedSpecial(d, m, s)
                         ELSE IF old \in Specials THEN ClosedSpecial(d, d.home[old])
                         ELSE d
  OBVIOUS
<1>3. /\ TidyAs(d, open, {}) /\ open.focused = d.focused /\ Existing(open) = Existing(d)
      /\ open.on = d.on /\ (s \notin Specials => open.home = d.home)
  <2>1. CASE s \in Specials
    <3>1. open = OpenedSpecial(d, m, s)
      BY <1>2, <2>1
    <3> QED  BY <1>1, <2>1, <3>1, OpenedTidy
  <2>2. CASE s \notin Specials /\ old \in Specials
    <3>1. PICK n : n = d.home[old]
      OBVIOUS
    <3>2. open = ClosedSpecial(d, n)
      BY <1>2, <2>2, <3>1
    <3>3. Orderly /\ ~d.torn => n \in Outputs
      BY <1>1, <3>1
    <3> QED  BY <1>1, <3>2, <3>3, ClosedTidy
  <2>3. CASE s \notin Specials /\ old \notin Specials
    <3>1. open = d
      BY <1>2, <2>3
    <3> QED  BY <1>1, <3>1 DEF TidyAs
  <2> QED  BY <2>1, <2>2, <2>3
<1>4. PICK internal \in BOOLEAN : internal = FALSE
  OBVIOUS
<1>5. PICK c : c = Changed(open, m, s, internal)
  OBVIOUS
<1>6. Tidy(open, {}) /\ Enabled(open) = Enabled(d) /\ m \in Enabled(open) /\ s \in Existing(open)
  BY <1>3 DEF TidyAs
<1>7. s \in Ids => open.home[s] = m
  BY <1>3, Sorts
<1>8. TidyAs(open, c, {}) /\ c.focused = open.focused
  BY <1>1, <1>5, <1>6, <1>7, ChangedTidy
<1>9. TidyAs(d, c, {})
  BY <1>3, <1>8, TidyAsOn
<1>10. InUse(c)
  BY <1>1, <1>3, <1>8, <1>9 DEF InUse, TidyAs
<1>11. open \in Desk
  BY <1>6 DEF Tidy
<1>12. Mapped(open) \subseteq Mapped(c)
  BY <1>1, <1>5, <1>11, ChangedMapped
<1>13. w \in Mapped(c)
  BY <1>3, <1>12 DEF Mapped
<1>14. e = Focused(c, w)
  BY <1>2, <1>4, <1>5 DEF Followed
<1>15. InUseAs(c, e)
  BY <1>10, <1>13, <1>14, FocusedInUse
<1>16. TidyAs(d, e, {})
  BY <1>9, <1>15, TidyAsOn DEF InUseAs
<1> QED  BY <1>15, <1>16 DEF InUseAs

-----------------------------------------------------------------------------
(* A handler leaves the desk nearly tidy: so but for what is not held.      *)

Nearly(d, M) ==
  /\ d \in Desk /\ Listed(d) /\ Enabled(d) \subseteq Lit(d)
  /\ Orderly /\ ~d.torn => /\ Agrees(d) /\ Lit(d) \subseteq Enabled(d)
                           /\ HomesIn(d, Enabled(d) \cup M)

LEMMA TidyNearly ==
  ASSUME NEW M, NEW d, Tidy(d, M)
  PROVE  Nearly(d, M)
BY DEF Tidy, Nearly, HomesIn

LEMMA CollectedTidy ==
  ASSUME NEW M, NEW d, Nearly(d, M), NEW e, e = Collected(d)
  PROVE  /\ Tidy(e, M) /\ Enabled(e) = Enabled(d) /\ e.focused = d.focused /\ e.torn = d.torn
         /\ e.visible \subseteq Existing(e)
<1>1. d \in Desk
  BY DEF Nearly
<1>2. /\ e \in Desk
      /\ Existing(e) = Existing(d) \cap Held(d)
      /\ \A x \in Existing(e) : e.home[x] = d.home[x]
      /\ e.visible = d.visible \cap Existing(e)
      /\ e.enabled = d.enabled /\ e.focused = d.focused /\ e.torn = d.torn
  BY <1>1, CollectedFields
<1>3. (Agrees(d) => Agrees(e)) /\ (Listed(d) => Listed(e)) /\ Lit(e) = Lit(d)
  BY <1>1, CollectedAgrees
<1>4. Enabled(e) = Enabled(d)
  BY <1>2 DEF Enabled
<1>5. HomesIn(d, Enabled(d) \cup M) => \A x \in Existing(e) : e.home[x] \in Enabled(e) \cup M
  BY <1>2, <1>4 DEF HomesIn
<1>6. Tidy(e, M)
  BY <1>2, <1>3, <1>4, <1>5 DEF Tidy, Nearly
<1> QED  BY <1>2, <1>4, <1>6

LEMMA ConnectedTidy ==
  ASSUME Endless, seen \in [Outputs -> Ids \cup {NoWorkspace}], NEW M, NEW d, Tidy(d, M),
         NEW m \in Outputs, Orderly /\ ~d.torn => m \notin Enabled(d),
         NEW e, e = Connected(d, m)
  PROVE  /\ Tidy(e, M) /\ Enabled(e) = Enabled(d) \cup {m} /\ e.focused \in Enabled(e)
         /\ d.torn => e.torn
<1>1. d \in Desk /\ (Orderly /\ ~d.torn => m \notin Lit(d))
  BY DEF Tidy
<1>0. PICK c, V : Comes(d, c, e, V, m)
  BY <1>1, ConnectedSettles
<1>2. /\ c \in Desk /\ Existing(c) = Existing(d) /\ Enabled(c) = Enabled(d) \cup {m}
      /\ c.home = d.home /\ c.visible = d.visible /\ c.active = d.active
      /\ c.special = d.special /\ c.on = d.on /\ c.screen = d.screen
      /\ c.pinned = d.pinned /\ c.torn = d.torn
      /\ m \in Lit(e) /\ e.focused \in Enabled(e)
      /\ Settles(c, e, V, m)
  BY <1>0 DEF Comes
<1>3. /\ e \in Desk /\ (Listed(c) => Listed(e))
      /\ Lit(c) \subseteq Lit(e) /\ Lit(e) \subseteq Lit(c) \cup {m}
      /\ Orderly /\ Agrees(c) /\ ~e.torn => Agrees(e)
      /\ e.enabled = c.enabled /\ (c.torn => e.torn)
      /\ \A x \in Existing(e) : e.home[x] = m \/ \E y \in Existing(c) : e.home[x] = c.home[y]
  BY <1>2 DEF Settles, Follows
<1>4. Lit(c) = Lit(d) /\ (Listed(d) => Listed(c)) /\ Enabled(e) = Enabled(c)
  BY <1>2, <1>3 DEF Lit, Listed, Enabled
<1>5. Agrees(d) => Agrees(c)
  BY <1>1, <1>2, QuietAgrees
<1>6. Enabled(e) = Enabled(d) \cup {m} /\ Enabled(e) \subseteq Lit(e) /\ Listed(e)
  BY <1>2, <1>3, <1>4 DEF Tidy
<1>7. d.torn => e.torn
  BY <1>2, <1>3
<1>8. ASSUME Orderly /\ ~e.torn
      PROVE  /\ Agrees(e) /\ Lit(e) \subseteq Enabled(e)
             /\ \A x \in Existing(e) : e.home[x] \in Enabled(e) \cup M
  <2>1. /\ Agrees(d) /\ Lit(d) \subseteq Enabled(d)
        /\ \A x \in Existing(d) : d.home[x] \in Enabled(d) \cup M
    BY <1>7, <1>8 DEF Tidy
  <2>2. Agrees(e)
    BY <1>3, <1>5, <1>8, <2>1
  <2>3. Lit(e) \subseteq Enabled(e)
    BY <1>3, <1>4, <1>6, <2>1
  <2>4. \A x \in Existing(e) : e.home[x] \in Enabled(e) \cup M
    BY <1>2, <1>3, <1>6, <2>1
  <2> QED  BY <2>2, <2>3, <2>4
<1>9. Tidy(e, M)
  BY <1>3, <1>6, <1>8 DEF Tidy
<1> QED  BY <1>2, <1>6, <1>7, <1>9

\* A monitor goes, and another one is there.
\* The others show what they showed.
PassesOn(d, e, m) == \A n \in Outputs \ {m} : e.active[n] = d.active[n]

LEMMA DisconnectedNearly ==
  ASSUME Endless, NEW M, M \subseteq {NoMonitor}, NEW d, Tidy(d, M), NEW m \in Outputs,
         OthersThan(d, m) # <<>>, NEW e, e = Disconnected(d, m)
  PROVE  /\ Nearly(e, {}) /\ Enabled(e) = Enabled(d) \ {m} /\ Enabled(e) # {}
         /\ d.focused \in Enabled(d) => e.focused \in Enabled(e)
         /\ d.torn => e.torn
         /\ PassesOn(d, e, m)
<1>1. d \in Desk /\ m \in Outputs
  BY DeskSets DEF Tidy
<1>2. PICK backup : backup = OthersThan(d, m)[1]
  OBVIOUS
<1>3. backup \in Enabled(d) \ {m} /\ backup \in Outputs \ {m}
  BY <1>1, <1>2, OthersMembers, DeskSets
<1>4. e = Evacuated(d, m, backup)
  BY <1>2 DEF Disconnected
<1>5. /\ e \in Desk /\ Enabled(e) = Enabled(d) \ {m} /\ (d.torn => e.torn)
      /\ Listed(d) => Listed(e)
      /\ Lit(d) \ {m} \subseteq Lit(e) /\ Lit(e) \subseteq (Lit(d) \cup {backup}) \ {m}
      /\ e.focused = backup
      /\ \A n \in Outputs \ {m} : e.active[n] = d.active[n]
      /\ Orderly /\ Agrees(d) /\ ~e.torn => Agrees(e)
      /\ Orderly /\ Agrees(d) /\ ~e.torn /\ backup \in Enabled(d)
           /\ (\A x \in Existing(d) : d.home[x] \in Enabled(d) \cup {NoMonitor})
         => HomesIn(e, Enabled(e))
  BY <1>1, <1>3, <1>4, EvacuatedKeeps, SMTT(60)
<1>6. Listed(e) /\ Enabled(e) \subseteq Lit(e)
  BY <1>5 DEF Tidy
<1>7. ASSUME Orderly /\ ~e.torn
      PROVE  Agrees(e) /\ Lit(e) \subseteq Enabled(e) /\ HomesIn(e, Enabled(e) \cup {})
  <2>1. /\ Agrees(d) /\ Lit(d) \subseteq Enabled(d)
        /\ \A x \in Existing(d) : d.home[x] \in Enabled(d) \cup M
    BY <1>5, <1>7 DEF Tidy
  <2>2. \A x \in Existing(d) : d.home[x] \in Enabled(d) \cup {NoMonitor}
    BY <2>1
  <2>3. HomesIn(e, Enabled(e)) /\ Agrees(e)
    BY <1>3, <1>5, <1>7, <2>1, <2>2
  <2>4. Enabled(e) \cup {} = Enabled(e)
    OBVIOUS
  <2>5. Lit(e) \subseteq Enabled(e)
    BY <1>3, <1>5, <2>1
  <2> QED  BY <2>3, <2>4, <2>5
<1>8. Nearly(e, {})
  BY <1>5, <1>6, <1>7 DEF Nearly
<1>9. PassesOn(d, e, m)
  BY <1>5 DEF PassesOn
<1> QED  BY <1>3, <1>5, <1>8, <1>9

\* The last monitor goes: the fallback takes over, without a focus.
LEMMA LastDisconnected ==
  ASSUME Endless, seen \in [Outputs -> Ids \cup {NoWorkspace}],
         NEW M, M \subseteq {NoMonitor}, NEW d, Tidy(d, M), NEW m \in Enabled(d), m # Fallback,
         OthersThan(d, m) = <<>>, NEW e, e = Disconnected(d, m)
  PROVE  /\ Nearly(e, {m, NoMonitor}) /\ Enabled(e) = {Fallback}
         /\ e.focused = NoMonitor /\ (d.torn => e.torn)
<1>1. d \in Desk /\ m \in Outputs
  BY DeskSets DEF Tidy
<1>2. Enabled(d) = {m}
  BY <1>1, OthersMembers
<1>3. PICK k : k = Connected(d, Fallback)
  OBVIOUS
<1>4. Fallback \notin Enabled(d) /\ Fallback \in Outputs
  BY <1>2, Sorts
<1>5. Tidy(k, M) /\ Enabled(k) = {m, Fallback} /\ (d.torn => k.torn)
  <2>1. Tidy(k, M) /\ Enabled(k) = Enabled(d) \cup {Fallback} /\ (d.torn => k.torn)
    BY <1>3, <1>4, ConnectedTidy
  <2> QED  BY <1>2, <2>1
<1>6. PICK b : b = [k EXCEPT !.focused = NoMonitor]
  OBVIOUS
<1>7. TidyAs(k, b, M) /\ b.focused = NoMonitor
  BY <1>5, <1>6, FocusTidy
<1>8. /\ Tidy(b, M) /\ b \in Desk /\ Listed(b) /\ Enabled(b) = {m, Fallback}
      /\ Enabled(b) \subseteq Lit(b) /\ (d.torn => b.torn)
  BY <1>5, <1>7 DEF TidyAs, Tidy
<1>9. e = Dark(b, m)
  BY <1>3, <1>6 DEF Disconnected
<1>10. b \in Desk
  BY <1>8
<1>11. /\ e \in Desk /\ Enabled(e) = Enabled(b) \ {m} /\ (b.torn => e.torn)
       /\ e.order = b.order /\ e.home = b.home /\ e.focused = b.focused
  BY <1>1, <1>9, <1>10, DarkFields, SMTT(60)
<1>12. /\ Lit(e) = Lit(b) \ {m}
       /\ Listed(b) => Listed(e)
       /\ Agrees(b) /\ ~e.torn => Agrees(e)
  BY <1>1, <1>9, <1>10, DarkKeeps
<1>13. Enabled(e) = {Fallback} /\ Enabled(e) \subseteq Lit(e) /\ Listed(e)
  BY <1>8, <1>11, <1>12
<1>14. ASSUME Orderly /\ ~e.torn
       PROVE  /\ Agrees(e) /\ Lit(e) \subseteq Enabled(e)
              /\ HomesIn(e, Enabled(e) \cup {m, NoMonitor})
  <2>1. /\ Agrees(b) /\ Lit(b) \subseteq Enabled(b)
        /\ \A x \in Existing(b) : b.home[x] \in Enabled(b) \cup M
    BY <1>8, <1>11, <1>14 DEF Tidy
  <2>2. Existing(e) = Existing(b)
    BY <1>11 DEF Existing
  <2>3. HomesIn(e, Enabled(e) \cup {m, NoMonitor})
    BY <1>8, <1>11, <1>13, <2>1, <2>2 DEF HomesIn
  <2> QED  BY <1>8, <1>11, <1>12, <1>13, <1>14, <2>1, <2>3
<1>15. Nearly(e, {m, NoMonitor})
  BY <1>11, <1>13, <1>14 DEF Nearly
<1> QED  BY <1>7, <1>8, <1>11, <1>13, <1>15

LEMMA ForgottenNearly ==
  ASSUME NEW M, NEW N, NEW m \in Outputs, N \ {m} \subseteq M, m \in N => NoMonitor \in M,
         NEW d, Nearly(d, N), m \notin Enabled(d),
         NEW e, e = Forgotten(d, m)
  PROVE  /\ Nearly(e, M) /\ Enabled(e) = Enabled(d) /\ e.torn = d.torn
         /\ d.focused # m => e.focused = d.focused
         /\ \A n \in Outputs \ {m} : e.active[n] = d.active[n]
<1>1. d \in Desk /\ Listed(d) /\ Enabled(d) \subseteq Lit(d)
  BY DEF Nearly
<1>2. /\ e \in Desk /\ Enabled(e) = Enabled(d) /\ e.torn = d.torn
      /\ Existing(e) = Existing(d)
      /\ Listed(d) => Listed(e)
      /\ Lit(e) = Lit(d) \ {m}
      /\ e.focused = IF d.focused = m THEN NoMonitor ELSE d.focused
      /\ \A n \in Outputs \ {m} : e.active[n] = d.active[n]
      /\ \A x \in Workspaces : e.home[x] = IF d.home[x] = m THEN NoMonitor ELSE d.home[x]
      /\ Agrees(d) /\ m \notin Lit(d) => Agrees(e) /\ Held(e) = Held(d)
  BY <1>1, ForgottenKeeps, SMTT(60)
<1>3. Listed(e) /\ Enabled(e) \subseteq Lit(e)
  BY <1>1, <1>2
<1>4. ASSUME Orderly /\ ~e.torn
      PROVE  /\ Agrees(e) /\ Lit(e) \subseteq Enabled(e)
             /\ HomesIn(e, Enabled(e) \cup M)
  <2>1. Agrees(d) /\ Lit(d) \subseteq Enabled(d) /\ HomesIn(d, Enabled(d) \cup N)
    BY <1>2, <1>4 DEF Nearly
  <2>2. m \notin Lit(d)
    BY <2>1
  <2>3. Agrees(e) /\ Held(e) = Held(d) /\ Lit(e) \subseteq Enabled(e)
    BY <1>2, <2>1, <2>2
  <2>4. HomesIn(e, Enabled(e) \cup M)
    <3> SUFFICES ASSUME NEW x \in Existing(d) \cap Held(d)  PROVE e.home[x] \in Enabled(d) \cup M
      BY <1>2, <2>3 DEF HomesIn
    <3>1. x \in Workspaces
      BY <1>1, DeskSets
    <3>2. d.home[x] \in Enabled(d) \cup N
      BY <2>1 DEF HomesIn
    <3> QED  BY <1>2, <3>1, <3>2
  <2> QED  BY <2>3, <2>4
<1>5. Nearly(e, M)
  BY <1>2, <1>3, <1>4 DEF Nearly
<1> QED  BY <1>2, <1>5

-----------------------------------------------------------------------------
(***************************************************************************)
(* The inductive invariant.  Beside the tidy desk: only what is plugged in *)
(* is enabled, the state is unsafe while the fallback is, and the focus is *)
(* lost only when nothing but the fallback is there.                       *)
(***************************************************************************)

Nowhere(un) == IF un THEN {NoMonitor} ELSE {}

Attached(d, there, un) ==
  /\ Enabled(d) \subseteq there /\ Fallback \in there
  /\ un <=> Fallback \in Enabled(d)
  /\ \/ d.focused \in Enabled(d)
     \/ un /\ d.focused = NoMonitor /\ Enabled(d) \subseteq {Fallback}

Sound ==
  /\ TypeOK /\ Tidy(desk, Nowhere(unsafe))
  /\ Orderly /\ ~desk.torn => Attached(desk, plugged, unsafe)

\* What a handler's desk becomes is sound when the desk is nearly tidy.
LEMMA BecomesSound ==
  ASSUME Sound, NEW d, Becomes(d), Nearly(d, Nowhere(unsafe')),
         plugged' \subseteq Outputs, unsafe' \in BOOLEAN,
         seen' \in [Outputs -> Ids \cup {NoWorkspace}],
         Orderly /\ ~d.torn => Attached(d, plugged', unsafe')
  PROVE  Sound' /\ Enabled(desk') = Enabled(d)
<1>1. desk' = Collected(d)
  BY DEF Becomes
<1>2. /\ Tidy(desk', Nowhere(unsafe')) /\ Enabled(desk') = Enabled(d)
      /\ desk'.focused = d.focused /\ desk'.torn = d.torn
      /\ desk'.visible \subseteq Existing(desk')
  BY <1>1, CollectedTidy
<1>3. desk' \in Desk
  BY <1>2 DEF Tidy
<1>4. Orderly /\ ~desk'.torn => Attached(desk', plugged', unsafe')
  BY <1>2 DEF Attached
<1> QED  BY <1>2, <1>3, <1>4 DEF Sound, TypeOK

LEMMA SoundFacts ==
  ASSUME Sound
  PROVE  /\ desk \in Desk /\ Tidy(desk, Nowhere(unsafe))
         /\ plugged \subseteq Outputs /\ unsafe \in BOOLEAN
         /\ seen \in [Outputs -> Ids \cup {NoWorkspace}]
         /\ Nowhere(unsafe) \subseteq {NoMonitor}
         /\ Orderly /\ ~desk.torn => Attached(desk, plugged, unsafe)
BY DEF Sound, TypeOK, Nowhere

LEMMA DispatchInUse ==
  ASSUME Sound, Dispatch
  PROVE  InUse(desk) /\ Nowhere(unsafe) = {}
BY DEF Sound, Dispatch, InUse, Nowhere

\* The desk stays sound, with the same monitors.
StaysOn == Sound' /\ Enabled(desk') = Enabled(desk)

\* Dispatchers leave the desk in use.
LEMMA DispatchSound ==
  ASSUME Sound, Dispatch, NEW d, InUseAs(desk, d), Becomes(d)
  PROVE  StaysOn
<1>1. plugged' = plugged /\ unsafe' = unsafe /\ seen' = seen /\ ~unsafe
  BY DEF Dispatch
<1>2. /\ Tidy(desk, {}) /\ desk.focused \in Enabled(desk) /\ Nowhere(unsafe') = {}
  BY <1>1, DispatchInUse DEF InUse
<1>3. /\ Tidy(d, {}) /\ Enabled(d) = Enabled(desk) /\ (desk.torn => d.torn)
      /\ Orderly /\ ~d.torn => d.focused \in Enabled(d)
  BY DEF InUseAs, TidyAs
<1>4. Nearly(d, Nowhere(unsafe'))
  BY <1>2, <1>3, TidyNearly
<1>5. Orderly /\ ~d.torn => Attached(d, plugged', unsafe')
  <2> SUFFICES ASSUME Orderly /\ ~d.torn  PROVE Attached(d, plugged', unsafe')
    OBVIOUS
  <2>1. Attached(desk, plugged, unsafe)
    BY <1>3 DEF Sound
  <2> QED  BY <1>1, <1>3, <2>1 DEF Attached
<1> QED  BY <1>1, <1>3, <1>4, <1>5, SoundFacts, BecomesSound DEF StaysOn

LEMMA TidyInUse ==
  ASSUME NEW d, InUse(d), NEW e, TidyAs(d, e, {}), e.focused = d.focused
  PROVE  InUseAs(d, e)
BY DEF InUse, InUseAs, TidyAs

-----------------------------------------------------------------------------
(* The steps.                                                               *)

\* What the desk becomes when m is connected.
LEMMA ConnectedSound ==
  ASSUME Endless, Sound, NEW m \in Monitors, Becomes(Connected(desk, m)),
         Orderly /\ ~desk.torn => m \notin Enabled(desk),
         plugged' = plugged \cup {m}, unsafe' = unsafe, seen' = seen
  PROVE  Sound'
<1>1. PICK e : e = Connected(desk, m)
  OBVIOUS
<1>2. m \in Outputs /\ m # Fallback
  BY Sorts
<1>3. /\ Tidy(e, Nowhere(unsafe)) /\ Enabled(e) = Enabled(desk) \cup {m}
      /\ e.focused \in Enabled(e) /\ (desk.torn => e.torn)
  BY <1>1, <1>2, SoundFacts, ConnectedTidy
<1>4. Nearly(e, Nowhere(unsafe'))
  BY <1>3, TidyNearly
<1>5. Orderly /\ ~e.torn => Attached(e, plugged', unsafe')
  <2> SUFFICES ASSUME Orderly /\ ~e.torn  PROVE Attached(e, plugged', unsafe')
    OBVIOUS
  <2>1. Attached(desk, plugged, unsafe)
    BY <1>3, SoundFacts
  <2> QED  BY <1>2, <1>3, <2>1 DEF Attached
<1>6. Becomes(e)
  BY <1>1
<1>7. plugged' \subseteq Outputs /\ unsafe' \in BOOLEAN /\ seen' \in [Outputs -> Ids \cup {NoWorkspace}]
  BY <1>2, SoundFacts
<1> QED  BY <1>4, <1>5, <1>6, <1>7, BecomesSound

LEMMA PlugSound ==
  ASSUME Endless, Sound, NEW m \in Monitors, Plug(m)
  PROVE  Sound'
<1>1. m \notin plugged /\ plugged' = plugged \cup {m} /\ unsafe' = unsafe /\ seen' = seen
  BY DEF Plug
<1>2. CASE Becomes(Connected(desk, m))
  <2>1. Orderly /\ ~desk.torn => m \notin Enabled(desk)
    BY <1>1, SoundFacts DEF Attached
  <2> QED  BY <1>1, <1>2, <2>1, ConnectedSound
<1>3. CASE desk' = desk
  <2>1. TypeOK'
    BY <1>1, <1>3, Sorts DEF Sound, TypeOK
  <2>2. Orderly /\ ~desk'.torn => Attached(desk', plugged', unsafe')
    BY <1>1, <1>3 DEF Sound, Attached
  <2> QED  BY <1>1, <1>3, <2>1, <2>2 DEF Sound
<1> QED  BY <1>2, <1>3 DEF Plug

LEMMA EnableSound ==
  ASSUME Endless, Sound, NEW m \in Monitors, Enable(m)
  PROVE  Sound'
<1>1. /\ m \in plugged /\ m \notin Enabled(desk) /\ Becomes(Connected(desk, m))
      /\ plugged' = plugged /\ unsafe' = unsafe /\ seen' = seen
  BY DEF Enable
<1>2. plugged' = plugged \cup {m}
  BY <1>1
<1> QED  BY <1>1, <1>2, ConnectedSound

LEMMA DisconnectFacts ==
  ASSUME Sound, NEW m \in Outputs, Disconnect(m)
  PROVE  /\ seen' \in [Outputs -> Ids \cup {NoWorkspace}] /\ unsafe' \in BOOLEAN
         /\ OthersThan(desk, m) # <<>> => unsafe' = unsafe
         /\ OthersThan(desk, m) = <<>> => unsafe' = TRUE
<1>1. desk.active[m] \in Ids \cup {NoWorkspace}
  BY SoundFacts, DeskFields
<1>2. seen' = [seen EXCEPT ![m] = desk.active[m]] /\ unsafe' = (unsafe \/ OthersThan(desk, m) = <<>>)
  BY DEF Disconnect
<1> QED  BY <1>1, <1>2, SoundFacts

LEMMA DisableSound ==
  ASSUME Endless, Sound, NEW m \in Monitors, Disable(m)
  PROVE  Sound'
<1>1. /\ m \in Enabled(desk) /\ (DisableLast \/ OthersThan(desk, m) # <<>>)
      /\ Disconnect(m) /\ Becomes(Disconnected(desk, m)) /\ plugged' = plugged
  BY DEF Disable
<1>2. m \in Outputs /\ m # Fallback
  BY Sorts
<1>3. PICK e : e = Disconnected(desk, m)
  OBVIOUS
<1>4. /\ plugged' \subseteq Outputs /\ unsafe' \in BOOLEAN
      /\ seen' \in [Outputs -> Ids \cup {NoWorkspace}] /\ Becomes(e)
  BY <1>1, <1>2, <1>3, SoundFacts, DisconnectFacts
<1>5. CASE OthersThan(desk, m) # <<>>
  <2>1. /\ Nearly(e, {}) /\ Enabled(e) = Enabled(desk) \ {m}
        /\ desk.focused \in Enabled(desk) => e.focused \in Enabled(e)
        /\ desk.torn => e.torn
    BY <1>1, <1>2, <1>3, <1>5, SoundFacts, DisconnectedNearly
  <2>2. unsafe' = unsafe
    BY <1>1, <1>2, <1>5, DisconnectFacts
  <2>3. Nearly(e, Nowhere(unsafe'))
    BY <2>1 DEF Nearly, HomesIn
  <2>4. Orderly /\ ~e.torn => Attached(e, plugged', unsafe')
    <3> SUFFICES ASSUME Orderly /\ ~e.torn  PROVE Attached(e, plugged', unsafe')
      OBVIOUS
    <3>1. Attached(desk, plugged, unsafe)
      BY <2>1, SoundFacts
    <3> QED  BY <1>1, <1>2, <2>1, <2>2, <3>1 DEF Attached
  <2> QED  BY <1>4, <2>3, <2>4, BecomesSound
<1>6. CASE OthersThan(desk, m) = <<>>
  <2>1. Nearly(e, {m, NoMonitor})
    BY <1>1, <1>2, <1>3, <1>6, SoundFacts, LastDisconnected
  <2>2. ~Orderly
    BY <1>1, <1>6 DEF Orderly
  <2>3. Nearly(e, Nowhere(unsafe'))
    BY <2>1, <2>2 DEF Nearly
  <2> QED  BY <1>4, <2>2, <2>3, BecomesSound
<1> QED  BY <1>5, <1>6

LEMMA UnplugSound ==
  ASSUME Endless, Sound, NEW m \in Monitors, Unplug(m)
  PROVE  Sound'
<1>1. plugged' = plugged \ {m}
  BY DEF Unplug
<1>2. m \in Outputs /\ m # Fallback
  BY Sorts
<1>3. CASE m \notin Enabled(desk)
  <2>1. Becomes(Forgotten(desk, m)) /\ seen' = seen /\ unsafe' = unsafe
    BY <1>3 DEF Unplug
  <2>2. PICK f : f = Forgotten(desk, m)
    OBVIOUS
  <2>3. Nearly(desk, Nowhere(unsafe))
    BY SoundFacts, TidyNearly
  <2>4. PICK N : N = Nowhere(unsafe)
    OBVIOUS
  <2>5. N \ {m} \subseteq N /\ (m \in N => NoMonitor \in N)
    BY <1>2, <2>4, Sorts DEF Nowhere
  <2>6. /\ Nearly(f, N) /\ Enabled(f) = Enabled(desk) /\ f.torn = desk.torn
        /\ desk.focused # m => f.focused = desk.focused
    <3>1. m \in Outputs /\ m \notin Enabled(desk) /\ Nearly(desk, N)
      BY <1>2, <1>3, <2>3, <2>4
    <3> QED  BY <2>2, <2>5, <3>1, ForgottenNearly, SMTT(30)
  <2>7. Orderly /\ ~f.torn => Attached(f, plugged', unsafe')
    <3> SUFFICES ASSUME Orderly /\ ~f.torn  PROVE Attached(f, plugged', unsafe')
      OBVIOUS
    <3>1. Attached(desk, plugged, unsafe)
      BY <2>6, SoundFacts
    <3>2. desk.focused # m
      BY <1>2, <1>3, <3>1, Sorts DEF Attached
    <3> QED  BY <1>1, <1>2, <1>3, <2>1, <2>6, <3>1, <3>2 DEF Attached
  <2>8. Becomes(f) /\ Nearly(f, Nowhere(unsafe'))
    BY <2>1, <2>2, <2>4, <2>6
  <2>9. /\ plugged' \subseteq Outputs /\ unsafe' \in BOOLEAN
        /\ seen' \in [Outputs -> Ids \cup {NoWorkspace}]
    BY <1>1, <2>1, SoundFacts
  <2> QED  BY <2>7, <2>8, <2>9, BecomesSound
<1>4. CASE m \in Enabled(desk)
  <2>1. Disconnect(m) /\ Becomes(Forgotten(Disconnected(desk, m), m))
    BY <1>4 DEF Unplug
  <2>2. PICK e : e = Disconnected(desk, m)
    OBVIOUS
  <2>3. PICK f : f = Forgotten(e, m)
    OBVIOUS
  <2>4. /\ plugged' \subseteq Outputs /\ unsafe' \in BOOLEAN
        /\ seen' \in [Outputs -> Ids \cup {NoWorkspace}] /\ Becomes(f)
    BY <1>1, <1>2, <2>1, <2>2, <2>3, SoundFacts, DisconnectFacts
  <2>5. CASE OthersThan(desk, m) # <<>>
    <3>1. /\ Nearly(e, {}) /\ Enabled(e) = Enabled(desk) \ {m}
          /\ desk.focused \in Enabled(desk) => e.focused \in Enabled(e)
          /\ desk.torn => e.torn
      BY <1>2, <1>4, <2>2, <2>5, SoundFacts, DisconnectedNearly
    <3>2. unsafe' = unsafe
      BY <1>2, <2>1, <2>5, DisconnectFacts
    <3>a. PICK N : N = {}
      OBVIOUS
    <3>3. /\ N \ {m} \subseteq N /\ (m \in N => NoMonitor \in N)
          /\ m \in Outputs /\ m \notin Enabled(e) /\ Nearly(e, N)
      BY <1>2, <3>1, <3>a
    <3>b. /\ Nearly(f, N) /\ Enabled(f) = Enabled(e) /\ f.torn = e.torn
          /\ e.focused # m => f.focused = e.focused
      BY <2>3, <3>3, ForgottenNearly, SMTT(30)
    <3>4. /\ Nearly(f, {}) /\ Enabled(f) = Enabled(e) /\ f.torn = e.torn
          /\ e.focused # m => f.focused = e.focused
      BY <3>a, <3>b
    <3>5. Nearly(f, Nowhere(unsafe'))
      BY <3>4 DEF Nearly, HomesIn
    <3>6. Orderly /\ ~f.torn => Attached(f, plugged', unsafe')
      <4> SUFFICES ASSUME Orderly /\ ~f.torn  PROVE Attached(f, plugged', unsafe')
        OBVIOUS
      <4>1. Attached(desk, plugged, unsafe)
        BY <3>1, <3>4, SoundFacts
      <4>2. desk.focused \in Enabled(desk)
        BY <1>2, <1>4, <4>1 DEF Attached
      <4>3. e.focused \in Enabled(e) /\ e.focused # m
        BY <3>1, <4>2
      <4> QED  BY <1>1, <1>2, <3>1, <3>2, <3>4, <4>1, <4>3 DEF Attached
    <3> QED  BY <2>4, <3>5, <3>6, BecomesSound
  <2>6. CASE OthersThan(desk, m) = <<>>
    <3>1. /\ Nearly(e, {m, NoMonitor}) /\ Enabled(e) = {Fallback}
          /\ e.focused = NoMonitor /\ (desk.torn => e.torn)
      BY <1>2, <1>4, <2>2, <2>6, SoundFacts, LastDisconnected
    <3>2. unsafe' = TRUE
      BY <1>2, <2>1, <2>6, DisconnectFacts
    <3>3. {m, NoMonitor} \ {m} \subseteq {NoMonitor} /\ m \notin Enabled(e) /\ NoMonitor # m
      BY <1>2, <3>1, Sorts
    <3>4. /\ Nearly(f, {NoMonitor}) /\ Enabled(f) = Enabled(e) /\ f.torn = e.torn
          /\ e.focused # m => f.focused = e.focused
      BY <1>2, <2>3, <3>1, <3>3, ForgottenNearly
    <3>5. Nearly(f, Nowhere(unsafe'))
      BY <3>2, <3>4 DEF Nowhere
    <3>6. Orderly /\ ~f.torn => Attached(f, plugged', unsafe')
      <4> SUFFICES ASSUME Orderly /\ ~f.torn  PROVE Attached(f, plugged', unsafe')
        OBVIOUS
      <4>1. Attached(desk, plugged, unsafe)
        BY <3>1, <3>4, SoundFacts
      <4> QED  BY <1>1, <1>2, <3>1, <3>2, <3>3, <3>4, <4>1 DEF Attached
    <3> QED  BY <2>4, <3>5, <3>6, BecomesSound
  <2> QED  BY <2>5, <2>6
<1> QED  BY <1>3, <1>4

LEMMA LeaveUnsafeSound ==
  ASSUME Endless, Sound, LeaveUnsafe
  PROVE  Sound'
<1>1. /\ unsafe /\ Enabled(desk) \cap Monitors # {} /\ unsafe' = FALSE
      /\ seen' = [seen EXCEPT ![Fallback] = desk.active[Fallback]]
      /\ Becomes(Disconnected(desk, Fallback)) /\ plugged' = plugged
  BY DEF LeaveUnsafe
<1>2. Fallback \in Outputs /\ Fallback \notin Monitors
  BY Sorts
<1>3. /\ plugged' \subseteq Outputs /\ unsafe' \in BOOLEAN
      /\ seen' \in [Outputs -> Ids \cup {NoWorkspace}]
  <2>1. desk.active[Fallback] \in Ids \cup {NoWorkspace}
    BY <1>2, SoundFacts, DeskFields
  <2> QED  BY <1>1, <2>1, SoundFacts
<1>4. OthersThan(desk, Fallback) # <<>>
  BY <1>1, <1>2, SoundFacts, OthersMembers
<1>5. PICK e : e = Disconnected(desk, Fallback)
  OBVIOUS
<1>6. /\ Nearly(e, {}) /\ Enabled(e) = Enabled(desk) \ {Fallback}
      /\ desk.focused \in Enabled(desk) => e.focused \in Enabled(e)
      /\ desk.torn => e.torn
  BY <1>2, <1>4, <1>5, SoundFacts, DisconnectedNearly
<1>7. Nearly(e, Nowhere(unsafe'))
  BY <1>1, <1>6 DEF Nowhere
<1>8. Orderly /\ ~e.torn => Attached(e, plugged', unsafe')
  <2> SUFFICES ASSUME Orderly /\ ~e.torn  PROVE Attached(e, plugged', unsafe')
    OBVIOUS
  <2>1. Attached(desk, plugged, unsafe)
    BY <1>6, SoundFacts
  <2>2. desk.focused \in Enabled(desk)
    BY <1>1, <1>2, <2>1 DEF Attached
  <2> QED  BY <1>1, <1>6, <2>1, <2>2 DEF Attached
<1>9. Becomes(e)
  BY <1>1, <1>5
<1> QED  BY <1>3, <1>7, <1>8, <1>9, BecomesSound

LEMMA ChangeWorkspaceSound ==
  ASSUME Sound, NEW s \in Workspaces, ChangeWorkspace(s)
  PROVE  StaysOn
<1>1. PICK d : d = ChangedTo(desk, s)
  OBVIOUS
<1>2. Dispatch /\ Becomes(d)
  BY <1>1 DEF ChangeWorkspace
<1>3. InUseAs(desk, d)
  BY <1>1, <1>2, DispatchInUse, ChangedToInUse
<1> QED  BY <1>2, <1>3, DispatchSound

LEMMA MovedInUse ==
  ASSUME Endless, NEW d, InUse(d), NEW s \in Existing(d), NEW m \in Enabled(d),
         NEW e, e = Moved(d, s, m)
  PROVE  InUseAs(d, e) /\ InUse(e)
<1>1. Tidy(d, {}) /\ d.focused \in Enabled(d)
  BY DEF InUse
<1>2. TidyAs(d, e, {}) /\ e.focused \in {d.focused, m}
  BY <1>1, MovedTidy
<1> QED  BY <1>1, <1>2 DEF InUse, InUseAs, TidyAs

LEMMA MoveWorkspaceSound ==
  ASSUME Endless, Sound, NEW s, NEW m, MoveWorkspace(s, m)
  PROVE  StaysOn
<1>1. PICK d : d = Moved(desk, s, m)
  OBVIOUS
<1>2. Dispatch /\ s \in Existing(desk) /\ m \in Enabled(desk) /\ Becomes(d)
  BY <1>1 DEF MoveWorkspace
<1>3. InUseAs(desk, d)
  BY <1>1, <1>2, DispatchInUse, MovedInUse
<1> QED  BY <1>2, <1>3, DispatchSound

LEMMA FocusOnCurrentSound ==
  ASSUME Endless, Sound, NEW s \in Workspaces, FocusOnCurrent(s)
  PROVE  StaysOn
<1>1. PICK m : m = desk.focused
  OBVIOUS
<1>2. PICK owner : owner = desk.home[s]
  OBVIOUS
<1>3. Dispatch /\ InUse(desk)
  BY DispatchInUse DEF FocusOnCurrent
<1>4. m \in Enabled(desk) /\ m \in Lit(desk) /\ desk \in Desk
  BY <1>1, <1>3, InUseFacts
<1>5. CASE Becomes(ChangedTo(desk, s))
  <2>1. PICK d : d = ChangedTo(desk, s)
    OBVIOUS
  <2> QED  BY <1>3, <1>5, <2>1, ChangedToInUse, DispatchSound
<1>6. CASE /\ s \in Existing(desk) /\ owner # m /\ owner # NoMonitor
           /\ desk.active[owner] = s /\ Becomes(Swapped(desk, owner, m))
  <2>1. PICK d : d = Swapped(desk, owner, m)
    OBVIOUS
  <2>2. owner \in Outputs
    BY <1>2, <1>4, <1>6, DeskFields
  <2>3. owner \in Lit(desk)
    BY <1>6, <2>2, Sorts DEF Lit
  <2>4. InUseAs(desk, d)
    BY <1>3, <1>4, <1>6, <2>1, <2>3, SwappedInUse
  <2> QED  BY <1>3, <1>6, <2>1, <2>4, DispatchSound
<1>7. CASE s \in Existing(desk) /\ Becomes(ChangedTo(Moved(desk, s, m), s))
  <2>1. PICK c : c = Moved(desk, s, m)
    OBVIOUS
  <2>2. PICK d : d = ChangedTo(c, s)
    OBVIOUS
  <2>3. InUseAs(desk, c) /\ InUse(c)
    BY <1>3, <1>4, <1>7, <2>1, MovedInUse
  <2>4. InUseAs(c, d)
    BY <2>2, <2>3, ChangedToInUse
  <2>5. InUseAs(desk, d)
    BY <2>3, <2>4, TidyAsOn DEF InUseAs
  <2> QED  BY <1>3, <1>7, <2>1, <2>2, <2>5, DispatchSound
<1>8. \/ Becomes(ChangedTo(desk, s))
      \/ /\ s \in Existing(desk) /\ owner # m /\ owner # NoMonitor
         /\ \/ desk.active[owner] = s /\ Becomes(Swapped(desk, owner, m))
            \/ Becomes(ChangedTo(Moved(desk, s, m), s))
  BY <1>1, <1>2 DEF FocusOnCurrent
<1> QED  BY <1>5, <1>6, <1>7, <1>8

LEMMA SwapActiveSound ==
  ASSUME Sound, NEW a, NEW b, SwapActive(a, b)
  PROVE  StaysOn
<1>1. PICK d : d = Swapped(desk, a, b)
  OBVIOUS
<1>2. Dispatch /\ a \in Enabled(desk) /\ b \in Enabled(desk) /\ a # b /\ Becomes(d)
  BY <1>1 DEF SwapActive
<1>3. InUse(desk) /\ a \in Lit(desk) /\ b \in Lit(desk)
  BY <1>2, DispatchInUse, InUseFacts
<1>4. InUseAs(desk, d)
  BY <1>1, <1>2, <1>3, SwappedInUse
<1> QED  BY <1>2, <1>4, DispatchSound

LEMMA ToggleSpecialSound ==
  ASSUME Sound, NEW s \in Specials, ToggleSpecial(s)
  PROVE  StaysOn
<1>1. PICK m : m = desk.focused
  OBVIOUS
<1>2. /\ Dispatch
      /\ Becomes(IF desk.special[m] = s THEN ClosedSpecial(desk, m)
                 ELSE OpenedSpecial(Created(desk, s, m), m, s))
  BY <1>1 DEF ToggleSpecial
<1>3. InUse(desk) /\ Tidy(desk, {}) /\ m \in Enabled(desk) /\ m \in Outputs /\ s \in Workspaces
  BY <1>1, <1>2, DispatchInUse, InUseFacts, Sorts
<1>4. CASE desk.special[m] = s
  <2>1. PICK d : d = ClosedSpecial(desk, m)
    OBVIOUS
  <2>2. TidyAs(desk, d, {}) /\ d.focused = desk.focused
    BY <1>3, <2>1, ClosedTidy
  <2> QED  BY <1>2, <1>3, <1>4, <2>1, <2>2, TidyInUse, DispatchSound
<1>5. CASE desk.special[m] # s
  <2>1. PICK made : made = Created(desk, s, m)
    OBVIOUS
  <2>2. PICK d : d = OpenedSpecial(made, m, s)
    OBVIOUS
  <2>3. TidyAs(desk, made, {}) /\ made.focused = desk.focused /\ s \in Existing(made)
    BY <1>3, <2>1, CreatedTidy
  <2>4. Tidy(made, {}) /\ m \in Enabled(made)
    BY <1>3, <2>3 DEF TidyAs
  <2>5. TidyAs(made, d, {}) /\ d.focused = made.focused
    BY <2>2, <2>3, <2>4, OpenedTidy
  <2>6. TidyAs(desk, d, {}) /\ d.focused = desk.focused
    BY <2>3, <2>5, TidyAsOn
  <2> QED  BY <1>2, <1>3, <1>5, <2>1, <2>2, <2>6, TidyInUse, DispatchSound
<1> QED  BY <1>4, <1>5

LEMMA MoveWindowSound ==
  ASSUME Sound, NEW w \in Windows, NEW s \in Workspaces, NEW silent \in BOOLEAN,
         MoveWindow(w, s, silent)
  PROVE  StaysOn
<1>1. PICK n : n = desk.screen[w]
  OBVIOUS
<1>2. PICK made : made = Created(desk, s, n)
  OBVIOUS
<1>3. PICK m : m = made.home[s]
  OBVIOUS
<1>4. PICK old : old = desk.on[w]
  OBVIOUS
<1>5. PICK c : c = Carried(made, w, s)
  OBVIOUS
<1>6. PICK f : f = IF s \in Existing(desk) THEN m ELSE c.focused
  OBVIOUS
<1>7. PICK g : g = [c EXCEPT !.focused = f]
  OBVIOUS
<1>8. PICK d : d = Followed(g, w, s, m, old)
  OBVIOUS
<1>9. /\ Dispatch /\ w \in Mapped(desk) /\ n \in Enabled(desk) /\ m \in Enabled(desk)
      /\ Becomes(c) \/ Becomes(d)
  BY <1>1, <1>2, <1>3, <1>4, <1>5, <1>6, <1>7, <1>8 DEF MoveWindow
<1>10. /\ InUse(desk) /\ Tidy(desk, {}) /\ n \in Outputs /\ m \in Outputs
       /\ desk.focused \in Enabled(desk) /\ Listed(desk)
  BY <1>9, DispatchInUse, InUseFacts
<1>11. /\ TidyAs(desk, made, {}) /\ made.focused = desk.focused
       /\ Existing(made) = Existing(desk) \cup {s} /\ made.on = desk.on
  BY <1>2, <1>9, <1>10, CreatedTidy
<1>12. Tidy(made, {}) /\ w \in Mapped(made) /\ s \in Existing(made)
  BY <1>9, <1>11 DEF TidyAs, Mapped
<1>13. /\ TidyAs(made, c, {}) /\ c.focused = made.focused /\ Existing(c) = Existing(made)
       /\ c.home = made.home /\ w \in Mapped(c)
  BY <1>5, <1>12, CarriedTidy
<1>14. TidyAs(desk, c, {}) /\ c.focused = desk.focused /\ Tidy(c, {}) /\ Enabled(c) = Enabled(desk)
  BY <1>11, <1>13, TidyAsOn DEF TidyAs
<1>15. CASE Becomes(c)
  BY <1>9, <1>10, <1>14, <1>15, TidyInUse, DispatchSound
<1>16. CASE Becomes(d)
  <2>1. f \in Outputs /\ f \in Enabled(c)
    BY <1>6, <1>9, <1>10, <1>14, InUseFacts
  <2>2. TidyAs(c, g, {}) /\ g.focused = f /\ Existing(g) = Existing(c)
    BY <1>7, <1>14, <2>1, FocusTidy
  <2>3. g.home = c.home /\ g.on = c.on
    BY <1>7, <1>14 DEF Tidy, Desk
  <2>4. TidyAs(desk, g, {}) /\ InUse(g) /\ m \in Enabled(g)
    BY <1>9, <1>14, <2>1, <2>2, TidyAsOn DEF InUse, TidyAs
  <2>5. w \in Mapped(g) /\ s \in Existing(g) /\ g.home[s] = m
    BY <1>3, <1>12, <1>13, <2>2, <2>3 DEF Mapped
  <2>6. old \in Existing(g)
    <3>1. old # NoWorkspace
      BY <1>4, <1>9 DEF Mapped
    <3>2. old \in Existing(desk)
      BY <1>4, <1>10, <3>1 DEF Listed
    <3> QED  BY <1>11, <1>13, <2>2, <3>2
  <2>7. InUseAs(g, d)
    BY <1>8, <2>4, <2>5, <2>6, FollowedInUse, SMTT(60)
  <2>8. InUseAs(desk, d)
    BY <2>4, <2>7, TidyAsOn DEF InUseAs
  <2> QED  BY <1>9, <1>16, <2>8, DispatchSound
<1> QED  BY <1>9, <1>15, <1>16

\* Only windows and the focus have changed.
LEMMA WindowsTidy ==
  ASSUME NEW M, NEW d, Tidy(d, M), NEW e \in Desk, e.enabled = d.enabled, e.order = d.order,
         e.home = d.home, e.visible = d.visible, e.active = d.active, e.special = d.special,
         e.torn = d.torn,
         \A w \in Windows : e.on[w] # NoWorkspace => e.on[w] \in Existing(d),
         Orderly /\ ~d.torn => WindowsPlaced(e)
  PROVE  TidyAs(d, e, M)
<1>1. Existing(e) = Existing(d) /\ Enabled(e) = Enabled(d) /\ Lit(e) = Lit(d)
  BY DEF Existing, Enabled, Lit
<1>2. Listed(e)
  BY <1>1 DEF Listed, Tidy
<1>3. Agrees(d) => ShowsOwn(e) /\ OpensOwn(e) /\ FlagsShown(e)
  BY <1>1 DEF Agrees, ShowsOwn, OpensOwn, FlagsShown
<1>4. Orderly /\ ~e.torn => Agrees(e)
  BY <1>3 DEF Tidy, Agrees
<1> QED  BY <1>1, <1>2, <1>4 DEF Tidy, TidyAs

LEMMA PinWindowSound ==
  ASSUME Sound, NEW w \in Windows, PinWindow(w)
  PROVE  StaysOn
<1>1. PICK m : m = desk.screen[w]
  OBVIOUS
<1>2. PICK s : s = desk.active[m]
  OBVIOUS
<1>3. PICK p : p = IF w \in desk.pinned THEN desk.pinned \ {w} ELSE desk.pinned \cup {w}
  OBVIOUS
<1>4. PICK d : d = [desk EXCEPT !.pinned = p, !.on[w] = s]
  OBVIOUS
<1>5. Dispatch /\ w \in Mapped(desk) /\ m \in Enabled(desk) /\ Becomes(d)
  BY <1>1, <1>2, <1>3, <1>4 DEF PinWindow
<1>6. /\ InUse(desk) /\ Tidy(desk, {}) /\ desk \in Desk /\ Listed(desk)
      /\ m \in Outputs /\ s \in Existing(desk) /\ s \in Workspaces /\ s # NoWorkspace
      /\ Orderly /\ ~desk.torn => Agrees(desk)
  BY <1>2, <1>5, DispatchInUse, InUseFacts, Sorts
<1>7. PICK on : on = [desk.on EXCEPT ![w] = s]
  OBVIOUS
<1>8. /\ on \in [Windows -> Workspaces \cup {NoWorkspace}]
      /\ \A u \in Windows : on[u] = IF u = w THEN s ELSE desk.on[u]
      /\ p \in SUBSET Windows /\ p \subseteq desk.pinned \cup {w}
      /\ desk.pinned \subseteq p \cup {w}
  BY <1>3, <1>6, <1>7, DeskFields
<1>9. /\ d \in Desk /\ d.enabled = desk.enabled /\ d.order = desk.order
      /\ d.home = desk.home /\ d.visible = desk.visible /\ d.active = desk.active
      /\ d.special = desk.special /\ d.torn = desk.torn /\ d.focused = desk.focused
      /\ d.screen = desk.screen /\ d.on = on /\ d.pinned = p
  <2>1. d = [desk EXCEPT !.pinned = p, !.on = on]
    BY <1>4, <1>7
  <2> QED  BY <1>6, <1>8, <2>1 DEF Desk
<1>10. \A u \in Windows : d.on[u] # NoWorkspace => d.on[u] \in Existing(desk)
  BY <1>6, <1>8, <1>9 DEF Listed
<1>11. ASSUME Orderly /\ ~desk.torn  PROVE WindowsPlaced(d)
  <2>1. /\ \A u \in Windows :
             /\ desk.on[u] # NoWorkspace /\ u \notin desk.pinned => desk.screen[u] = desk.home[desk.on[u]]
             /\ u \in desk.pinned => desk.on[u] # NoWorkspace
        /\ desk.home[s] = m
    BY <1>2, <1>6, <1>11 DEF Agrees, WindowsPlaced, ShowsOwn
  <2>2. Existing(d) = Existing(desk)
    BY <1>9 DEF Existing
  <2> QED  BY <1>1, <1>6, <1>8, <1>9, <1>10, <2>1, <2>2 DEF WindowsPlaced
<1>12. TidyAs(desk, d, {})
  BY <1>6, <1>9, <1>10, <1>11, WindowsTidy
<1> QED  BY <1>5, <1>6, <1>9, <1>12, TidyInUse, DispatchSound

LEMMA FocusMonitorSound ==
  ASSUME Sound, NEW m, FocusMonitor(m)
  PROVE  StaysOn
<1>1. PICK top : top = IF desk.special[m] # NoWorkspace THEN desk.special[m] ELSE desk.active[m]
  OBVIOUS
<1>2. PICK d \in {desk} \cup {Focused(desk, w) : w \in WindowsOn(desk, top)} :
        Becomes([d EXCEPT !.focused = m])
  BY <1>1 DEF FocusMonitor
<1>3. Dispatch /\ m \in Enabled(desk)
  BY DEF FocusMonitor
<1>4. InUse(desk) /\ m \in Outputs /\ desk.active[m] # NoWorkspace
  <2>1. InUse(desk)
    BY <1>3, DispatchInUse
  <2> QED  BY <1>3, <2>1, InUseFacts, Sorts
<1>5. top # NoWorkspace
  BY <1>1, <1>4
<1>6. TidyAs(desk, d, {})
  <2>1. CASE d = desk
    BY <1>4, <2>1 DEF InUse, TidyAs
  <2>2. CASE d # desk
    <3>1. PICK w \in WindowsOn(desk, top) : d = Focused(desk, w)
      BY <1>2, <2>2
    <3>2. w \in Mapped(desk)
      BY <1>5 DEF WindowsOn, Mapped
    <3> QED  BY <1>4, <3>1, <3>2, FocusedInUse DEF InUseAs
  <2> QED  BY <2>1, <2>2
<1>7. PICK e : e = [d EXCEPT !.focused = m]
  OBVIOUS
<1>8. TidyAs(d, e, {}) /\ e.focused = m
  BY <1>4, <1>6, <1>7, FocusTidy DEF TidyAs
<1>9. InUseAs(desk, e)
  BY <1>3, <1>6, <1>8, TidyAsOn DEF InUseAs, TidyAs
<1> QED  BY <1>2, <1>3, <1>7, <1>9, DispatchSound

LEMMA FocusWindowSound ==
  ASSUME Sound, NEW w, FocusWindow(w)
  PROVE  StaysOn
<1>1. PICK d : d = Focused(desk, w)
  OBVIOUS
<1>2. Dispatch /\ w \in Mapped(desk) /\ Becomes(d)
  BY <1>1 DEF FocusWindow
<1> QED  BY <1>1, <1>2, DispatchInUse, FocusedInUse, DispatchSound
LEMMA OpenWindowSound ==
  ASSUME Sound, NEW w \in Windows, OpenWindow(w)
  PROVE  StaysOn
<1>1. PICK m \in Enabled(desk) :
        Becomes([desk EXCEPT !.focused = m,
                             !.on[w] = IF desk.special[m] # NoWorkspace THEN desk.special[m]
                                       ELSE desk.active[m],
                             !.screen[w] = m])
  BY DEF OpenWindow
<1>2. PICK s : s = IF desk.special[m] # NoWorkspace THEN desk.special[m] ELSE desk.active[m]
  OBVIOUS
<1>3. w \notin Mapped(desk) /\ plugged' = plugged /\ seen' = seen /\ unsafe' = unsafe
  BY DEF OpenWindow
<1>4. /\ desk \in Desk /\ Tidy(desk, Nowhere(unsafe)) /\ Listed(desk) /\ m \in Outputs
      /\ desk.active[m] # NoWorkspace
      /\ Orderly /\ ~desk.torn => Agrees(desk) /\ Attached(desk, plugged, unsafe)
  <2>1. desk \in Desk /\ Tidy(desk, Nowhere(unsafe))
    BY SoundFacts
  <2>2. m \in Outputs
    BY <2>1, DeskSets
  <2> QED  BY <2>1, <2>2, SoundFacts DEF Tidy, Lit
<1>5. s \in Existing(desk) /\ s \in Workspaces /\ s # NoWorkspace
  BY <1>2, <1>4, DeskSets DEF Listed
<1>6. PICK on : on = [desk.on EXCEPT ![w] = s]
  OBVIOUS
<1>7. PICK screen : screen = [desk.screen EXCEPT ![w] = m]
  OBVIOUS
<1>8. /\ on \in [Windows -> Workspaces \cup {NoWorkspace}]
      /\ screen \in [Windows -> Outputs \cup {NoMonitor}]
      /\ \A u \in Windows : on[u] = IF u = w THEN s ELSE desk.on[u]
      /\ \A u \in Windows : screen[u] = IF u = w THEN m ELSE desk.screen[u]
  BY <1>4, <1>5, <1>6, <1>7, DeskFields
<1>9. PICK d : d = [desk EXCEPT !.focused = m, !.on = on, !.screen = screen]
  OBVIOUS
<1>10. Becomes(d)
  BY <1>1, <1>2, <1>4, <1>6, <1>7, <1>9 DEF Desk
<1>11. /\ d \in Desk /\ d.enabled = desk.enabled /\ d.order = desk.order
       /\ d.home = desk.home /\ d.visible = desk.visible /\ d.active = desk.active
       /\ d.special = desk.special /\ d.torn = desk.torn /\ d.focused = m
       /\ d.screen = screen /\ d.on = on /\ d.pinned = desk.pinned
  BY <1>4, <1>8, <1>9 DEF Desk
<1>12. \A u \in Windows : d.on[u] # NoWorkspace => d.on[u] \in Existing(desk)
  BY <1>4, <1>5, <1>8, <1>11 DEF Listed
<1>13. ASSUME Orderly /\ ~desk.torn  PROVE WindowsPlaced(d)
  <2>1. \A u \in Windows :
          /\ desk.on[u] # NoWorkspace /\ u \notin desk.pinned => desk.screen[u] = desk.home[desk.on[u]]
          /\ u \in desk.pinned => desk.on[u] # NoWorkspace
    BY <1>4, <1>13 DEF Agrees, WindowsPlaced
  <2>2. desk.home[s] = m
    BY <1>2, <1>4, <1>5, <1>13 DEF Agrees, ShowsOwn, OpensOwn
  <2>3. Existing(d) = Existing(desk)
    BY <1>11 DEF Existing
  <2> QED  BY <1>5, <1>8, <1>11, <1>12, <2>1, <2>2, <2>3 DEF WindowsPlaced
<1>14. TidyAs(desk, d, Nowhere(unsafe))
  BY <1>4, <1>11, <1>12, <1>13, WindowsTidy
<1>15. Nearly(d, Nowhere(unsafe'))
  BY <1>3, <1>14, TidyNearly DEF TidyAs
<1>16. Orderly /\ ~d.torn => Attached(d, plugged', unsafe')
  BY <1>3, <1>4, <1>11, <1>14 DEF Attached, TidyAs
<1> QED  BY <1>3, <1>10, <1>14, <1>15, <1>16, SoundFacts, BecomesSound DEF StaysOn, TidyAs

LEMMA CloseWindowSound ==
  ASSUME Sound, NEW w \in Windows, CloseWindow(w)
  PROVE  StaysOn
<1>1. PICK m : m = desk.screen[w]
  OBVIOUS
<1>2. PICK s : s = desk.on[w]
  OBVIOUS
<1>3. PICK gone : gone = [desk EXCEPT !.on[w] = NoWorkspace, !.screen[w] = NoMonitor,
                                      !.pinned = @ \ {w}]
  OBVIOUS
<1>4. PICK d : d = IF s \in Specials /\ WindowsOn(gone, s) = {} /\ m # NoMonitor
                      /\ desk.special[m] = s
                   THEN ClosedSpecial(gone, m) ELSE gone
  OBVIOUS
<1>5. Becomes(d) /\ plugged' = plugged /\ seen' = seen /\ unsafe' = unsafe
  BY <1>1, <1>2, <1>3, <1>4 DEF CloseWindow
<1>6. /\ desk \in Desk /\ Tidy(desk, Nowhere(unsafe)) /\ Listed(desk)
      /\ m \in Outputs \cup {NoMonitor}
      /\ Orderly /\ ~desk.torn => Agrees(desk) /\ Attached(desk, plugged, unsafe)
  <2>1. desk \in Desk /\ Tidy(desk, Nowhere(unsafe))
    BY SoundFacts
  <2> QED  BY <1>1, <2>1, SoundFacts, DeskFields DEF Tidy
<1>7. /\ gone \in Desk /\ gone.enabled = desk.enabled /\ gone.order = desk.order
      /\ gone.home = desk.home /\ gone.visible = desk.visible /\ gone.active = desk.active
      /\ gone.special = desk.special /\ gone.torn = desk.torn /\ gone.focused = desk.focused
      /\ \A u \in Windows : gone.on[u] = IF u = w THEN NoWorkspace ELSE desk.on[u]
      /\ \A u \in Windows : gone.screen[u] = IF u = w THEN NoMonitor ELSE desk.screen[u]
      /\ gone.pinned = desk.pinned \ {w}
  <2>1. PICK on : on = [desk.on EXCEPT ![w] = NoWorkspace]
    OBVIOUS
  <2>2. PICK screen : screen = [desk.screen EXCEPT ![w] = NoMonitor]
    OBVIOUS
  <2>3. PICK p : p = desk.pinned \ {w}
    OBVIOUS
  <2>4. gone = [desk EXCEPT !.on = on, !.screen = screen, !.pinned = p]
    BY <1>3, <1>6, <2>1, <2>2, <2>3 DEF Desk
  <2>5. /\ on \in [Windows -> Workspaces \cup {NoWorkspace}]
        /\ screen \in [Windows -> Outputs \cup {NoMonitor}]
        /\ \A u \in Windows : on[u] = IF u = w THEN NoWorkspace ELSE desk.on[u]
        /\ \A u \in Windows : screen[u] = IF u = w THEN NoMonitor ELSE desk.screen[u]
        /\ p \in SUBSET Windows
    BY <1>6, <2>1, <2>2, <2>3, DeskFields
  <2> QED  BY <1>6, <2>3, <2>4, <2>5 DEF Desk
<1>8. \A u \in Windows : gone.on[u] # NoWorkspace => gone.on[u] \in Existing(desk)
  BY <1>6, <1>7 DEF Listed
<1>9. ASSUME Orderly /\ ~desk.torn  PROVE WindowsPlaced(gone)
  <2>1. \A u \in Windows :
          /\ desk.on[u] # NoWorkspace /\ u \notin desk.pinned => desk.screen[u] = desk.home[desk.on[u]]
          /\ u \in desk.pinned => desk.on[u] # NoWorkspace
    BY <1>6, <1>9 DEF Agrees, WindowsPlaced
  <2>2. Existing(gone) = Existing(desk)
    BY <1>7 DEF Existing
  <2> QED  BY <1>7, <1>8, <2>1, <2>2 DEF WindowsPlaced
<1>10. TidyAs(desk, gone, Nowhere(unsafe))
  BY <1>6, <1>7, <1>8, <1>9, WindowsTidy
<1>11. TidyAs(gone, d, Nowhere(unsafe)) /\ d.focused = gone.focused
  <2>1. CASE d = gone
    BY <1>10, <2>1 DEF TidyAs
  <2>2. CASE m # NoMonitor /\ d = ClosedSpecial(gone, m)
    <3>1. m \in Outputs /\ Tidy(gone, Nowhere(unsafe))
      BY <1>6, <1>10, <2>2 DEF TidyAs
    <3> QED  BY <2>2, <3>1, ClosedTidy
  <2> QED  BY <1>4, <2>1, <2>2
<1>12. TidyAs(desk, d, Nowhere(unsafe)) /\ d.focused = desk.focused
  BY <1>7, <1>10, <1>11, TidyAsOn
<1>13. Nearly(d, Nowhere(unsafe'))
  BY <1>5, <1>12, TidyNearly DEF TidyAs
<1>14. Orderly /\ ~d.torn => Attached(d, plugged', unsafe')
  BY <1>5, <1>6, <1>12 DEF Attached, TidyAs
<1> QED  BY <1>5, <1>12, <1>13, <1>14, SoundFacts, BecomesSound DEF StaysOn, TidyAs

\* A monitor that is plugged in is new among the enabled ones, or changes nothing.
LEMMA PlugComes ==
  ASSUME Endless, Sound, NEW m \in Monitors, Plug(m)
  PROVE  \/ Enabled(desk') = Enabled(desk)
         \/ m \notin Enabled(desk) /\ Becomes(Connected(desk, m))
<1>1. /\ desk \in Desk /\ Tidy(desk, Nowhere(unsafe))
      /\ seen \in [Outputs -> Ids \cup {NoWorkspace}]
      /\ Orderly /\ ~desk.torn => Attached(desk, plugged, unsafe)
  BY SoundFacts
<1>2. m \notin plugged /\ (desk' = desk \/ Becomes(Connected(desk, m)))
  BY DEF Plug
<1>3. Orderly /\ ~desk.torn => m \notin Enabled(desk)
  BY <1>1, <1>2 DEF Attached
<1>4. m \in Outputs
  BY Sorts
<1>5. CASE Becomes(Connected(desk, m)) /\ m \in Enabled(desk)
  <2>1. PICK e : e = Connected(desk, m)
    OBVIOUS
  <2>2. PICK N : N = Nowhere(unsafe)
    OBVIOUS
  <2>3. Tidy(e, N) /\ Enabled(e) = Enabled(desk) \cup {m}
    BY <1>1, <1>3, <1>4, <2>1, <2>2, ConnectedTidy, SMTT(30)
  <2>4. Enabled(Collected(e)) = Enabled(e)
    BY <2>3, TidyNearly, CollectedTidy
  <2> QED  BY <1>5, <2>1, <2>3, <2>4 DEF Becomes
<1> QED  BY <1>2, <1>5

\* Every step leaves the desk sound; those that change the monitors are named.
LEMMA NextSound ==
  ASSUME Endless, Sound, [Next]_vars
  PROVE  /\ Sound'
         /\ \/ Enabled(desk') = Enabled(desk)
            \/ \E m \in Monitors : \/ m \notin Enabled(desk) /\ Becomes(Connected(desk, m))
                                  \/ Disable(m) \/ Unplug(m)
            \/ LeaveUnsafe
<1>1. \A s \in Named \cup Specials : s \in Workspaces
  BY MonitorAssumption DEF Workspaces
<1>2. CASE UNCHANGED vars
  <2>1. desk' = desk /\ plugged' = plugged /\ seen' = seen /\ unsafe' = unsafe
    BY <1>2 DEF vars
  <2>2. TypeOK'
    BY <2>1 DEF Sound, TypeOK
  <2> QED  BY <2>1, <2>2 DEF Sound
<1>3. CASE LeaveUnsafe
  BY <1>3, LeaveUnsafeSound
<1>4. ASSUME NEW m \in Monitors, Plug(m)
      PROVE  /\ Sound'
             /\ \/ Enabled(desk') = Enabled(desk)
                \/ m \notin Enabled(desk) /\ Becomes(Connected(desk, m))
  BY <1>4, PlugSound, PlugComes
<1>5. ASSUME NEW m \in Monitors, Enable(m)
      PROVE  Sound' /\ m \notin Enabled(desk) /\ Becomes(Connected(desk, m))
  BY <1>5, EnableSound DEF Enable
<1>6. ASSUME NEW m \in Monitors, Unplug(m) \/ Disable(m)  PROVE Sound'
  BY <1>6, UnplugSound, DisableSound
<1>7. ASSUME NEW m \in Monitors, FocusMonitor(m)  PROVE StaysOn
  BY <1>7, FocusMonitorSound
<1>8. ASSUME NEW a \in Monitors, NEW b \in Monitors, SwapActive(a, b)  PROVE StaysOn
  BY <1>8, SwapActiveSound
<1>9. ASSUME NEW s \in Named \cup Specials,
             ChangeWorkspace(s) \/ FocusOnCurrent(s) \/ \E m \in Monitors : MoveWorkspace(s, m)
      PROVE  StaysOn
  BY <1>1, <1>9, ChangeWorkspaceSound, FocusOnCurrentSound, MoveWorkspaceSound
<1>10. ASSUME NEW s \in Specials, ToggleSpecial(s)  PROVE StaysOn
  BY <1>10, ToggleSpecialSound
<1>11. ASSUME NEW w \in Windows, OpenWindow(w) \/ CloseWindow(w) \/ PinWindow(w) \/ FocusWindow(w)
       PROVE  StaysOn
  BY <1>11, OpenWindowSound, CloseWindowSound, PinWindowSound, FocusWindowSound
<1>12. ASSUME NEW w \in Windows, NEW s \in Named \cup Specials, NEW silent \in BOOLEAN,
              MoveWindow(w, s, silent)
       PROVE  StaysOn
  BY <1>1, <1>12, MoveWindowSound
<1>13. CASE StaysOn
  BY <1>13 DEF StaysOn
<1>14. CASE \E m \in Monitors : Plug(m) \/ Enable(m)
  BY <1>4, <1>5, <1>14
<1>15. CASE \E m \in Monitors : Unplug(m) \/ Disable(m)
  BY <1>6, <1>15
<1> QED
  BY <1>2, <1>3, <1>7, <1>8, <1>9, <1>10, <1>11, <1>12, <1>13, <1>14, <1>15 DEF Next

\* A monitor that is connected for the first time: nothing to show again.
LEMMA ConnectedVisible ==
  ASSUME Endless, NEW d \in Desk, NEW m \in Outputs, Orderly /\ ~d.torn => m \notin Lit(d),
         seen[m] = NoWorkspace, NEW e, e = Connected(d, m)
  PROVE  e.visible \subseteq Existing(e)
<1>1. d.enabled \in Seq(Outputs)
  BY DeskFields
<1>2. PICK l : l = Append(d.enabled, m)
  OBVIOUS
<1>3. l \in Seq(Outputs)
  BY <1>1, <1>2, AppendMembers
<1>4. PICK c : c = [d EXCEPT !.enabled = l]
  OBVIOUS
<1>5. c \in Desk /\ (Orderly /\ ~c.torn => m \notin Lit(c))
  BY <1>3, <1>4 DEF Desk, Lit
<1>6. PICK default : default = WithDefault(c, m)
  OBVIOUS
<1>7. PICK V1 : V1 = {x \in Existing(c) : DefaultFor[m] = x}
  OBVIOUS
<1>8. default \in Desk
  <2>1. Settles(c, default, V1, m)
    BY <1>5, <1>6, <1>7, DefaultSettles, SMTT(60)
  <2> QED  BY <2>1 DEF Settles, Follows
<1>9. PICK bb : bb = BroughtBack(default, m)
  OBVIOUS
<1>10. PICK V2 : V2 = {x \in Existing(default) : default.back[x] = m \/ Len(default.enabled) = 1}
  OBVIOUS
<1>11. bb \in Desk
  <2>1. Settles(default, bb, V2, m)
    BY <1>8, <1>9, <1>10, BroughtBackSettles
  <2> QED  BY <2>1 DEF Settles, Follows
<1>12. PICK left : left = Collected(bb)
  OBVIOUS
<1>13. left \in Desk /\ left.visible \subseteq Existing(left)
  BY <1>11, <1>12, CollectedFields
<1>14. PICK h : h = IF left.focused = NoMonitor THEN [left EXCEPT !.focused = m] ELSE left
  OBVIOUS
<1>15. h \in Desk /\ h.visible = left.visible /\ h.order = left.order
  <2>1. CASE left.focused = NoMonitor
    BY <1>13, <1>14, <2>1 DEF Desk
  <2>2. CASE left.focused # NoMonitor
    BY <1>13, <1>14, <2>2
  <2> QED  BY <2>1, <2>2
<1>16. e = SeenAgain(h, m)
  BY <1>2, <1>4, <1>6, <1>9, <1>12, <1>14 DEF Connected
<1>17. NoWorkspace \notin Existing(h)
  BY <1>15, DeskSets, Sorts
<1>18. PICK f : f = IF h.focused \in Enabled(h) THEN h.focused ELSE m
  OBVIOUS
<1>19. e = [h EXCEPT !.focused = f]
  BY <1>16, <1>17, <1>18 DEF SeenAgain
<1>20. e.visible = h.visible /\ e.order = h.order
  BY <1>15, <1>19 DEF Desk
<1> QED  BY <1>13, <1>15, <1>20 DEF Existing

LEMMA InitSound ==
  ASSUME Endless, Init
  PROVE  Sound
<1>1. PICK m \in Outputs :
        /\ plugged = {m, Fallback} /\ unsafe = (m = Fallback)
        /\ desk = Connected(
             [enabled |-> <<>>, order |-> <<>>,
              home |-> [s \in Workspaces |-> NoMonitor],
              back |-> [s \in Workspaces |-> NoMonitor],
              visible |-> {},
              active |-> [n \in Outputs |-> NoWorkspace],
              special |-> [n \in Outputs |-> NoWorkspace],
              focused |-> NoMonitor,
              on |-> [w \in Windows |-> NoWorkspace],
              screen |-> [w \in Windows |-> NoMonitor],
              pinned |-> {}, torn |-> FALSE], m)
  BY DEF Init
<1>2. PICK d :
        d = [enabled |-> <<>>, order |-> <<>>,
             home |-> [s \in Workspaces |-> NoMonitor],
             back |-> [s \in Workspaces |-> NoMonitor],
             visible |-> {},
             active |-> [n \in Outputs |-> NoWorkspace],
             special |-> [n \in Outputs |-> NoWorkspace],
             focused |-> NoMonitor,
             on |-> [w \in Windows |-> NoWorkspace],
             screen |-> [w \in Windows |-> NoMonitor],
             pinned |-> {}, torn |-> FALSE]
  OBVIOUS
<1>3. desk = Connected(d, m)
  BY <1>1, <1>2
<1>4. seen = [n \in Outputs |-> NoWorkspace]
  BY DEF Init
<1>5. seen \in [Outputs -> Ids \cup {NoWorkspace}] /\ seen[m] = NoWorkspace
  BY <1>4
<1>6. /\ d \in Desk /\ d.enabled = <<>> /\ d.order = <<>> /\ d.visible = {} /\ d.pinned = {}
      /\ \A n \in Outputs : d.active[n] = NoWorkspace /\ d.special[n] = NoWorkspace
      /\ \A w \in Windows : d.on[w] = NoWorkspace
      /\ d.torn = FALSE
  BY <1>2 DEF Desk
<1>7. Enabled(d) = {} /\ Existing(d) = {} /\ Lit(d) = {}
  BY <1>6, ListMembers DEF Enabled, Existing, Lit, ToSet
<1>8. Agrees(d) /\ Listed(d)
  BY <1>6, <1>7, Sorts DEF Agrees, ShowsOwn, OpensOwn, FlagsShown, WindowsPlaced, Listed
<1>9. Tidy(d, Nowhere(unsafe))
  BY <1>6, <1>7, <1>8 DEF Tidy
<1>10. /\ Tidy(desk, Nowhere(unsafe)) /\ Enabled(desk) = Enabled(d) \cup {m}
       /\ desk.focused \in Enabled(desk)
  BY <1>3, <1>5, <1>7, <1>9, ConnectedTidy
<1>11. desk.visible \subseteq Existing(desk)
  BY <1>3, <1>5, <1>6, <1>7, ConnectedVisible
<1>12. TypeOK
  BY <1>1, <1>5, <1>10, <1>11, Sorts DEF TypeOK, Tidy
<1>13. Attached(desk, plugged, unsafe)
  BY <1>1, <1>7, <1>10 DEF Attached
<1> QED  BY <1>10, <1>12, <1>13 DEF Sound

-----------------------------------------------------------------------------
(* What a step does to the monitors that stay.                              *)

\* A monitor that comes gets what is due to it; the others lose only that.
LEMMA ConnectedKeeps ==
  ASSUME Endless, Sound, NEW m \in Monitors, m \notin Enabled(desk), Becomes(Connected(desk, m))
  PROVE  /\ Enabled(desk') = Enabled(desk) \cup {m}
         /\ \A s : Lived(desk, s) =>
              /\ desk.back[s] = m => desk'.home[s] = m
              /\ seen[m] = s => desk'.active[m] = s
         /\ \A n \in Enabled(desk) :
              \/ desk'.active[n] = desk.active[n]
              \/ /\ Due(m, desk.active[n])
                 /\ Lived(desk, desk.active[n]) => desk'.home[desk.active[n]] = m
<1>1. /\ desk \in Desk /\ Tidy(desk, Nowhere(unsafe))
      /\ seen \in [Outputs -> Ids \cup {NoWorkspace}]
  BY SoundFacts
<1>2. m \in Outputs
  BY Sorts
<1>3. Orderly /\ ~desk.torn => m \notin Lit(desk)
  BY <1>1 DEF Tidy
<1>4. PICK e : e = Connected(desk, m)
  OBVIOUS
<1>5. PICK c, V :
        /\ c \in Desk
        /\ Existing(c) = Existing(desk) /\ Enabled(c) = Enabled(desk) \cup {m}
        /\ Len(c.enabled) = 1 => Enabled(desk) = {}
        /\ c.home = desk.home /\ c.visible = desk.visible /\ c.active = desk.active
        /\ c.special = desk.special /\ c.on = desk.on /\ c.screen = desk.screen
        /\ c.pinned = desk.pinned /\ c.torn = desk.torn /\ c.back = desk.back
        /\ m \in Lit(e) /\ e.focused \in Enabled(e)
        /\ Settles(c, e, V, m)
        /\ \A x \in V : c.back[x] = m \/ seen[m] = x \/ DefaultFor[m] = x \/ Len(c.enabled) = 1
        /\ \A x : Lived(c, x) /\ (c.back[x] = m \/ seen[m] = x) => x \in V
        /\ \A x : Lived(c, x) /\ seen[m] = x => e.active[m] = x
  <2>1. PICK c, V : Comes(desk, c, e, V, m)
    BY <1>1, <1>2, <1>3, <1>4, ConnectedSettles
  <2> QED  BY <2>1 DEF Comes
<1>6. /\ e \in Desk /\ e.enabled = c.enabled
      /\ \A w \in Windows \ c.pinned : e.on[w] = c.on[w]
      /\ \A x : Lived(c, x) => x \in Existing(e) /\ (x \in V => e.home[x] = m)
      /\ \A n \in Outputs \ {m} : e.active[n] = c.active[n] \/ c.active[n] \in V
  BY <1>5 DEF Settles, Follows
<1>7. desk' = Collected(e)
  BY <1>4 DEF Becomes
<1>8. PICK left : left = Collected(e)
  OBVIOUS
<1>9. /\ Existing(left) = Existing(e) \cap Held(e)
      /\ \A x \in Existing(left) : left.home[x] = e.home[x]
      /\ left.enabled = e.enabled /\ left.active = e.active
  BY <1>6, <1>8, CollectedFields
<1>10. \A w \in Windows : e.on[w] \in Held(e)
  BY <1>6, HeldMembers
<1>11. \A x : Lived(desk, x) => Lived(c, x)
  BY <1>5 DEF Lived
<1>12. ASSUME NEW x, Lived(desk, x), x \in V  PROVE desk'.home[x] = m
  <2>1. x \in Existing(e) /\ e.home[x] = m
    BY <1>6, <1>11, <1>12
  <2>2. PICK w \in Windows \ desk.pinned : desk.on[w] = x
    BY <1>12 DEF Lived
  <2>3. e.on[w] = x
    BY <1>5, <1>6, <2>2
  <2>4. x \in Existing(left)
    BY <1>9, <1>10, <2>1, <2>3
  <2> QED  BY <1>7, <1>8, <1>9, <2>1, <2>4
<1>13. Enabled(desk') = Enabled(desk) \cup {m}
  BY <1>5, <1>6, <1>7, <1>8, <1>9 DEF Enabled
<1>14. ASSUME NEW s, Lived(desk, s)
       PROVE  /\ desk.back[s] = m => desk'.home[s] = m
              /\ seen[m] = s => desk'.active[m] = s
  BY <1>5, <1>7, <1>8, <1>9, <1>11, <1>12, <1>14
<1>15. ASSUME NEW n \in Enabled(desk), desk'.active[n] # desk.active[n]
       PROVE  /\ Due(m, desk.active[n])
              /\ Lived(desk, desk.active[n]) => desk'.home[desk.active[n]] = m
  <2>1. n \in Outputs \ {m}
    BY <1>1, DeskSets
  <2>2. desk.active[n] \in V
    BY <1>5, <1>6, <1>7, <1>8, <1>9, <1>15, <2>1
  <2>3. desk.back[desk.active[n]] = m \/ seen[m] = desk.active[n] \/ DefaultFor[m] = desk.active[n]
    BY <1>5, <2>2
  <2> QED  BY <1>12, <2>2, <2>3 DEF Due
<1> QED  BY <1>13, <1>14, <1>15

\* A monitor that goes leaves the others as they are.
LEMMA DisconnectedKeeps ==
  ASSUME Endless, Sound, NEW m \in Enabled(desk), m # Fallback \/ OthersThan(desk, m) # <<>>,
         NEW e, e = Disconnected(desk, m)
  PROVE  /\ Nearly(e, {m, NoMonitor})
         /\ Enabled(e) \subseteq (Enabled(desk) \ {m}) \cup {Fallback} /\ m \notin Enabled(e)
         /\ \A n \in Enabled(desk) \cap Enabled(e) : e.active[n] = desk.active[n]
<1>1. /\ desk \in Desk /\ Tidy(desk, Nowhere(unsafe))
      /\ seen \in [Outputs -> Ids \cup {NoWorkspace}]
      /\ Nowhere(unsafe) \subseteq {NoMonitor}
  BY SoundFacts
<1>2. m \in Outputs /\ Enabled(desk) \subseteq Outputs
  BY <1>1, DeskSets
<1>3. CASE OthersThan(desk, m) # <<>>
  <2>1. PICK N : N = {}
    OBVIOUS
  <2>2. /\ Nearly(e, N) /\ Enabled(e) = Enabled(desk) \ {m}
        /\ \A n \in Outputs \ {m} : e.active[n] = desk.active[n]
    <3>1. N \subseteq {NoMonitor} /\ Tidy(desk, Nowhere(unsafe))
      BY <1>1, <2>1
    <3>2. /\ Nearly(e, {}) /\ Enabled(e) = Enabled(desk) \ {m}
          /\ \A n \in Outputs \ {m} : e.active[n] = desk.active[n]
      <4>1. Nearly(e, {}) /\ Enabled(e) = Enabled(desk) \ {m}
        BY <1>2, <1>3, SoundFacts, DisconnectedNearly
      <4>2. PassesOn(desk, e, m)
        BY <1>2, <1>3, SoundFacts, DisconnectedNearly
      <4> QED  BY <4>1, <4>2 DEF PassesOn
    <3> QED  BY <2>1, <3>2
  <2>3. Nearly(e, {m, NoMonitor})
    BY <2>1, <2>2 DEF Nearly, HomesIn
  <2> QED  BY <1>2, <2>2, <2>3
<1>4. CASE OthersThan(desk, m) = <<>>
  <2>1. Nearly(e, {m, NoMonitor}) /\ Enabled(e) = {Fallback}
    BY <1>1, <1>4, LastDisconnected
  <2>2. Enabled(desk) \subseteq {m}
    BY <1>1, <1>4, OthersMembers
  <2> QED  BY <1>4, <2>1, <2>2
<1> QED  BY <1>3, <1>4

\* Whoever goes, the others show what they showed.
LEMMA GoneKeeps ==
  ASSUME Endless, Sound, NEW m, (m \in Monitors /\ (Disable(m) \/ Unplug(m))) \/ (m = Fallback /\ LeaveUnsafe)
  PROVE  /\ Returned \subseteq {Fallback}
         /\ \/ Enabled(desk') = Enabled(desk)
            \/ /\ m \in Gone
               /\ \A n \in Enabled(desk) \cap Enabled(desk') :
                    desk'.active[n] = desk.active[n]
<1>1. /\ desk \in Desk /\ Tidy(desk, Nowhere(unsafe))
      /\ Nowhere(unsafe) \subseteq {NoMonitor}
  BY SoundFacts
<1>2. m \in Outputs /\ Enabled(desk) \subseteq Outputs
  BY <1>1, DeskSets, Sorts
<1>3. CASE m \notin Enabled(desk)
  <2>1. CASE Unplug(m)
    <3>1. desk' = Collected(Forgotten(desk, m))
      BY <1>3, <2>1 DEF Unplug, Becomes
    <3>2. PICK f : f = Forgotten(desk, m)
      OBVIOUS
    <3>3. PICK N : N = Nowhere(unsafe)
      OBVIOUS
    <3>4. Nearly(desk, N)
      BY <1>1, <3>3, TidyNearly
    <3>6. N \ {m} \subseteq N /\ (m \in N => NoMonitor \in N)
      BY <1>1, <3>3
    <3>7. Nearly(f, N) /\ Enabled(f) = Enabled(desk)
      <4>1. m \in Outputs /\ m \notin Enabled(desk) /\ Nearly(desk, N)
        BY <1>2, <1>3, <3>4
      <4> QED  BY <3>2, <3>6, <4>1, ForgottenNearly, SMTT(30)
    <3>8. Enabled(desk') = Enabled(desk)
      BY <3>1, <3>2, <3>7, CollectedTidy
    <3> QED  BY <3>8 DEF Returned
  <2>2. CASE m = Fallback /\ LeaveUnsafe
    <3>1. desk' = Collected(Disconnected(desk, m)) /\ Enabled(desk) \cap Monitors # {}
      BY <2>2 DEF LeaveUnsafe, Becomes
    <3>2. OthersThan(desk, m) # <<>>
      BY <1>1, <2>2, <3>1, OthersMembers, Sorts
    <3>3. PICK e : e = Disconnected(desk, m)
      OBVIOUS
    <3>4. PICK N : N = {}
      OBVIOUS
    <3>5. Nearly(e, N) /\ Enabled(e) = Enabled(desk) \ {m}
      BY <1>1, <1>2, <3>2, <3>3, <3>4, DisconnectedNearly
    <3>6. Enabled(desk') = Enabled(desk)
      BY <1>3, <3>1, <3>3, <3>5, CollectedTidy
    <3> QED  BY <3>6 DEF Returned
  <2>3. ~Disable(m)
    BY <1>3 DEF Disable
  <2> QED  BY <2>1, <2>2, <2>3
<1>4. CASE m \in Enabled(desk)
  <2>1. m # Fallback \/ OthersThan(desk, m) # <<>>
    <3>1. CASE m = Fallback /\ LeaveUnsafe
      <4>1. Enabled(desk) \cap Monitors # {}
        BY <3>1 DEF LeaveUnsafe
      <4> QED  BY <1>1, <3>1, <4>1, OthersMembers, Sorts
    <3>2. CASE m \in Monitors
      BY <3>2, Sorts
    <3> QED  BY <3>1, <3>2
  <2>2. PICK e : e = Disconnected(desk, m)
    OBVIOUS
  <2>3. PICK N : N = {m, NoMonitor}
    OBVIOUS
  <2>4. /\ Nearly(e, N)
        /\ Enabled(e) \subseteq (Enabled(desk) \ {m}) \cup {Fallback} /\ m \notin Enabled(e)
        /\ \A n \in Enabled(desk) \cap Enabled(e) : e.active[n] = desk.active[n]
    BY <1>4, <2>1, <2>2, <2>3, DisconnectedKeeps
  <2>5. PICK f : f = IF Unplug(m) THEN Forgotten(e, m) ELSE e
    OBVIOUS
  <2>6. /\ Nearly(f, N) /\ Enabled(f) = Enabled(e)
        /\ \A n \in Outputs \ {m} : f.active[n] = e.active[n]
    <3>1. CASE Unplug(m)
      <4>1. N \ {m} \subseteq N /\ (m \in N => NoMonitor \in N)
        BY <2>3
      <4>2. m \in Outputs /\ m \notin Enabled(e) /\ Nearly(e, N) /\ f = Forgotten(e, m)
        BY <1>2, <2>4, <2>5, <3>1
      <4> QED  BY <4>1, <4>2, ForgottenNearly, SMTT(30)
    <3>2. CASE ~Unplug(m)
      BY <2>4, <2>5, <3>2
    <3> QED  BY <3>1, <3>2
  <2>7. desk' = Collected(f)
    BY <1>4, <2>2, <2>5 DEF Disable, Unplug, LeaveUnsafe, Becomes
  <2>8. PICK left : left = Collected(f)
    OBVIOUS
  <2>9. Enabled(left) = Enabled(f) /\ left.active = f.active
    BY <2>6, <2>8, CollectedFields, CollectedTidy DEF Nearly
  <2>10. Enabled(desk') = Enabled(e) /\ desk'.active = f.active
    BY <2>6, <2>7, <2>8, <2>9
  <2>11. Returned \subseteq {Fallback} /\ m \in Gone
    BY <1>4, <2>4, <2>10 DEF Returned, Gone
  <2>12. ASSUME NEW n \in Enabled(desk) \cap Enabled(desk')
         PROVE  desk'.active[n] = desk.active[n]
    BY <1>2, <2>4, <2>6, <2>10
  <2> QED  BY <2>11, <2>12
<1> QED  BY <1>3, <1>4

-----------------------------------------------------------------------------
(* The steps that change the monitors, as the action properties see them.   *)

LEMMA ReturnsHomeStep ==
  ASSUME Endless, Sound, [Next]_vars
  PROVE  \A m \in Returned \ {Fallback} :
           \A s \in {desk.on[w] : w \in Mapped(desk) \ desk.pinned} :
             /\ desk.back[s] = m => desk'.home[s] = m
             /\ seen[m] = s => desk'.active[m] = s
<1> SUFFICES ASSUME NEW m \in Returned \ {Fallback}, NEW w \in Mapped(desk) \ desk.pinned
             PROVE  /\ desk.back[desk.on[w]] = m => desk'.home[desk.on[w]] = m
                    /\ seen[m] = desk.on[w] => desk'.active[m] = desk.on[w]
  OBVIOUS
<1>1. m \in Enabled(desk') /\ m \notin Enabled(desk) /\ m # Fallback
  BY DEF Returned
<1>2. PICK k \in Monitors : k \notin Enabled(desk) /\ Becomes(Connected(desk, k))
  <2>1. CASE \E k \in Monitors : Disable(k) \/ Unplug(k)
    <3>1. PICK k \in Monitors : Disable(k) \/ Unplug(k)
      BY <2>1
    <3>2. k \in Monitors /\ (Disable(k) \/ Unplug(k))
      BY <3>1
    <3>3. Returned \subseteq {Fallback}
      BY <3>2, GoneKeeps
    <3> QED  BY <3>3
  <2>2. CASE LeaveUnsafe
    <3>1. PICK k : k = Fallback
      OBVIOUS
    <3>2. Returned \subseteq {Fallback}
      BY <2>2, <3>1, GoneKeeps
    <3> QED  BY <3>2
  <2> QED  BY <1>1, <2>1, <2>2, NextSound
<1>3. desk \in Desk /\ Tidy(desk, Nowhere(unsafe))
  BY SoundFacts
<1>4. Lived(desk, desk.on[w])
  BY <1>3 DEF Lived, Mapped, Tidy, Listed
<1>5. k = m
  BY <1>1, <1>2, ConnectedKeeps
<1>6. /\ desk.back[desk.on[w]] = m => desk'.home[desk.on[w]] = m
      /\ seen[m] = desk.on[w] => desk'.active[m] = desk.on[w]
  <2>1. \A s : Lived(desk, s) =>
          /\ desk.back[s] = k => desk'.home[s] = k
          /\ seen[k] = s => desk'.active[k] = s
    BY <1>2, ConnectedKeeps
  <2> QED  BY <1>4, <1>5, <2>1
<1> QED  BY <1>6

LEMMA OthersKeepShowingStep ==
  ASSUME Endless, Sound, [Next]_vars
  PROVE  Returned # {} \/ Gone # {} =>
           \A n \in Enabled(desk) \cap Enabled(desk') :
             LET s == desk.active[n]
             IN \/ desk'.active[n] = s
                \/ \E m \in Returned :
                     Due(m, s) /\ (WindowsOn(desk, s) \ desk.pinned # {} => desk'.home[s] = m)
<1> SUFFICES ASSUME Enabled(desk') # Enabled(desk), NEW n \in Enabled(desk) \cap Enabled(desk'),
                    desk'.active[n] # desk.active[n]
             PROVE  \E m \in Returned :
                      /\ Due(m, desk.active[n])
                      /\ WindowsOn(desk, desk.active[n]) \ desk.pinned # {}
                           => desk'.home[desk.active[n]] = m
  BY DEF Returned, Gone
<1>1. CASE \E m \in Monitors : m \notin Enabled(desk) /\ Becomes(Connected(desk, m))
  <2>1. PICK m \in Monitors : m \notin Enabled(desk) /\ Becomes(Connected(desk, m))
    BY <1>1
  <2>2. /\ Enabled(desk') = Enabled(desk) \cup {m}
        /\ Due(m, desk.active[n])
        /\ Lived(desk, desk.active[n]) => desk'.home[desk.active[n]] = m
    BY <2>1, ConnectedKeeps
  <2>3. m \in Returned
    BY <2>1, <2>2 DEF Returned
  <2>4. desk \in Desk /\ Listed(desk) /\ n \in Lit(desk)
    BY SoundFacts DEF Tidy
  <2>5. WindowsOn(desk, desk.active[n]) \ desk.pinned # {} => Lived(desk, desk.active[n])
    BY <2>4 DEF WindowsOn, Lived, Lit, Listed
  <2> QED  BY <2>2, <2>3, <2>5
<1>2. ASSUME NEW m, (m \in Monitors /\ (Disable(m) \/ Unplug(m))) \/ (m = Fallback /\ LeaveUnsafe)
      PROVE  FALSE
  <2>1. \A k \in Enabled(desk) \cap Enabled(desk') : desk'.active[k] = desk.active[k]
    BY <1>2, GoneKeeps
  <2> QED  BY <2>1
<1>3. CASE \E m \in Monitors : Disable(m) \/ Unplug(m)
  <2>1. PICK m \in Monitors : Disable(m) \/ Unplug(m)
    BY <1>3
  <2>2. (m \in Monitors /\ (Disable(m) \/ Unplug(m))) \/ (m = Fallback /\ LeaveUnsafe)
    BY <2>1
  <2> QED  BY <1>2, <2>2
<1>4. CASE LeaveUnsafe
  <2>1. PICK m : m = Fallback
    OBVIOUS
  <2>2. (m \in Monitors /\ (Disable(m) \/ Unplug(m))) \/ (m = Fallback /\ LeaveUnsafe)
    BY <1>4, <2>1
  <2> QED  BY <1>2, <2>2
<1> QED  BY <1>1, <1>3, <1>4, NextSound

-----------------------------------------------------------------------------
(* The theorems.                                                            *)

\* The invariant the others follow from: an enabled monitor shows a workspace
\* that exists, whatever a monitor shows or a window is on is listed; and until
\* something tears, when workspaces live only while used and the last monitor is
\* not disabled, what monitors and windows say of each other agrees, only enabled
\* monitors show anything, workspaces are on enabled monitors (or nowhere, while
\* the state is unsafe), and the fallback is enabled just while it is.
THEOREM SoundAlways ==
  ASSUME Endless
  PROVE  Spec => []Sound
<1>1. Init => Sound
  BY InitSound
<1>2. Sound /\ [Next]_vars => Sound'
  BY NextSound
<1> QED  BY <1>1, <1>2, PTL DEF Spec

\* The fields of the desk, what is plugged and what is remembered keep their
\* types, and the visible workspaces are listed, as monitors come and go.
THEOREM TypeCorrect ==
  ASSUME Endless
  PROVE  Spec => []TypeOK
<1>1. Sound => TypeOK
  BY DEF Sound
<1> QED  BY <1>1, SoundAlways, PTL

\* What monitors show stays sound, whatever is plugged, unplugged, enabled or
\* disabled in any order with the dispatchers: each shows a workspace of its own,
\* the flags agree, a special one is open where it belongs, the focus is there.
THEOREM MonitorsShowTheirOwn ==
  ASSUME Endless, Orderly
  PROVE  Spec => []DeskSound
<1>1. ASSUME Sound  PROVE DeskSound
  <2>1. /\ desk \in Desk /\ Tidy(desk, Nowhere(unsafe)) /\ TypeOK
        /\ Orderly /\ ~desk.torn => Attached(desk, plugged, unsafe)
    BY <1>1, SoundFacts DEF Sound
  <2> SUFFICES ASSUME ~desk.torn
               PROVE  EachShowsItsOwn /\ VisibleIsShown /\ SpecialOnce /\ FocusConnected
    BY <2>1 DEF DeskSound
  <2>2. /\ ShowsOwn(desk) /\ OpensOwn(desk) /\ FlagsShown(desk)
        /\ Lit(desk) \subseteq Enabled(desk) /\ Enabled(desk) \subseteq Lit(desk)
        /\ Enabled(desk) \subseteq Outputs
    BY <2>1, DeskSets DEF Tidy, Agrees
  <2>3. EachShowsItsOwn
    BY <2>1, <2>2 DEF EachShowsItsOwn, ShowsOwn, Lit
  <2>4. \A n \in Outputs : desk.special[n] # NoWorkspace => n \in Enabled(desk)
    BY <2>2 DEF OpensOwn, Lit
  <2>5. VisibleIsShown
    <3>1. ASSUME NEW s \in Workspaces  PROVE s \in desk.visible <=> s \in OnTop
      BY <2>2, <2>4, <3>1, Sorts DEF OnTop, FlagsShown, Lit
    <3>2. OnTop \subseteq Workspaces \cup {NoWorkspace} /\ desk.visible \subseteq Workspaces
      BY <2>1, <2>2, DeskFields, Sorts DEF OnTop
    <3> QED  BY <3>1, <3>2, Sorts DEF VisibleIsShown
  <2>6. SpecialOnce
    BY <2>2 DEF SpecialOnce, OpensOwn
  <2>7. FocusConnected
    BY <2>1 DEF FocusConnected, Attached
  <2> QED  BY <2>3, <2>5, <2>6, <2>7
<1>2. Sound => DeskSound
  BY <1>1
<1> QED  BY <1>2, SoundAlways, PTL

\* No workspace is lost: once the state is not unsafe, each is on an enabled
\* monitor, however the monitors went and came back.
THEOREM WorkspacesReachable ==
  ASSUME Endless, Orderly
  PROVE  Spec => []NothingLost
<1>1. Sound => NothingLost
  BY SoundFacts DEF NothingLost, Tidy, Nowhere
<1> QED  BY <1>1, SoundAlways, PTL

\* A window that is not pinned is on the monitor of its workspace, through every
\* handler that moves the one or the other.
THEOREM WindowsWithTheirWorkspaces ==
  ASSUME Endless, Orderly
  PROVE  Spec => []WindowsFollow
<1>1. Sound => WindowsFollow
  BY SoundFacts DEF WindowsFollow, Mapped, Tidy, Agrees, WindowsPlaced
<1> QED  BY <1>1, SoundAlways, PTL

\* A monitor that comes back gets its workspaces with windows, and shows what it
\* showed, whatever happened in between and whatever the rules are.
THEOREM MonitorsReturnHome ==
  ASSUME Endless
  PROVE  Spec => ReturnsHome
<1>1. Sound /\ [Next]_vars =>
        [\A m \in Returned \ {Fallback} :
           \A s \in {desk.on[w] : w \in Mapped(desk) \ desk.pinned} :
             /\ desk.back[s] = m => desk'.home[s] = m
             /\ seen[m] = s => desk'.active[m] = s]_vars
  BY ReturnsHomeStep
<1> QED  BY <1>1, SoundAlways, PTL DEF Spec, ReturnsHome

\* When a monitor comes or goes, the others lose what they show only to the one
\* that comes and is due it.
THEOREM MonitorsKeepShowing ==
  ASSUME Endless
  PROVE  Spec => OthersKeepShowing
<1>1. Sound /\ [Next]_vars =>
        [Returned # {} \/ Gone # {} =>
           \A n \in Enabled(desk) \cap Enabled(desk') :
             LET s == desk.active[n]
             IN \/ desk'.active[n] = s
                \/ \E m \in Returned :
                     Due(m, s) /\ (WindowsOn(desk, s) \ desk.pinned # {} => desk'.home[s] = m)]_vars
  BY OthersKeepShowingStep
<1> QED  BY <1>1, SoundAlways, PTL DEF Spec, OthersKeepShowing
=============================================================================
