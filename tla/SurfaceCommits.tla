--------------------------- MODULE SurfaceCommits ---------------------------
(***************************************************************************)
(* Surfaces, their buffers and the frames that read them                   *)
(* (protocols/core/Compositor.cpp, protocols/types/Buffer.cpp,             *)
(* protocols/types/SurfaceState.cpp, protocols/DRMSyncobj.cpp, the commit  *)
(* listeners of XDGShell.cpp and Subcompositor.cpp, and the part of        *)
(* render/Renderer.cpp that keeps buffers while the GPU reads them).       *)
(*                                                                         *)
(* A client attaches a buffer and commits.  A commit with a new buffer is  *)
(* queued until the buffer can be read: at once for shared memory, when a  *)
(* fence of the event loop fires for a dmabuf.  A fence that fires applies *)
(* every state queued before it, and a fence whose state is already gone   *)
(* does nothing.  Buffers are counted references: the client gets one back *)
(* (the release event) when the last reference is unlocked.                *)
(***************************************************************************)
EXTENDS Naturals, Sequences, FiniteSets

CONSTANTS
    Tops,       \* surfaces that take the role of an xdg_surface
    Subs,       \* surfaces that take the role of a subsurface
    Parent,     \* Parent[c], the surface a subsurface belongs to
    Buffers,    \* the buffers of the client
    Shm,        \* those in shared memory, the synchronous ones
    Explicit,   \* surfaces with a syncobj: their commits carry an acquire point
    Jobs,       \* names of the frames the GPU may be working on
    MaxWaits,   \* bound: MaxWaits[s], the states and waiters surface s may have
    Nothing     \* no buffer

Surfaces == Tops \cup Subs

Ids == UNION {1..MaxWaits[s] : s \in Surfaces}

ASSUME SurfaceAssumption ==
    /\ Tops \cap Subs = {}
    /\ Parent \in [Subs -> Tops]
    /\ Shm \subseteq Buffers
    /\ Explicit \subseteq Surfaces
    /\ Nothing \notin Buffers
    /\ MaxWaits \in [Surfaces -> Nat \ {0}]
    /\ \A S \in {Surfaces, Buffers, Jobs} : IsFiniteSet(S)

MaybeBuffer == Buffers \cup {Nothing}

VARIABLES
    pending,    \* m_pending: [new |-> updated.bits.buffer, buffer, tex |-> it has a texture]
    queued,     \* m_pendingStates: sequences of [buffer, id]
    waiting,    \* waiters of the event loop, each with a weak reference to a state
    current,    \* m_current.buffer
    shown,      \* the buffer whose contents m_current.texture has
    alive,      \* the wl_surface exists
    mapped,     \* m_mapped of the wl_surface
    role,       \* "none", "xdg" or "sub"
    initial,    \* m_initialCommit of the xdg_surface
    shell,      \* m_mapped of the xdg_surface
    sync,       \* m_sync of the subsurface
    killed,     \* the client was sent a protocol error
    locks,      \* m_locks of each buffer
    points,     \* m_syncReleasers of each buffer: the frames whose fence each one carries
    jobs,       \* what each frame the GPU works on reads, as far as no release point has told
                \* the client of it, and the references it keeps
    lent,       \* history: buffers committed and not yet given back to the client
    replaced,   \* history: buffers dropped from an attach while lent
    last        \* history: the buffer of the last commit of each surface that had one

roles == <<alive, mapped, role, initial, shell, sync, killed>>
vars  == <<pending, queued, waiting, current, shown, roles, locks, points, jobs, lent, replaced, last>>

Idle    == [reads |-> {}, holds |-> {}]
Blank   == [new |-> FALSE, buffer |-> Nothing, tex |-> FALSE]

TypeOK ==
    /\ pending \in [Surfaces -> [new : BOOLEAN, buffer : MaybeBuffer, tex : BOOLEAN]]
    /\ queued \in [Surfaces -> Seq([buffer : Buffers, id : Ids])]
    /\ waiting \in [Surfaces -> SUBSET Ids]
    /\ current \in [Surfaces -> MaybeBuffer]
    /\ shown \in [Surfaces -> MaybeBuffer]
    /\ alive \in [Surfaces -> BOOLEAN]
    /\ mapped \in [Surfaces -> BOOLEAN]
    /\ role \in [Surfaces -> {"none", "xdg", "sub"}]
    /\ initial \in [Surfaces -> BOOLEAN]
    /\ shell \in [Surfaces -> BOOLEAN]
    /\ sync \in [Surfaces -> BOOLEAN]
    /\ killed \in BOOLEAN
    /\ locks \in [Buffers -> Nat]
    /\ points \in [Buffers -> SUBSET SUBSET Jobs]
    /\ jobs \in [Jobs -> [reads : SUBSET Buffers, holds : SUBSET (Surfaces \X Buffers)]]
    /\ lent \in [Buffers -> BOOLEAN]
    /\ replaced \in [Buffers -> BOOLEAN]
    /\ last \in [Surfaces -> MaybeBuffer]

-----------------------------------------------------------------------------
(* Counted references *)

Occurs(b, refs) == Cardinality({i \in DOMAIN refs : refs[i] = b})

\* One reference more to each buffer of refs: lock().
Locked(l, refs) == [b \in Buffers |-> l[b] + Occurs(b, refs)]

\* One reference less to each of them: unlock(), or drop().
Unlocked(l, refs) == [b \in Buffers |-> l[b] - Occurs(b, refs)]

\* Fault: the references are dropped without a release.
SilentRelease(left, given, kept, frames) ==
    /\ locks' = left
    /\ lent' = [b \in Buffers |-> lent[b] \/ b \in given]
    /\ points' = kept
    /\ jobs' = frames
    /\ UNCHANGED replaced

\* The counts become left, after the buffers of given were lent: a buffer whose last reference
\* is unlocked goes back to the client, and its release points tell it of the frames they carry.
Release(left, given, kept, frames) ==
    LET back == {b \in Buffers : locks[b] > 0 /\ left[b] = 0}
    IN  /\ locks' = left
        /\ lent' = [b \in Buffers |-> (lent[b] \/ b \in given) /\ b \notin back]
        /\ replaced' = [b \in Buffers |-> replaced[b] /\ b \notin back]
        /\ points' = [b \in Buffers |-> IF b \in back THEN {} ELSE kept[b]]
        /\ jobs' = [j \in Jobs |-> [reads |-> frames[j].reads \ back, holds |-> frames[j].holds]]

BuffersOf(q) == [i \in DOMAIN q |-> q[i].buffer]

-----------------------------------------------------------------------------
(* Roles: what a commit does to the role object of a surface *)

IsSub(s) == role[s] = "sub"

\* The surfaces that hear of a commit of s: a synchronised subsurface is told by its parent.
Hears(s) ==
    IF IsSub(s) THEN (IF sync[s] THEN {} ELSE {s})
    ELSE {s} \cup {c \in Subs : Parent[c] = s /\ IsSub(c) /\ sync[c]}

\* The xdg_surface refuses a buffer before the initial commit, as far as it can still see one.
Refuses(s) == role[s] = "xdg" /\ initial[s] /\ pending'[s].buffer # Nothing

\* The commit event of s, emitted times times, with the contents now shown.
Emit(s, now, times) ==
    LET hears == {t \in Hears(s) : role[t] # "none" /\ ~ (t = s /\ Refuses(s))}
        turns == role[s] = "xdg" /\ shell[s] # (now[s] # Nothing)
    IN  /\ mapped' = [t \in Surfaces |->
                         IF t \notin hears \/ (role[t] = "xdg" /\ ~ turns)
                         THEN mapped[t] ELSE now[t] # Nothing]
        /\ shell' = [t \in Surfaces |->
                         IF t = s /\ s \in hears /\ role[s] = "xdg" THEN now[s] # Nothing ELSE shell[t]]
        /\ initial' = [t \in Surfaces |->
                         IF t = s /\ s \in hears /\ role[s] = "xdg" /\ (~ turns \/ times > 1)
                         THEN FALSE ELSE initial[t]]
        /\ killed' = (killed \/ Refuses(s))
        /\ UNCHANGED <<alive, role, sync>>

\* A synchronous buffer is copied and let go once the surface has a role and is told of the commit.
LetsGo(s, b) == b \in Shm /\ role[s] # "none" /\ ~ (IsSub(s) /\ sync[s])

-----------------------------------------------------------------------------
(* Requests of the client *)

May(s) == alive[s] /\ ~ killed

\* setAttach: the buffer attached before is dropped without a release.  (A client does not give
\* acquire points for shared memory, which linux-drm-syncobj does not support.)
Attach(s, b) ==
    LET old == pending[s].buffer IN
    /\ May(s)
    /\ s \in Explicit => b \notin Shm
    /\ pending' = [pending EXCEPT ![s] = [new |-> TRUE, buffer |-> b, tex |-> b \in Buffers \ Shm]]
    /\ locks' = Locked(Unlocked(locks, <<old>>), <<b>>)
    /\ replaced' = [c \in Buffers |-> replaced[c] \/ (c = old /\ lent[c])]
    /\ UNCHANGED <<queued, waiting, current, shown, roles, points, jobs, lent, last>>

Reset(s) == pending' = [pending EXCEPT ![s] = [new |-> FALSE, buffer |-> Nothing, tex |-> @.tex]]

\* Fault: the null buffer leaves the states that wait for a fence.
KeepsWaiting(s) ==
    LET p       == pending[s]
        goes    == IF p.new \/ LetsGo(s, current[s]) THEN current[s] ELSE Nothing
        now     == IF p.new THEN [shown EXCEPT ![s] = Nothing] ELSE shown
    IN
    /\ May(s)
    /\ ~ p.new \/ p.buffer = Nothing
    /\ Reset(s)
    /\ current' = [current EXCEPT ![s] = IF goes = current[s] THEN Nothing ELSE @]
    /\ shown' = now
    /\ Release(Unlocked(locks, <<goes>>), {}, points, jobs)
    /\ last' = [last EXCEPT ![s] = IF p.new THEN Nothing ELSE @]
    /\ Emit(s, now, 1)
    /\ UNCHANGED <<waiting, queued>>

\* setCommit without a buffer, or with the null buffer: it is applied at once, before the
\* states that wait, and takes those away when there is nothing to show any more.
CommitNow(s) ==
    LET p       == pending[s]
        empties == p.buffer = Nothing /\ ~ p.tex
        goes    == IF p.new \/ LetsGo(s, current[s]) THEN current[s] ELSE Nothing
        now     == IF p.new THEN [shown EXCEPT ![s] = Nothing] ELSE shown
        popped  == IF empties THEN BuffersOf(queued[s]) ELSE << >>
    IN
    /\ May(s)
    /\ ~ p.new \/ p.buffer = Nothing
    /\ Reset(s)
    /\ current' = [current EXCEPT ![s] = IF goes = current[s] THEN Nothing ELSE @]
    /\ shown' = now
    /\ queued' = [queued EXCEPT ![s] = IF empties THEN << >> ELSE @]
    /\ Release(Unlocked(locks, <<goes>> \o popped), {}, points, jobs)
    /\ last' = [last EXCEPT ![s] = IF p.new THEN Nothing ELSE @]
    /\ Emit(s, now, 1)
    /\ UNCHANGED waiting

\* Fault: the references of the states applied on the way are kept.
AppliesOne(s, q, n, given, kept) ==
    LET b    == q[n].buffer
        gone == <<current[s]>> \o (IF LetsGo(s, b) THEN <<b>> ELSE << >>)
        now  == [shown EXCEPT ![s] = b]
    IN  /\ current' = [current EXCEPT ![s] = IF LetsGo(s, b) THEN Nothing ELSE b]
        /\ shown' = now
        /\ queued' = [queued EXCEPT ![s] = SubSeq(q, n + 1, Len(q))]
        /\ Release(Unlocked(locks, gone), given, kept, jobs)
        /\ Emit(s, now, n)

\* whenReadable: the first n states of q are applied in turn, each one replacing the buffer of
\* the one before, and leave the queue.
Apply(s, q, n, given, kept) ==
    LET b    == q[n].buffer
        gone == <<current[s]>> \o BuffersOf(SubSeq(q, 1, n - 1)) \o (IF LetsGo(s, b) THEN <<b>> ELSE << >>)
        now  == [shown EXCEPT ![s] = b]
    IN  /\ current' = [current EXCEPT ![s] = IF LetsGo(s, b) THEN Nothing ELSE b]
        /\ shown' = now
        /\ queued' = [queued EXCEPT ![s] = SubSeq(q, n + 1, Len(q))]
        /\ Release(Unlocked(locks, gone), given, kept, jobs)
        /\ Emit(s, now, n)

UsedIds(s) == waiting[s] \cup {queued[s][i].id : i \in DOMAIN queued[s]}

FreeIds(s) == (1..MaxWaits[s]) \ UsedIds(s)

FreshId(s) == CHOOSE i \in FreeIds(s) : TRUE

\* setCommit with a buffer: the pending state is copied to the queue and reset.  What cannot be
\* read yet waits for a fence; a waiter that could not be added leaves the state without one.
CommitBuffer(s) ==
    LET b     == pending[s].buffer
        entry == [buffer |-> b, id |-> FreshId(s)]
        q     == Append(queued[s], entry)
        added == [points EXCEPT ![b] = IF s \in Explicit THEN @ \cup {{}} ELSE @]
    IN
    /\ May(s)
    /\ b # Nothing
    /\ FreeIds(s) # {}
    /\ Reset(s)
    /\ last' = [last EXCEPT ![s] = b]
    /\ \/ \* shared memory, or the fence has already fired
          /\ Apply(s, q, Len(q), {b}, added)
          /\ UNCHANGED waiting
       \/ \* the acquire point, or the fence of the dmabuf; addWaiter may fail, and nobody
          \* looks at what it returned
          /\ s \in Explicit \/ b \notin Shm
          /\ queued' = [queued EXCEPT ![s] = q]
          /\ \/ waiting' = [waiting EXCEPT ![s] = @ \cup {entry.id}]
             \/ s \in Explicit /\ UNCHANGED waiting
          /\ lent' = [lent EXCEPT ![b] = TRUE]
          /\ points' = added
          /\ UNCHANGED <<current, shown, roles, locks, jobs, replaced>>

\* get_xdg_surface and get_subsurface: a new role object for a surface without one.
TakeRole(s) ==
    /\ May(s)
    /\ role[s] = "none"
    /\ role' = [role EXCEPT ![s] = IF s \in Tops THEN "xdg" ELSE "sub"]
    /\ initial' = [initial EXCEPT ![s] = s \in Tops]
    /\ UNCHANGED <<pending, queued, waiting, current, shown, alive, mapped, shell, sync, killed,
                   locks, points, jobs, lent, replaced, last>>

\* The client destroys the role object.  A subsurface unmaps its surface, which lets the current
\* buffer go; an xdg_surface leaves the surface mapped.
DropRole(s) ==
    LET unmaps == IsSub(s) /\ mapped[s] IN
    /\ alive[s]
    /\ role[s] # "none"
    /\ role' = [role EXCEPT ![s] = "none"]
    /\ shell' = [shell EXCEPT ![s] = FALSE]
    /\ sync' = [sync EXCEPT ![s] = FALSE]
    /\ initial' = [initial EXCEPT ![s] = FALSE]
    /\ mapped' = [mapped EXCEPT ![s] = @ /\ ~ unmaps]
    /\ current' = [current EXCEPT ![s] = IF unmaps THEN Nothing ELSE @]
    /\ Release(Unlocked(locks, IF unmaps THEN <<current[s]>> ELSE << >>), {}, points, jobs)
    /\ UNCHANGED <<pending, queued, waiting, shown, alive, killed, last>>

SetSync(s) ==
    /\ May(s)
    /\ IsSub(s)
    /\ sync' = [sync EXCEPT ![s] = ~ @]
    /\ UNCHANGED <<pending, queued, waiting, current, shown, alive, mapped, role, initial, shell, killed,
                   locks, points, jobs, lent, replaced, last>>

\* The surface goes, by a request or with its client: the references of its states go with it.
\* The waiters stay in the event loop.
Destroy(s) ==
    /\ alive[s]
    /\ alive' = [alive EXCEPT ![s] = FALSE]
    /\ mapped' = [mapped EXCEPT ![s] = FALSE]
    /\ shell' = [shell EXCEPT ![s] = FALSE]
    /\ role' = [role EXCEPT ![s] = "none"]
    /\ sync' = [sync EXCEPT ![s] = FALSE]
    /\ initial' = [initial EXCEPT ![s] = FALSE]
    /\ killed' = (killed /\ \E t \in Surfaces \ {s} : alive[t])
    /\ pending' = [pending EXCEPT ![s] = Blank]
    /\ current' = [current EXCEPT ![s] = Nothing]
    /\ shown' = [shown EXCEPT ![s] = Nothing]
    /\ queued' = [queued EXCEPT ![s] = << >>]
    /\ last' = [last EXCEPT ![s] = Nothing]
    /\ Release(Unlocked(locks, <<pending[s].buffer, current[s]>> \o BuffersOf(queued[s])), {}, points, jobs)
    /\ UNCHANGED waiting

Create(s) ==
    /\ ~ alive[s]
    /\ ~ killed
    /\ alive' = [alive EXCEPT ![s] = TRUE]
    /\ UNCHANGED <<pending, queued, waiting, current, shown, mapped, role, initial, shell, sync, killed,
                   locks, points, jobs, lent, replaced, last>>

-----------------------------------------------------------------------------
(* The event loop and the renderer *)

\* A fence fires.  Its waiter does nothing when the state it was for is gone.
Readable(s, id) ==
    /\ id \in waiting[s]
    /\ waiting' = [waiting EXCEPT ![s] = @ \ {id}]
    /\ UNCHANGED <<pending, last>>
    /\ \/ \E n \in DOMAIN queued[s] : queued[s][n].id = id /\ Apply(s, queued[s], n, {}, points)
       \/ /\ \A n \in DOMAIN queued[s] : queued[s][n].id # id
          /\ UNCHANGED <<queued, current, shown, roles, locks, points, jobs, lent, replaced>>

\* A surface the renderer may draw: its window is mapped, or the window of its parent is.
Visible(s) == IF IsSub(s) THEN mapped[s] /\ shell[Parent[s]] ELSE shell[s]

\* Fault: the references of a frame are cleared when it is submitted, not when it is done.
RendersUnheld(j, drawn) ==
    LET used  == {<<s, current[s]>> : s \in {t \in drawn : current[t] \in Buffers \ Shm}}
        kept  == {}
        reads == {u[2] : u \in used}
    IN
    /\ jobs[j] = Idle
    /\ \A s \in drawn : Visible(s)
    /\ used # {}
    /\ jobs' = [jobs EXCEPT ![j] = [reads |-> reads, holds |-> kept]]
    /\ locks' = [b \in Buffers |-> locks[b] + Cardinality({u \in kept : u[2] = b})]
    /\ points' = [b \in Buffers |-> IF b \in reads THEN {p \cup {j} : p \in points[b]} ELSE points[b]]
    /\ UNCHANGED <<pending, queued, waiting, current, shown, roles, lent, replaced, last>>

\* A frame that draws the surfaces of drawn (SurfacePassElement and endRender): each dmabuf it
\* reads is referenced, until the fence of the frame fires or, for a buffer with release
\* points, until the fence is added to the points.
Render(j, drawn) ==
    LET used  == {<<s, current[s]>> : s \in {t \in drawn : current[t] \in Buffers \ Shm}}
        kept  == {u \in used : points[u[2]] = {}}
        reads == {u[2] : u \in used}
    IN
    /\ jobs[j] = Idle
    /\ \A s \in drawn : Visible(s)
    /\ used # {}
    /\ jobs' = [jobs EXCEPT ![j] = [reads |-> reads, holds |-> kept]]
    /\ locks' = [b \in Buffers |-> locks[b] + Cardinality({u \in kept : u[2] = b})]
    /\ points' = [b \in Buffers |-> IF b \in reads THEN {p \cup {j} : p \in points[b]} ELSE points[b]]
    /\ UNCHANGED <<pending, queued, waiting, current, shown, roles, lent, replaced, last>>

\* The fence of a frame fires: the references it kept are unlocked.
Rendered(j) ==
    /\ jobs[j] # Idle
    /\ Release([b \in Buffers |-> locks[b] - Cardinality({u \in jobs[j].holds : u[2] = b})], {},
               [b \in Buffers |-> {p \ {j} : p \in points[b]}], [jobs EXCEPT ![j] = Idle])
    /\ UNCHANGED <<pending, queued, waiting, current, shown, roles, last>>

-----------------------------------------------------------------------------
Init ==
    /\ pending = [s \in Surfaces |-> Blank]
    /\ queued = [s \in Surfaces |-> << >>]
    /\ waiting = [s \in Surfaces |-> {}]
    /\ current = [s \in Surfaces |-> Nothing]
    /\ shown = [s \in Surfaces |-> Nothing]
    /\ alive = [s \in Surfaces |-> FALSE]
    /\ mapped = [s \in Surfaces |-> FALSE]
    /\ role = [s \in Surfaces |-> "none"]
    /\ initial = [s \in Surfaces |-> FALSE]
    /\ shell = [s \in Surfaces |-> FALSE]
    /\ sync = [s \in Surfaces |-> FALSE]
    /\ killed = FALSE
    /\ locks = [b \in Buffers |-> 0]
    /\ points = [b \in Buffers |-> {}]
    /\ jobs = [j \in Jobs |-> Idle]
    /\ lent = [b \in Buffers |-> FALSE]
    /\ replaced = [b \in Buffers |-> FALSE]
    /\ last = [s \in Surfaces |-> Nothing]

Request(s) ==
    \/ \E b \in MaybeBuffer : Attach(s, b)
    \/ CommitNow(s)
    \/ CommitBuffer(s)
    \/ TakeRole(s)
    \/ DropRole(s)
    \/ SetSync(s)
    \/ Destroy(s)
    \/ Create(s)

Next ==
    \/ \E s \in Surfaces : Request(s)
    \/ \E s \in Surfaces, id \in Ids : Readable(s, id)
    \/ \E j \in Jobs, drawn \in SUBSET Surfaces : Render(j, drawn)
    \/ \E j \in Jobs : Rendered(j)

Spec == Init /\ [][Next]_vars

-----------------------------------------------------------------------------
(* Properties *)

\* The references there are to b: of the attached, the queued and the current states, and of
\* the frames that still need it.
References(b) ==
      Cardinality({s \in Surfaces : pending[s].buffer = b})
    + Cardinality({s \in Surfaces : current[s] = b})
    + Cardinality(UNION {{<<s, i>> : i \in {k \in DOMAIN queued[s] : queued[s][k].buffer = b}} : s \in Surfaces})
    + Cardinality(UNION {{<<j, u>> : u \in {h \in jobs[j].holds : h[2] = b}} : j \in Jobs})

\* The count of a buffer is the number of references to it, whatever was attached over another
\* buffer, applied late, overtaken, or drawn: no count is lost and none is left behind.
LocksAreReferences == \A b \in Buffers : locks[b] = References(b)

\* The counts are sound: the above, and none is ever below nought, which IHLBuffer::unlock
\* asserts.
CountsSound == TypeOK /\ LocksAreReferences

\* What a surface shows, once nothing waits, is the buffer of its last commit that had one: a
\* state that became readable late never brings older contents back, and contents that were
\* taken away stay away.  While states wait, the newest of them is that commit.
NeverGoesBack ==
    \A s \in Surfaces :
        last[s] = IF queued[s] = << >> THEN shown[s] ELSE queued[s][Len(queued[s])].buffer

\* A committed buffer is given back: one that nothing refers to any more was released, unless
\* the client attached it again while it was lent and then attached another in its place (that
\* drop unlocks without a release).
NoReleaseLost == \A b \in Buffers : lent[b] /\ locks[b] = 0 => replaced[b]

\* A buffer is given back only when no state holds it and every frame in flight that reads it
\* has ended, or is known to the client by a release point that carries its fence.
Ended(j) == jobs[j].holds # {} /\ jobs'[j].holds = {}

NotReleasedInUse ==
    [][\A b \in Buffers : lent[b] /\ ~ lent'[b] =>
           /\ \A s \in Surfaces : current'[s] # b /\ \A i \in DOMAIN queued'[s] : queued'[s][i].buffer # b
           /\ \A j \in Jobs : b \in jobs[j].reads => Ended(j) \/ \E p \in points[b] : j \in p]_vars
=============================================================================
