-------------------------- MODULE MCSurfaceCommits --------------------------
(* SurfaceCommits with a window and a subsurface of it, which share a dmabuf and a buffer in
   shared memory. *)
EXTENDS SurfaceCommits

CONSTANTS w, c, d

ParentOf == [s \in Subs |-> w]

Waits == [s \in Surfaces |-> IF s = w THEN 2 ELSE 1]

\* Bounds on the states looked into: one surface at a time has a buffer attached, one has
\* waiters, and the dmabuf has at most three references.
OneAttached == Cardinality({s \in Surfaces : pending[s].buffer # Nothing}) <= 1

OneWaits == Cardinality({s \in Surfaces : waiting[s] # {}}) <= 1

FewReferences == locks[d] <= 3

=============================================================================
