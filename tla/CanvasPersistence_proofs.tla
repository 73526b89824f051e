---------------------- MODULE CanvasPersistence_proofs ----------------------
(***************************************************************************)
(* Proofs about CanvasPersistence, for every set of classes, sizes and     *)
(* views and every bound.                                                  *)
(***************************************************************************)
EXTENDS CanvasPersistence, FiniteSetTheorems, TLAPS

\* The copies are finitely many annotations, whatever the ids.
LEMMA CopiesAreAnnotations ==
  ASSUME NEW S \in SUBSET Annotation, IsFiniteSet(S), NEW n \in Nat \ {0}
  PROVE  /\ Copies(S, n) \in SUBSET Annotation
         /\ IsFiniteSet(Copies(S, n))
         /\ Cardinality(S) \in Nat
<1> DEFINE copy(a) == [a EXCEPT !.id = n + Rank(a, S)]
           f == [a \in S |-> copy(a)]
<1>1. \A a \in S : Rank(a, S) \in Nat
  BY FS_Subset, FS_CardinalityType DEF Rank
<1>2. \A a \in S : copy(a) \in Annotation
  BY <1>1 DEF Annotation
<1>3. Copies(S, n) = {copy(a) : a \in S}
  BY DEF Copies
<1>4. f \in Surjection(S, Copies(S, n))
  BY <1>3 DEF Surjection
<1> QED  BY <1>2, <1>3, <1>4, FS_Surjection, FS_CardinalityType

\* What any save leaves in the file, or leaves as it was.
FileStep ==
  \/ UNCHANGED file
  \/ \E drawn \in SUBSET Annotation :
       /\ IsFiniteSet(drawn)
       /\ file' = [windows |-> windows', defaults |-> defaults',
                   views |-> views', drawn |-> drawn]

LEMMA ScheduleSaveStep ==
  ASSUME NEW S \in SUBSET Annotation, IsFiniteSet(S), ScheduleSave(S), recent \in BOOLEAN
  PROVE  FileStep /\ recent' \in BOOLEAN
BY DEF ScheduleSave, SaveNow, FileStep

LEMMA FileStepKeepsType ==
  ASSUME FileStep, file \in File, IsFiniteSet(file.drawn),
         windows' \in SizeTable, defaults' \in SizeTable, views' \in ViewTable
  PROVE  file' \in File /\ IsFiniteSet(file'.drawn)
BY DEF FileStep, File

\* The annotations added, or the first of them, are annotations.
LEMMA AddCopiesTyped ==
  ASSUME StoreTypeOK, NEW S \in SUBSET Annotation, IsFiniteSet(S), AddCopies(S)
  PROVE  /\ StoreTypeOK'
         /\ store \cup FirstCopy(S) \in SUBSET Annotation
         /\ IsFiniteSet(store \cup FirstCopy(S))
<1>1. /\ Copies(S, nextId) \in SUBSET Annotation
      /\ IsFiniteSet(Copies(S, nextId)) /\ Cardinality(S) \in Nat
  BY CopiesAreAnnotations DEF StoreTypeOK
<1>2. IsFiniteSet(store \cup Copies(S, nextId))
  BY <1>1, FS_Union DEF StoreTypeOK
<1>3. store \cup FirstCopy(S) \subseteq store \cup Copies(S, nextId)
  BY DEF FirstCopy
<1>4. IsFiniteSet(store \cup FirstCopy(S))
  BY <1>2, <1>3, FS_Subset
<1> QED  BY <1>1, <1>2, <1>3, <1>4 DEF AddCopies, StoreTypeOK

LEMMA ShrinkTyped ==
  ASSUME StoreTypeOK, store' \subseteq store, nextId' = nextId, dirty' \in BOOLEAN
  PROVE  StoreTypeOK' /\ store' \in SUBSET Annotation /\ IsFiniteSet(store')
BY FS_Subset DEF StoreTypeOK

\* The state that is not in the annotation store, with the file.
RestTypeOK ==
  /\ windows \in SizeTable /\ defaults \in SizeTable /\ views \in ViewTable
  /\ recent \in BOOLEAN /\ loaded \in BOOLEAN /\ enabled \in BOOLEAN
  /\ cleared \subseteq Annotation /\ IsFiniteSet(cleared)
  /\ file \in File /\ IsFiniteSet(file.drawn)
  /\ marks \in Nat

LEMMA TypeParts == TypeOK <=> StoreTypeOK /\ RestTypeOK
BY DEF TypeOK, RestTypeOK

\* A step that schedules one save of a typed store and keeps the types of the
\* tables keeps all types.
LEMMA SavingStepTyped ==
  ASSUME RestTypeOK, StoreTypeOK', NEW S \in SUBSET Annotation, IsFiniteSet(S),
         ScheduleSave(S),
         windows' \in SizeTable, defaults' \in SizeTable, views' \in ViewTable,
         loaded' \in BOOLEAN, enabled' \in BOOLEAN,
         cleared' \subseteq Annotation, IsFiniteSet(cleared'), marks' \in Nat
  PROVE  TypeOK' /\ FileStep
<1>1. FileStep /\ recent' \in BOOLEAN
  BY ScheduleSaveStep DEF RestTypeOK
<1>2. file' \in File /\ IsFiniteSet(file'.drawn)
  BY <1>1, FileStepKeepsType DEF RestTypeOK
<1> QED  BY <1>1, <1>2 DEF TypeOK

LEMMA EmptyTablesTyped == NoSizes \in SizeTable /\ NoViews \in ViewTable
BY DEF NoSizes, SizeTable, NoViews, ViewTable

LEMMA RestoredTyped == ASSUME NEW t \in ViewTable  PROVE Restored(t) \in ViewTable
BY DEF Restored, ViewTable

LEMMA TypeStep == ASSUME TypeOK, [Next]_vars  PROVE TypeOK' /\ FileStep
<1> USE DEF storeVars
<1>0. StoreTypeOK /\ RestTypeOK
  BY TypeParts
<1>s. store \in SUBSET Annotation /\ IsFiniteSet(store)
  BY <1>0 DEF StoreTypeOK
<1>1. CASE Draw
  <2>1. marks' \in Nat /\ marks' = marks + 1
    BY <1>0, <1>1 DEF Draw, RestTypeOK
  <2>2. PICK kind \in Kinds : AddAnnotation(kind, marks')
    BY <1>1 DEF Draw
  <2>3. /\ [id |-> nextId, kind |-> kind, mark |-> marks'] \in Annotation
        /\ nextId' \in Nat \ {0}
    BY <1>0, <2>1, <2>2 DEF StoreTypeOK, Annotation, AddAnnotation
  <2>4. IsFiniteSet(store')
    BY <1>s, <2>2, FS_AddElement DEF AddAnnotation
  <2>5. StoreTypeOK'
    BY <1>0, <2>2, <2>3, <2>4 DEF AddAnnotation, StoreTypeOK
  <2>6. store' \in SUBSET Annotation
    BY <2>5 DEF StoreTypeOK
  <2> QED  BY <1>0, <1>1, <2>1, <2>4, <2>5, <2>6, SavingStepTyped DEF Draw, RestTypeOK
<1>2. CASE Erase
  <2>1. StoreTypeOK' /\ store' \in SUBSET Annotation /\ IsFiniteSet(store')
    BY <1>0, <1>2, ShrinkTyped DEF Erase, RemoveAnnotations
  <2> QED  BY <1>0, <1>2, <2>1, SavingStepTyped DEF Erase, RestTypeOK
<1>3. CASE Clear
  <2>1. StoreTypeOK' /\ store' \in SUBSET Annotation /\ IsFiniteSet(store')
    BY <1>0, <1>3, ShrinkTyped DEF Clear, ClearAll
  <2> QED  BY <1>0, <1>s, <1>3, <2>1, SavingStepTyped DEF Clear, RestTypeOK
<1>4. CASE UndoClear
  <2>1. /\ StoreTypeOK' /\ store \cup FirstCopy(cleared) \in SUBSET Annotation
        /\ IsFiniteSet(store \cup FirstCopy(cleared))
    BY <1>0, <1>4, AddCopiesTyped DEF UndoClear, RestTypeOK
  <2>2. IsFiniteSet({})
    BY FS_EmptySet
  <2> QED  BY <1>0, <1>4, <2>1, <2>2, SavingStepTyped DEF UndoClear, RestTypeOK
<1>5. CASE ChangeWindow
  <2>1. windows' \in SizeTable /\ defaults' \in SizeTable
    BY <1>0, <1>5 DEF ChangeWindow, TrackWindow, RestTypeOK, SizeTable
  <2>2. StoreTypeOK'
    BY <1>0, <1>5 DEF ChangeWindow, StoreTypeOK
  <2> QED  BY <1>0, <1>s, <1>5, <2>1, <2>2, SavingStepTyped DEF ChangeWindow, RestTypeOK
<1>6. CASE CreateView
  <2>1. views' \in ViewTable
    BY <1>0, <1>6 DEF CreateView, RestTypeOK, ViewTable
  <2>2. StoreTypeOK'
    BY <1>0, <1>6 DEF CreateView, StoreTypeOK
  <2> QED  BY <1>0, <1>s, <1>6, <2>1, <2>2, SavingStepTyped DEF CreateView, RestTypeOK
<1>7. CASE Enable
  <2>1. file.drawn \in SUBSET Annotation /\ IsFiniteSet(file.drawn)
    BY <1>0 DEF RestTypeOK, File
  <2>2. /\ StoreTypeOK' /\ store \cup FirstCopy(file.drawn) \in SUBSET Annotation
        /\ IsFiniteSet(store \cup FirstCopy(file.drawn))
    BY <1>0, <1>7, <2>1, AddCopiesTyped DEF Enable, LoadFile
  <2>3. windows' \in SizeTable /\ defaults' \in SizeTable /\ views' \in ViewTable
    BY <1>0, <1>7, RestoredTyped DEF Enable, RestTypeOK, File
  <2>4. FileStep /\ recent' \in BOOLEAN
    BY <1>7, <2>2 DEF Enable, LoadFile, SaveNow, FileStep
  <2>5. file' \in File /\ IsFiniteSet(file'.drawn)
    BY <1>0, <2>3, <2>4, FileStepKeepsType DEF RestTypeOK
  <2>6. IsFiniteSet({})
    BY FS_EmptySet
  <2>7. /\ loaded' \in BOOLEAN /\ enabled' \in BOOLEAN /\ marks' \in Nat
        /\ cleared' \subseteq Annotation /\ IsFiniteSet(cleared')
    BY <1>0, <1>7, <2>6 DEF Enable, LoadFile, RestTypeOK
  <2> QED  BY <2>2, <2>3, <2>4, <2>5, <2>7 DEF TypeOK
<1>8. CASE Disable
  <2>1. StoreTypeOK'
    BY <1>0, <1>8 DEF Disable, StoreTypeOK
  <2> QED  BY <1>0, <1>s, <1>8, <2>1, SavingStepTyped DEF Disable, RestTypeOK
<1>9. CASE Wait
  BY <1>0, <1>9 DEF Wait, TypeOK, StoreTypeOK, RestTypeOK, FileStep
<1>10. CASE Restart
  <2>1. IsFiniteSet({})
    BY FS_EmptySet
  <2>2. StoreTypeOK'
    BY <1>10, <2>1 DEF Restart, StoreTypeOK
  <2>3. UNCHANGED file /\ marks' \in Nat
    BY <1>0, <1>10 DEF Restart, RestTypeOK
  <2>4. /\ windows' \in SizeTable /\ defaults' \in SizeTable /\ views' \in ViewTable
        /\ recent' \in BOOLEAN /\ loaded' \in BOOLEAN /\ enabled' \in BOOLEAN
        /\ cleared' \subseteq Annotation /\ IsFiniteSet(cleared')
    BY <1>10, <2>1, EmptyTablesTyped DEF Restart
  <2> QED  BY <1>0, <2>2, <2>3, <2>4 DEF TypeOK, RestTypeOK, FileStep
<1>11. CASE UNCHANGED vars
  BY <1>0, <1>11 DEF vars, TypeOK, StoreTypeOK, RestTypeOK, FileStep
<1> QED  BY <1>1, <1>2, <1>3, <1>4, <1>5, <1>6, <1>7, <1>8, <1>9, <1>10, <1>11 DEF Next

\* What the file may hold at first.
LEMMA SavedSetsTyped ==
  ASSUME NEW max \in Nat, NEW S \in SavedSets(max)
  PROVE  S \subseteq Annotation /\ IsFiniteSet(S)
<1> PICK n \in 0..max : \E k \in [1..n -> Kinds] :
      S = {[id |-> i, kind |-> k[i], mark |-> i] : i \in 1..n}
  BY DEF SavedSets
<1>1. PICK k \in [1..n -> Kinds] :
        S = {[id |-> i, kind |-> k[i], mark |-> i] : i \in 1..n}
  OBVIOUS
<1> DEFINE f == [i \in 1..n |-> [id |-> i, kind |-> k[i], mark |-> i]]
<1>2. f \in Surjection(1..n, S)
  BY <1>1 DEF Surjection
<1>3. IsFiniteSet(S)
  BY <1>2, FS_Interval, FS_Surjection
<1> QED  BY <1>1, <1>3 DEF Annotation

\* The variables keep their types: in particular what a restart loads are
\* always finitely many annotations.
THEOREM TypeCorrect == Spec => []TypeOK
<1>1. ASSUME Init  PROVE TypeOK
  <2>1. PICK saved \in SavedSets(MaxSaved) :
          /\ file = [windows |-> NoSizes, defaults |-> NoSizes, views |-> NoViews,
                     drawn |-> saved]
          /\ marks = Cardinality(saved)
    BY <1>1 DEF Init
  <2>2. saved \subseteq Annotation /\ IsFiniteSet(saved) /\ Cardinality(saved) \in Nat
    BY SavedSetsTyped, SavedAssumption, FS_CardinalityType
  <2>3. IsFiniteSet({}) /\ Cardinality({}) = 0 /\ Copies({}, 1) = {}
    BY FS_EmptySet DEF Copies
  <2>4. StoreTypeOK
    BY <1>1, <2>3 DEF Init, InitStore, StoreTypeOK
  <2>5. file \in File /\ IsFiniteSet(file.drawn)
    BY <2>1, <2>2, EmptyTablesTyped DEF File
  <2> QED  BY <1>1, <2>1, <2>2, <2>3, <2>4, <2>5, EmptyTablesTyped DEF Init, TypeOK
<1>2. TypeOK /\ [Next]_vars => TypeOK'
  BY TypeStep
<1> QED  BY <1>1, <1>2, PTL DEF Spec

-----------------------------------------------------------------------------
LEMMA DefaultsStep ==
  ASSUME TypeOK, DefaultsFollowWindows, [Next]_vars  PROVE DefaultsFollowWindows'
<1>1. defaults' = windows'
  BY DEF Next, vars, Draw, Erase, Clear, UndoClear, ChangeWindow, TrackWindow,
         CreateView, Enable, Disable, Wait, Restart, DefaultsFollowWindows
<1>2. FileStep
  BY TypeStep
<1> QED  BY <1>1, <1>2 DEF FileStep, DefaultsFollowWindows

\* A class's default size is the size tracked last, in memory and in the file.
THEOREM DefaultsAlwaysFollow == Spec => []DefaultsFollowWindows
<1>1. Init => DefaultsFollowWindows
  BY DEF Init, DefaultsFollowWindows
<1>2. TypeOK /\ DefaultsFollowWindows /\ [Next]_vars => DefaultsFollowWindows'
  BY DefaultsStep
<1> QED  BY <1>1, <1>2, TypeCorrect, PTL DEF Spec

-----------------------------------------------------------------------------
(***************************************************************************)
(* What the file knows, the memory knows: after a load, every size and     *)
(* view in the file is in the tables too, so no save can lose one.         *)
(***************************************************************************)

TablesCover ==
  loaded => /\ \A c \in Classes : file.windows[c] # Untracked => windows[c] # Untracked
            /\ \A v \in Views : file.views[v] = "filled" => views[v] # "none"

\* Within a step the tables only grow, while the object stays.
LEMMA TablesGrow ==
  ASSUME TypeOK, [Next]_vars, ~Enable, ~Restart
  PROVE  /\ \A c \in Classes : windows[c] # Untracked => windows'[c] # Untracked
         /\ \A v \in Views : views[v] # "none" => views'[v] # "none"
         /\ loaded' = loaded
         /\ ~loaded => UNCHANGED file
<1>1. CASE ChangeWindow
  <2>1. PICK class \in Classes, size \in Sizes :
          windows' = [windows EXCEPT ![class] = size]
    BY <1>1 DEF ChangeWindow, TrackWindow
  <2>2. size # Untracked
    BY SizesAssumption DEF Untracked
  <2>3. \A c \in Classes : windows[c] # Untracked => windows'[c] # Untracked
    BY <2>1, <2>2 DEF TypeOK, SizeTable
  <2> QED  BY <1>1, <2>3 DEF ChangeWindow
<1>2. CASE ~ChangeWindow
  <2>1. /\ UNCHANGED <<windows, loaded>>
        /\ \A v \in Views : views[v] # "none" => views'[v] # "none"
    BY <1>2 DEF Next, vars, Draw, Erase, Clear, UndoClear, CreateView, Disable, Wait,
                TypeOK, ViewTable
  <2>2. ~loaded => UNCHANGED file
    BY <1>2 DEF Next, vars, Draw, Erase, Clear, UndoClear, CreateView, Disable,
                Wait, ScheduleSave
  <2> QED  BY <2>1, <2>2
<1> QED  BY <1>1, <1>2

ForgetStep ==
  /\ \A c \in Classes : file.windows[c] # Untracked => file'.windows[c] # Untracked
  /\ \A v \in Views : file.views[v] = "filled" => file'.views[v] # "none"

LEMMA CoverStep ==
  ASSUME TypeOK, TablesCover, [Next]_vars  PROVE TablesCover' /\ ForgetStep
<1>1. FileStep
  BY TypeStep
<1>2. CASE Restart
  BY <1>2 DEF Restart, TablesCover, ForgetStep
<1>3. CASE Enable
  <2>1. /\ windows' = file.windows
        /\ \A v \in Views : file.views[v] = "filled" => views'[v] # "none"
    BY <1>3 DEF Enable, Restored
  <2> QED  BY <1>1, <2>1 DEF FileStep, TablesCover, ForgetStep
<1>4. CASE ~Enable /\ ~Restart
  BY <1>1, <1>4, TablesGrow DEF FileStep, TablesCover, ForgetStep
<1> QED  BY <1>2, <1>3, <1>4

\* No save loses a size or a view the file has, across any number of restarts
\* and layout switches.
THEOREM TheFileNeverForgets == Spec => FileNeverForgets
<1>1. Init => TablesCover
  BY DEF Init, TablesCover
<1>2. TypeOK /\ TablesCover /\ [Next]_vars => TablesCover'
  BY CoverStep
<1>3. Spec => []TablesCover
  BY <1>1, <1>2, TypeCorrect, PTL DEF Spec
<1>4. TypeOK /\ TablesCover /\ [Next]_vars =>
        [/\ \A c \in Classes : file.windows[c] # Untracked => file'.windows[c] # Untracked
         /\ \A v \in Views : file.views[v] = "filled" => file'.views[v] # "none"]_vars
  BY CoverStep DEF ForgetStep
<1> QED  BY <1>3, <1>4, TypeCorrect, PTL DEF Spec, FileNeverForgets

-----------------------------------------------------------------------------
LEMMA QuietStep ==
  ASSUME [Next]_vars, memory' # memory, loaded, ~recent, ~UndoClear, ~Enable, ~Restart
  PROVE  file' = [windows |-> windows', defaults |-> defaults',
                  views |-> views', drawn |-> store']
<1> USE DEF ScheduleSave, SaveNow, storeVars
<1>1. CASE Draw \/ Erase \/ Clear
  BY <1>1 DEF Draw, Erase, Clear
<1>2. CASE ChangeWindow \/ CreateView
  BY <1>2 DEF ChangeWindow, CreateView
<1>3. CASE Disable \/ Wait \/ UNCHANGED vars
  BY <1>3 DEF Disable, Wait, vars, memory
<1> QED  BY <1>1, <1>2, <1>3 DEF Next

\* A change made when the last save is old is in the file at once, whole.
THEOREM QuietChangesReachTheFile == Spec => QuietChangesAreSaved
<1>1. [Next]_vars =>
        [memory' # memory /\ loaded /\ ~recent /\ ~UndoClear /\ ~Enable /\ ~Restart
           => file' = [windows |-> windows', defaults |-> defaults',
                       views |-> views', drawn |-> store']]_vars
  BY QuietStep
<1> QED  BY <1>1, PTL DEF Spec, QuietChangesAreSaved
=============================================================================
