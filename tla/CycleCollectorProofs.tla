------------------------ MODULE CycleCollectorProofs ------------------------
(***************************************************************************)
(* The collector's two halves for every heap: what it clears is garbage as *)
(* long as its visits stand for owned references, and a major collection   *)
(* finds all garbage.  Both compare two finite sets, the places that hold  *)
(* an object and the visits that find it: the adjusted count is the        *)
(* difference of their sizes.                                              *)
(***************************************************************************)
EXTENDS CycleCollector, FiniteSetTheorems, FunctionTheorems, TLAPS

Holders(o) == {p \in Places : val[p] = o}
Visits(o, C) ==
    {cp \in C \X Places : cp[2] \in Visited(cp[1], location, upvalues) /\ val[cp[2]] = o}

\* There are finitely many places, so use counts are numbers.
LEMMA PlacesFinite == IsFiniteSet(Places) /\ IsFiniteSet(Objects)
<1>1. IsFiniteSet({"slot"}) /\ IsFiniteSet({"cell"})
  BY FS_Singleton
<1>2. IsFiniteSet(SlotPlaces) /\ IsFiniteSet(CellPlaces) /\ IsFiniteSet(FieldPlaces)
  BY <1>1, FS_Product, ObjectsAssumption DEF SlotPlaces, CellPlaces, FieldPlaces
<1>3. IsFiniteSet(Places)
  BY <1>2, FS_Union DEF Places
<1>4. IsFiniteSet(Objects)
  BY FS_Union, ObjectsAssumption DEF Objects
<1> QED BY <1>3, <1>4

\* The holders of an object and the visits that find it are finite.
LEMMA CountsFinite ==
    ASSUME NEW o, NEW C \in SUBSET Objects
    PROVE  /\ IsFiniteSet(Holders(o)) /\ IsFiniteSet(Visits(o, C))
           /\ Cardinality(Holders(o)) \in Nat /\ Cardinality(Visits(o, C)) \in Nat
<1>1. IsFiniteSet(Holders(o))
  <2>1. Holders(o) \in SUBSET Places BY DEF Holders
  <2> QED BY <2>1, PlacesFinite, FS_Subset
<1>2. IsFiniteSet(C \X Places)
  <2>1. IsFiniteSet(C) BY PlacesFinite, FS_Subset
  <2> QED BY <2>1, PlacesFinite, FS_Product
<1>3. IsFiniteSet(Visits(o, C))
  <2>1. Visits(o, C) \in SUBSET (C \X Places) BY DEF Visits
  <2> QED BY <2>1, <1>2, FS_Subset
<1> QED BY <1>1, <1>3, FS_CardinalityType

\* A candidate that owns every place it visits visits it alone.
LEMMA VisitedOnce ==
    ASSUME TypeOK, NEW C \in SUBSET Objects, VisitsOwned(C),
           NEW c \in C, NEW d \in C, NEW p \in Places,
           p \in Visited(c, location, upvalues), p \in Visited(d, location, upvalues)
    PROVE  c = d
<1>1. CASE c \in Containers /\ d \in Containers
  BY <1>1 DEF Visited
<1>2. ASSUME NEW x \in C \cap Closures, p \in Visited(x, location, upvalues)
      PROVE  \E u \in upvalues[x] : p = Cell(u) /\ u \in Cells
  <2>1. x \notin Containers BY ObjectsAssumption
  <2>2. PICK u \in upvalues[x] : p = location[u]
    BY <1>2, <2>1 DEF Visited
  <2>3. u \in Cells BY <2>2 DEF TypeOK
  <2>4. ~Open(u, location) BY <2>2 DEF VisitsOwned
  <2> QED BY <2>2, <2>3, <2>4 DEF Open
<1>3. ASSUME NEW x \in Containers, p \in Visited(x, location, upvalues)
      PROVE  \A u \in Cells : p # Cell(u)
  BY <1>3, ObjectsAssumption DEF Visited, Cell
<1>4. CASE c \in Closures /\ d \in Closures
  <2>1. PICK u \in upvalues[c] : p = Cell(u) BY <1>2, <1>4
  <2>2. PICK w \in upvalues[d] : p = Cell(w) BY <1>2, <1>4
  <2>3. u = w BY <2>1, <2>2 DEF Cell
  <2> QED BY <2>1, <2>2, <2>3, <1>4 DEF VisitsOwned
<1>5. CASE c \in Containers /\ d \in Closures
  BY <1>2, <1>3, <1>5
<1>6. CASE c \in Closures /\ d \in Containers
  BY <1>2, <1>3, <1>6
<1> QED BY <1>1, <1>4, <1>5, <1>6 DEF Objects

\* An object whose adjusted count is not positive is held only by places that some
\* candidate visits.
LEMMA EveryHolderVisited ==
    ASSUME TypeOK, NEW C \in SUBSET Objects, VisitsOwned(C), NEW o,
           ~(AdjustedRC(o, C, val, location, upvalues) > 0),
           NEW p \in Places, val[p] = o
    PROVE  \E c \in C : p \in Visited(c, location, upvalues)
<1> DEFINE H == Holders(o)
           V == Visits(o, C)
           f == [cp \in V |-> cp[2]]
<1>1. Cardinality(H) <= Cardinality(V)
  <2>1. AdjustedRC(o, C, val, location, upvalues) = Cardinality(H) - Cardinality(V)
    BY DEF AdjustedRC, UseCount, Holders, Visits
  <2>2. Cardinality(H) \in Nat /\ Cardinality(V) \in Nat
    BY CountsFinite
  <2> QED BY <2>1, <2>2
<1>2. f \in Injection(V, H)
  <2>1. f \in [V -> H] BY DEF Visits, Holders
  <2>2. ASSUME NEW a \in V, NEW b \in V, f[a] = f[b] PROVE a = b
    <3>1. PICK c \in C, q \in Places : a = <<c, q>> BY DEF Visits
    <3>2. PICK d \in C, r \in Places : b = <<d, r>> BY DEF Visits
    <3>3. q = r BY <2>2, <3>1, <3>2
    <3>4. q \in Visited(c, location, upvalues) /\ r \in Visited(d, location, upvalues)
      BY <3>1, <3>2 DEF Visits
    <3>5. c = d BY <3>3, <3>4, VisitedOnce
    <3> QED BY <3>1, <3>2, <3>3, <3>5
  <2> QED BY <2>1, <2>2, Fun_IsInj
<1>3. Cardinality(V) = Cardinality(H) /\ f \in Surjection(V, H)
  <2> HIDE DEF f, V, H
  <2>1. IsFiniteSet(H) /\ Cardinality(H) \in Nat /\ Cardinality(V) \in Nat
    BY CountsFinite DEF H, V
  <2>2. Cardinality(V) <= Cardinality(H)
        /\ (Cardinality(V) = Cardinality(H) <=> f \in Surjection(V, H))
    BY <1>2, <2>1, FS_Injection
  <2> QED BY <1>1, <2>1, <2>2
<1>4. p \in H BY DEF Holders
<1>5. PICK cp \in V : f[cp] = p
  BY <1>3, <1>4 DEF Surjection
<1> QED BY <1>5 DEF Visits

\* An object whose adjusted count is positive is held by a place no candidate
\* visits.
LEMMA SomeHolderUnvisited ==
    ASSUME TypeOK, NEW C \in SUBSET Objects, NEW o,
           AdjustedRC(o, C, val, location, upvalues) > 0
    PROVE  \E p \in Places : /\ val[p] = o
                             /\ \A c \in C : p \notin Visited(c, location, upvalues)
<1> DEFINE H == Holders(o)
           V == Visits(o, C)
           f == [cp \in V |-> cp[2]]
<1> SUFFICES ASSUME \A p \in H : \E c \in C : p \in Visited(c, location, upvalues)
             PROVE  FALSE
  BY DEF Holders
<1>1. Cardinality(H) > Cardinality(V)
  <2>1. AdjustedRC(o, C, val, location, upvalues) = Cardinality(H) - Cardinality(V)
    BY DEF AdjustedRC, UseCount, Holders, Visits
  <2>2. Cardinality(H) \in Nat /\ Cardinality(V) \in Nat
    BY CountsFinite
  <2> QED BY <2>1, <2>2
<1>2. f \in Surjection(V, H)
  <2>1. f \in [V -> H] BY DEF Visits, Holders
  <2>2. ASSUME NEW p \in H PROVE \E cp \in V : f[cp] = p
    <3>1. PICK c \in C : p \in Visited(c, location, upvalues) OBVIOUS
    <3>2. <<c, p>> \in V BY <3>1 DEF Visits, Holders
    <3>3. f[<<c, p>>] = p BY <3>2
    <3> QED BY <3>2, <3>3
  <2> QED BY <2>1, <2>2 DEF Surjection
<1>3. Cardinality(H) <= Cardinality(V)
  <2> HIDE DEF f, V, H
  <2>1. IsFiniteSet(V) BY CountsFinite DEF V
  <2> QED BY <1>2, <2>1, FS_Surjection
<1>4. Cardinality(H) \in Nat /\ Cardinality(V) \in Nat
  BY CountsFinite
<1> QED BY <1>1, <1>3, <1>4

\* The flood fill holds the seeds and is closed under visiting.
LEMMA MarkedIsClosed ==
    ASSUME NEW C
    PROVE  /\ \A o \in C : AdjustedRC(o, C, val, location, upvalues) > 0
                             => o \in Marked(C, val, location, upvalues)
           /\ \A x \in Marked(C, val, location, upvalues) :
                 \A p \in Visited(x, location, upvalues) :
                    val[p] \in C => val[p] \in Marked(C, val, location, upvalues)
           /\ Marked(C, val, location, upvalues) \subseteq C
BY DEF Marked

\* The reachable objects hold what the slots hold and are closed under visiting.
LEMMA ReachableIsClosed ==
    ASSUME TypeOK
    PROVE  /\ \A p \in SlotPlaces : val[p] # Nil => val[p] \in Reachable
           /\ \A x \in Reachable, p \in Places :
                 p \in Visited(x, location, upvalues) /\ val[p] # Nil => val[p] \in Reachable
<1> DEFINE refs == [o \in Objects |-> {val[p] : p \in Visited(o, location, upvalues)} \ {Nil}]
<1>1. ASSUME NEW p \in SlotPlaces, val[p] # Nil PROVE val[p] \in Reachable
  <2>1. val[p] \in Objects BY <1>1 DEF TypeOK, Places
  <2> QED BY <1>1, <2>1 DEF Reachable
<1>2. ASSUME NEW x \in Reachable, NEW p \in Places, p \in Visited(x, location, upvalues),
             val[p] # Nil
      PROVE  val[p] \in Reachable
  <2>1. val[p] \in Objects /\ x \in Objects BY <1>2 DEF TypeOK, Reachable
  <2>2. val[p] \in refs[x] BY <1>2, <2>1
  <2> QED BY <2>1, <2>2 DEF Reachable
<1> QED BY <1>1, <1>2

\* Soundness in a state: the objects outside the garbage hold the roots and are
\* closed under visiting, so everything reachable is among them.
LEMMA ClearsNoReachable ==
    ASSUME TypeOK, NEW C \in SUBSET Objects, VisitsOwned(C)
    PROVE  Garbage(C, val, location, upvalues) \cap Reachable = {}
<1> DEFINE G == Garbage(C, val, location, upvalues)
           S == Objects \ G
           roots == {val[p] : p \in SlotPlaces} \ {Nil}
           refs == [o \in Objects |-> {val[p] : p \in Visited(o, location, upvalues)} \ {Nil}]
<1>1. ASSUME NEW o \in G, NEW p \in Places, val[p] = o
      PROVE  \E c \in C : p \in Visited(c, location, upvalues)
  <2>1. ~(AdjustedRC(o, C, val, location, upvalues) > 0)
    BY MarkedIsClosed DEF Garbage
  <2> QED BY <1>1, <2>1, EveryHolderVisited
<1>2. ASSUME NEW c \in C, NEW p \in Visited(c, location, upvalues)
      PROVE  p \notin SlotPlaces
  <2>1. CASE c \in Containers
    BY <1>2, <2>1, ObjectsAssumption DEF Visited, SlotPlaces
  <2>2. CASE c \in Closures
    <3>1. PICK u \in upvalues[c] : p = location[u]
      BY <2>2, ObjectsAssumption DEF Visited
    <3>2. u \in Cells BY <2>2, <3>1 DEF TypeOK
    <3>3. p = Cell(u) BY <2>2, <3>1 DEF VisitsOwned, Open
    <3> QED BY <3>3 DEF Cell, SlotPlaces
  <2> QED BY <2>1, <2>2 DEF Objects
<1>3. roots \subseteq S
  <2> SUFFICES ASSUME NEW p \in SlotPlaces, val[p] # Nil PROVE val[p] \in S
    OBVIOUS
  <2>1. p \in Places /\ val[p] \in Objects BY DEF Places, TypeOK
  <2>2. val[p] \notin G BY <1>1, <1>2, <2>1
  <2> QED BY <2>1, <2>2
<1>4. ASSUME NEW x \in S PROVE refs[x] \subseteq S
  <2> SUFFICES ASSUME NEW p \in Visited(x, location, upvalues), val[p] # Nil
               PROVE  val[p] \in S
    BY <1>4
  <2>1. p \in Places /\ val[p] \in Objects
    <3>1. CASE x \in Containers BY <3>1 DEF Visited, Places, FieldPlaces, TypeOK
    <3>2. CASE x \in Closures
      <4>1. PICK u \in upvalues[x] : p = location[u]
        BY <3>2, ObjectsAssumption DEF Visited
      <4>2. u \in Cells BY <3>2, <4>1 DEF TypeOK
      <4> QED BY <4>1, <4>2 DEF TypeOK, Places
    <3> QED BY <3>1, <3>2 DEF Objects
  <2> SUFFICES ASSUME val[p] \in G PROVE FALSE
    BY <2>1
  <2>2. PICK c \in C : p \in Visited(c, location, upvalues) BY <1>1, <2>1
  <2>3. x \in C
    <3> SUFFICES x = c OBVIOUS
    <3>1. CASE c \in Containers
      <4>1. \A u \in Cells : p # Cell(u)
        BY <2>2, <3>1, ObjectsAssumption DEF Visited, Cell
      <4>2. p \notin SlotPlaces BY <1>2, <2>2
      <4>3. x \in Containers
        <5> SUFFICES ASSUME x \in Closures PROVE FALSE BY DEF Objects
        <5>1. PICK u \in upvalues[x] : p = location[u]
          BY ObjectsAssumption DEF Visited
        <5>2. u \in Cells BY <5>1 DEF TypeOK
        <5> QED BY <4>1, <4>2, <5>1, <5>2 DEF TypeOK
      <4> QED BY <2>2, <3>1, <4>3 DEF Visited
    <3>2. CASE c \in Closures
      <4>1. PICK w \in upvalues[c] : p = location[w]
        BY <2>2, <3>2, ObjectsAssumption DEF Visited
      <4>2. w \in Cells BY <3>2, <4>1 DEF TypeOK
      <4>3. p = Cell(w) BY <3>2, <4>1 DEF VisitsOwned, Open
      <4>4. x \in Closures
        <5> SUFFICES ASSUME x \in Containers PROVE FALSE BY DEF Objects
        <5> QED BY <4>3, ObjectsAssumption DEF Visited, Cell
      <4>5. PICK u \in upvalues[x] : p = location[u]
        BY <4>4, ObjectsAssumption DEF Visited
      <4>6. u \in Cells BY <4>4, <4>5 DEF TypeOK
      <4>7. p = Cell(u) BY <4>5, <4>6, <1>2, <2>2 DEF TypeOK
      <4>8. u = w BY <4>3, <4>7 DEF Cell
      <4> QED BY <3>2, <4>1, <4>4, <4>5, <4>8 DEF VisitsOwned
    <3> QED BY <3>1, <3>2 DEF Objects
  <2>4. x \in Marked(C, val, location, upvalues) BY <2>3, <1>4 DEF Garbage
  <2>5. val[p] \in C BY DEF Garbage
  <2> QED BY <2>4, <2>5, MarkedIsClosed DEF Garbage
<1>5. ASSUME NEW o \in Reachable PROVE o \in S
  <2>1. S \in SUBSET Objects OBVIOUS
  <2>2. roots \subseteq S /\ \A x \in S : refs[x] \subseteq S BY <1>3, <1>4
  <2> HIDE DEF S
  <2> QED BY <1>5, <2>1, <2>2 DEF Reachable
<1> QED BY <1>5

\* Completeness in a state: the reachable candidates hold the seeds and are closed
\* under visiting, so the flood fill stays among them.
LEMMA MarksOnlyReachable ==
    ASSUME TypeOK, TrackedOnce, PlacesOwned
    PROVE  CollectsAllGarbage
<1> DEFINE C == young_tracked_ \cup old_tracked_
           S == C \cap Reachable
<1>1. C = alive /\ C \in SUBSET Objects BY DEF TrackedOnce, TypeOK
<1>2. ASSUME NEW o \in C, AdjustedRC(o, C, val, location, upvalues) > 0
      PROVE  o \in S
  <2>1. PICK p \in Places : /\ val[p] = o
                            /\ \A c \in C : p \notin Visited(c, location, upvalues)
    BY <1>1, <1>2, SomeHolderUnvisited
  <2>2. o # Nil BY <1>1, ObjectsAssumption
  <2>3. CASE p \in SlotPlaces BY <2>1, <2>2, <2>3, ReachableIsClosed
  <2>4. ASSUME NEW x \in alive, p \in Owned(x, upvalues) PROVE FALSE
    <3>1. CASE x \in Containers BY <1>1, <2>1, <2>4, <3>1 DEF Owned, Visited
    <3>2. CASE x \in Closures
      <4>1. x \notin Containers BY <3>2, ObjectsAssumption
      <4>2. PICK u \in upvalues[x] : p = Cell(u) BY <2>4, <4>1 DEF Owned
      <4>3. u \in Cells BY <3>2, <4>2 DEF TypeOK
      <4>4. location[u] # Cell(u) BY <1>1, <2>1, <4>1, <4>2 DEF Visited
      <4> QED BY <2>1, <2>2, <4>2, <4>3, <4>4 DEF PlacesOwned, Open
    <3> QED BY <1>1, <3>1, <3>2 DEF Objects
  <2> QED BY <2>1, <2>2, <2>3, <2>4 DEF PlacesOwned
<1>3. ASSUME NEW x \in S, NEW p \in Visited(x, location, upvalues), val[p] \in C
      PROVE  val[p] \in S
  <2>1. p \in Places
    <3>1. x \in Objects BY <1>1
    <3>2. CASE x \in Containers BY <3>2 DEF Visited, Places, FieldPlaces
    <3>3. CASE x \in Closures
      <4>1. PICK u \in upvalues[x] : p = location[u]
        BY <3>3, ObjectsAssumption DEF Visited
      <4>2. u \in Cells BY <3>3, <4>1 DEF TypeOK
      <4> QED BY <4>1, <4>2 DEF TypeOK, Places
    <3> QED BY <3>1, <3>2, <3>3 DEF Objects
  <2>2. val[p] # Nil BY <1>1, <1>3, ObjectsAssumption
  <2> QED BY <1>3, <2>1, <2>2, ReachableIsClosed
<1>4. Marked(C, val, location, upvalues) \subseteq S
  <2>1. S \in SUBSET C OBVIOUS
  <2> HIDE DEF C, S
  <2> QED BY <1>2, <1>3, <2>1 DEF Marked
<1> QED BY <1>1, <1>4 DEF CollectsAllGarbage, Garbage

----------------------------------------------------------------------------
(* The inductive invariant.  Every step ends in Become, applied to contents *)
(* that are well formed, so the steps only have to show that.               *)

IInv == TypeOK /\ TrackedOnce /\ PlacesOwned

WellFormed(v, loc, up) ==
    /\ v \in [Places -> Objects \cup {Nil}]
    /\ loc \in [Cells -> SlotPlaces \cup CellPlaces]
    /\ \A u \in Cells : loc[u] \in SlotPlaces \cup {Cell(u)}
    /\ up \in [Closures -> SUBSET Cells]
    /\ \A u \in Cells : Open(u, loc) => v[Cell(u)] = Nil

\* Reference counting and sweeping keep the invariant.
LEMMA BecomeKeeps ==
    ASSUME NEW v, NEW loc, NEW up, NEW objs \in SUBSET Objects, NEW young, NEW old,
           WellFormed(v, loc, up), young \cap old = {}, objs \subseteq young \cup old,
           disabled_' \in BOOLEAN, Become(v, loc, up, objs, young, old)
    PROVE  IInv'
<1> DEFINE live == Survivors(v, up, objs)
<1>1. live \subseteq objs BY DEF Survivors
<1>2. /\ alive' = live /\ val' = Swept(v, up, live) /\ location' = loc
      /\ upvalues' = [c \in Closures |-> IF c \in live THEN up[c] ELSE {}]
      /\ young_tracked_' = young \cap live /\ old_tracked_' = old \cap live
  BY DEF Become
<1> HIDE DEF live
<1>3. TypeOK'
  BY <1>1, <1>2 DEF TypeOK, WellFormed, Swept
<1>4. TrackedOnce'
  BY <1>1, <1>2 DEF TrackedOnce
<1>5. PlacesOwned'
  <2>1. ASSUME NEW p \in Places, val'[p] # Nil
        PROVE  p \in SlotPlaces \cup UNION {Owned(o, upvalues') : o \in alive'}
    <3>1. p \in SlotPlaces \cup UNION {Owned(o, up) : o \in live}
      BY <1>2, <2>1 DEF Swept
    <3>2. ASSUME NEW o \in live PROVE Owned(o, upvalues') = Owned(o, up)
      <4>1. o \in Containers \/ o \in Closures BY <1>1 DEF Objects
      <4> QED BY <1>2, <4>1 DEF Owned
    <3> QED BY <1>2, <3>1, <3>2
  <2>2. ASSUME NEW u \in Cells, Open(u, location') PROVE val'[Cell(u)] = Nil
    <3>1. Cell(u) \in Places BY DEF Places, CellPlaces, Cell
    <3>2. v[Cell(u)] = Nil BY <1>2, <2>2 DEF WellFormed
    <3> QED BY <1>2, <3>1, <3>2 DEF Swept
  <2> QED BY <2>1, <2>2 DEF PlacesOwned
<1> QED BY <1>3, <1>4, <1>5 DEF IInv

\* Clearing garbage leaves contents well formed.
LEMMA ClearKeeps ==
    ASSUME NEW v, NEW loc, NEW up, NEW G, WellFormed(v, loc, up)
    PROVE  WellFormed(Cleared(G, v), loc, Dropped(G, up))
<1>1. Cleared(G, v) \in [Places -> Objects \cup {Nil}] /\ Dropped(G, up) \in [Closures -> SUBSET Cells]
  BY DEF WellFormed, Cleared, Dropped
<1>2. ASSUME NEW u \in Cells, Open(u, loc) PROVE Cleared(G, v)[Cell(u)] = Nil
  <2>1. Cell(u) \in Places BY DEF Places, CellPlaces, Cell
  <2> QED BY <1>2, <2>1 DEF Cleared, WellFormed
<1> QED BY <1>1, <1>2 DEF WellFormed

\* Both kinds of collection keep the invariant.
LEMMA CollectKeeps ==
    ASSUME NEW v, NEW loc, NEW up, NEW objs \in SUBSET Objects, NEW young, NEW old,
           WellFormed(v, loc, up), objs \subseteq young \cup old, disabled_' \in BOOLEAN,
           CollectMinor(v, loc, up, objs, young, old) \/ CollectMajor(v, loc, up, objs, young, old)
    PROVE  IInv'
<1>1. PICK G : Become(Cleared(G, v), loc, Dropped(G, up), objs, {}, old \cup young)
  BY DEF CollectMinor, CollectMajor
<1>2. WellFormed(Cleared(G, v), loc, Dropped(G, up)) BY ClearKeeps
<1> QED BY <1>1, <1>2, BecomeKeeps

\* Allocation, with or without the collection it triggers, keeps the invariant.
LEMMA TrackKeeps ==
    ASSUME IInv, NEW o \in Objects \ alive, NEW v, NEW loc, NEW up, WellFormed(v, loc, up),
           Track(o, v, loc, up), UNCHANGED disabled_
    PROVE  IInv'
<1> DEFINE young == young_tracked_ \cup {o}
<1>1. /\ alive \cup {o} \in SUBSET Objects /\ alive \cup {o} \subseteq young \cup old_tracked_
      /\ young \cap old_tracked_ = {} /\ disabled_' \in BOOLEAN
  BY DEF IInv, TypeOK, TrackedOnce
<1>2. CASE Become(v, loc, up, alive \cup {o}, young, old_tracked_)
  BY <1>1, <1>2, BecomeKeeps
<1>3. CASE CollectMinor(v, loc, up, alive \cup {o}, young, old_tracked_)
           \/ CollectMajor(v, loc, up, alive \cup {o}, young, old_tracked_)
  BY <1>1, <1>3, CollectKeeps
<1> QED BY <1>2, <1>3 DEF Track

\* A step that only moves values about keeps the invariant.
LEMMA MutateKeeps ==
    ASSUME IInv, NEW v, NEW loc, NEW up, WellFormed(v, loc, up),
           Mutate(v, loc, up), UNCHANGED disabled_
    PROVE  IInv'
<1>1. /\ alive \in SUBSET Objects /\ alive \subseteq young_tracked_ \cup old_tracked_
      /\ young_tracked_ \cap old_tracked_ = {} /\ disabled_' \in BOOLEAN
  BY DEF IInv, TypeOK, TrackedOnce
<1> QED BY <1>1, BecomeKeeps DEF Mutate

LEMMA WellFormedNow == IInv => WellFormed(val, location, upvalues)
BY DEF IInv, TypeOK, PlacesOwned, WellFormed

\* Storing an object in a slot or a field, or through a slot's upvalue, leaves
\* contents well formed.
LEMMA StoreWellFormed ==
    ASSUME IInv, NEW p \in SlotPlaces \cup FieldPlaces, NEW x \in Objects \cup {Nil}
    PROVE  WellFormed([val EXCEPT ![p] = x], location, upvalues)
<1>1. \A u \in Cells : p # Cell(u)
  BY ObjectsAssumption DEF SlotPlaces, FieldPlaces, Cell
<1>2. \A u \in Cells : Cell(u) \in Places BY DEF Places, CellPlaces, Cell
<1> QED BY <1>1, <1>2, WellFormedNow DEF WellFormed, Places

\* Every step keeps the invariant, a collection that clears live objects included.
LEMMA NextKeeps == IInv /\ [Next]_vars => IInv'
<1> SUFFICES ASSUME IInv, [Next]_vars PROVE IInv' OBVIOUS
<1>0. /\ \A s \in Slots : Slot(s) \in SlotPlaces /\ Slot(s) \in Places
      /\ \A u \in Cells : Cell(u) \in Places
  BY DEF Slot, Cell, SlotPlaces, CellPlaces, Places
<1>1. ASSUME NEW o \in Containers, NEW s \in Slots, MakeContainer(o, s) PROVE IInv'
  <2>1. WellFormed([val EXCEPT ![Slot(s)] = o], location, upvalues)
    BY <1>0, StoreWellFormed DEF Objects
  <2> QED BY <1>1, <2>1, TrackKeeps DEF MakeContainer, Objects
<1>2. ASSUME NEW c \in Closures, NEW s \in Slots, NEW q \in Slots, NEW u \in Cells,
             MakeClosure(c, s, q, u)
      PROVE  IInv'
  <2> DEFINE v == [val EXCEPT ![Slot(s)] = c]
             loc == [location EXCEPT ![u] = Slot(q)]
             up == [upvalues EXCEPT ![c] = {u}]
  <2>1. WellFormed(v, location, upvalues) BY <1>0, StoreWellFormed DEF Objects
  <2>2. val[Cell(u)] = Nil
    <3>1. CASE location[u] = Slot(q)
      BY <3>1 DEF IInv, PlacesOwned, Open, Slot, Cell
    <3>2. CASE Unused(u)
      <4>1. Cell(u) \notin SlotPlaces BY DEF Cell, SlotPlaces
      <4>2. ASSUME NEW o \in alive, Cell(u) \in Owned(o, upvalues) PROVE FALSE
        <5>1. CASE o \in Containers
          BY <4>2, <5>1, ObjectsAssumption DEF Owned, Cell
        <5>2. CASE o \in Closures
          <6>1. PICK w \in upvalues[o] : Cell(u) = Cell(w)
            BY <4>2, <5>2, ObjectsAssumption DEF Owned
          <6>2. u = w BY <6>1 DEF Cell
          <6> QED BY <3>2, <5>2, <6>1, <6>2 DEF Unused
        <5> QED BY <5>1, <5>2 DEF IInv, TypeOK, Objects
      <4> QED BY <1>0, <4>1, <4>2 DEF IInv, PlacesOwned
    <3> QED BY <1>2, <3>1, <3>2 DEF MakeClosure, CaptureUpvalue
  <2>3. WellFormed(v, loc, up)
    <3>1. v[Cell(u)] = Nil
      BY <1>0, <2>2 DEF Slot, Cell, IInv, TypeOK
    <3> QED BY <1>0, <2>1, <3>1 DEF WellFormed, Open
  <2> QED BY <1>2, <2>3, TrackKeeps DEF MakeClosure, Objects
<1>3. ASSUME NEW c \in Closures, NEW d \in Closures, NEW s \in Slots, NEW u \in Cells,
             MakeNestedClosure(c, s, d, u)
      PROVE  IInv'
  <2>1. WellFormed([val EXCEPT ![Slot(s)] = c], location, upvalues)
    BY <1>0, StoreWellFormed DEF Objects
  <2>2. WellFormed([val EXCEPT ![Slot(s)] = c], location, [upvalues EXCEPT ![c] = {u}])
    BY <2>1 DEF WellFormed
  <2> QED BY <1>3, <2>2, TrackKeeps DEF MakeNestedClosure, Objects
<1>4. ASSUME NEW s \in Slots, NEW t \in Slots, NEW i \in Fields, StoreField(s, i, t)
      PROVE  IInv'
  <2>1. <<val[Slot(s)], i>> \in FieldPlaces BY <1>4 DEF StoreField, FieldPlaces
  <2>2. val[Slot(t)] \in Objects \cup {Nil} BY <1>0 DEF IInv, TypeOK
  <2> QED BY <1>4, <2>1, <2>2, StoreWellFormed, MutateKeeps DEF StoreField
<1>5. ASSUME NEW s \in Slots, NEW t \in Slots, NEW i \in Fields, LoadField(s, i, t)
      PROVE  IInv'
  <2>1. <<val[Slot(s)], i>> \in Places BY <1>5 DEF LoadField, FieldPlaces, Places
  <2>2. val[<<val[Slot(s)], i>>] \in Objects \cup {Nil} BY <2>1 DEF IInv, TypeOK
  <2>3. Slot(t) \in SlotPlaces \cup FieldPlaces BY <1>0
  <2> QED BY <1>5, <2>2, <2>3, StoreWellFormed, MutateKeeps DEF LoadField
<1>6. ASSUME NEW s \in Slots, NEW t \in Slots, NEW u \in Cells, StoreUpvalue(s, u, t)
      PROVE  IInv'
  <2> DEFINE x == val[Slot(t)]
             v == [val EXCEPT ![location[u]] = x]
  <2>1. x \in Objects \cup {Nil} BY <1>0 DEF IInv, TypeOK
  <2>2. WellFormed(v, location, upvalues)
    <3>1. CASE location[u] \in SlotPlaces BY <2>1, <3>1, StoreWellFormed
    <3>2. CASE location[u] = Cell(u)
      <4>1. \A w \in Cells : Cell(w) = Cell(u) => w = u BY DEF Cell
      <4> QED BY <1>0, <2>1, <3>2, <4>1, WellFormedNow DEF WellFormed, Open
    <3> QED BY <3>1, <3>2 DEF IInv, TypeOK
  <2> QED BY <1>6, <2>2, MutateKeeps DEF StoreUpvalue
<1>7. ASSUME NEW s \in Slots, PopSlot(s) PROVE IInv'
  <2> DEFINE moved == [p \in Places |->
              IF p = Slot(s) THEN Nil
              ELSE IF p \in CellPlaces /\ location[p[2]] = Slot(s) THEN val[Slot(s)]
              ELSE val[p]]
             closed == [u \in Cells |-> IF location[u] = Slot(s) THEN Cell(u) ELSE location[u]]
  <2>1. moved \in [Places -> Objects \cup {Nil}]
    BY <1>0 DEF IInv, TypeOK
  <2>2. closed \in [Cells -> SlotPlaces \cup CellPlaces]
        /\ \A u \in Cells : closed[u] \in SlotPlaces \cup {Cell(u)}
    BY DEF IInv, TypeOK, CellPlaces, Cell
  <2>3. ASSUME NEW u \in Cells, Open(u, closed) PROVE moved[Cell(u)] = Nil
    <3>1. location[u] # Slot(s) /\ Open(u, location) BY <2>3 DEF Open
    <3>2. val[Cell(u)] = Nil BY <3>1 DEF IInv, PlacesOwned
    <3>3. Cell(u)[2] = u BY DEF Cell
    <3> QED BY <1>0, <3>1, <3>2, <3>3
  <2>4. WellFormed(moved, closed, upvalues)
    BY <2>1, <2>2, <2>3 DEF WellFormed, IInv, TypeOK
  <2>5. Mutate(moved, closed, upvalues) BY <1>7 DEF PopSlot
  <2> HIDE DEF moved, closed
  <2> QED BY <1>7, <2>4, <2>5, MutateKeeps DEF PopSlot
<1>8. ASSUME collect PROVE IInv'
  <2>1. /\ alive \in SUBSET Objects /\ alive \subseteq young_tracked_ \cup old_tracked_
        /\ disabled_' \in BOOLEAN
    BY <1>8 DEF IInv, TypeOK, TrackedOnce, collect
  <2> QED BY <1>8, <2>1, WellFormedNow, CollectKeeps DEF collect
<1>9. ASSUME NEW b \in BOOLEAN, SetDisabled(b) PROVE IInv'
  BY <1>9 DEF SetDisabled, IInv, TypeOK, TrackedOnce, PlacesOwned
<1>10. CASE UNCHANGED vars
  BY <1>10 DEF vars, IInv, TypeOK, TrackedOnce, PlacesOwned
<1> QED
  BY <1>1, <1>2, <1>3, <1>4, <1>5, <1>6, <1>7, <1>8, <1>9, <1>10 DEF Next

\* IInv holds of every reachable state of the heap.
THEOREM Invariance == Spec => []IInv
<1>1. Init => IInv
  <2> SUFFICES ASSUME Init PROVE IInv OBVIOUS
  <2>1. TypeOK BY DEF Init, TypeOK, CellPlaces, Cell
  <2>2. TrackedOnce BY DEF Init, TrackedOnce
  <2>3. PlacesOwned
    <3>1. \A u \in Cells : ~Open(u, location) BY DEF Init, Open
    <3>2. \A p \in Places : val[p] = Nil BY DEF Init
    <3> QED BY <3>1, <3>2 DEF PlacesOwned
  <2> QED BY <2>1, <2>2, <2>3 DEF IInv
<1> QED BY <1>1, NextKeeps, PTL DEF Spec

\* Type correctness of the heap, for every number of objects, slots and fields.
THEOREM TypeCorrect == Spec => []TypeOK
<1>1. IInv => TypeOK BY DEF IInv
<1> QED BY <1>1, Invariance, PTL

\* No collection, promotion or purge forgets an object or tracks it twice
\* (collect_minor, collect_major, track).
THEOREM NobodyIsForgotten == Spec => []TrackedOnce
<1>1. IInv => TrackedOnce BY DEF IInv
<1> QED BY <1>1, Invariance, PTL

\* Trial deletion is sound for every heap in which visits stand for owned
\* references: phases 2 and 3 never condemn an object the program can reach.
THEOREM CollectorIsSound == Spec => []CollectsOnlyGarbage
<1>1. IInv => CollectsOnlyGarbage
  <2> SUFFICES ASSUME IInv, NEW C \in Generations, VisitsOwned(C)
               PROVE  Garbage(C, val, location, upvalues) \cap Reachable = {}
    BY DEF CollectsOnlyGarbage
  <2>1. C \in SUBSET Objects BY DEF Generations, IInv, TypeOK
  <2> QED BY <2>1, ClearsNoReachable DEF IInv
<1> QED BY <1>1, Invariance, PTL

\* Trial deletion is complete: a major collection condemns every unreachable
\* object, whatever cycles through containers, closures and upvalues it is in.
THEOREM CollectorIsComplete == Spec => []CollectsAllGarbage
<1>1. IInv => CollectsAllGarbage BY MarksOnlyReachable DEF IInv
<1> QED BY <1>1, Invariance, PTL
============================================================================
