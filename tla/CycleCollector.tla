--------------------------- MODULE CycleCollector ---------------------------
(***************************************************************************)
(* The cycle collector of gc/CycleCollector.cpp on an object graph: trial  *)
(* deletion by adjusted reference counts over one or both generations, and *)
(* the closures and upvalues (vm/BytecodeVMExecute.cpp CLOSURE,            *)
(* captureUpvalue, closeUpvalues) that make the graph it sees differ from  *)
(* the graph the program has.                                              *)
(*                                                                         *)
(* A PLACE is anything that owns a Value: a slot of the value stack (or a  *)
(* global), a field of a container, the `closed` member of an UpvalueObj.  *)
(* shared_ptr's use_count() of an object is the number of places that hold *)
(* it, so reference counting is not a variable but a fact about places.    *)
(* Arrays, tuples, dictionaries, instances and classes are one kind of     *)
(* container.  The collector runs alone here: Safepoint.tla says when.     *)
(***************************************************************************)
EXTENDS Integers, FiniteSets

CONSTANTS
    Containers,  \* arrays, dictionaries, instances...
    Closures,    \* EZClosure objects
    Cells,       \* UpvalueObj objects, shared by closures, not tracked
    Slots,       \* stack slots and globals: the program's roots
    Fields,      \* the fields of a container (a bound)
    Nil

Objects == Containers \cup Closures
SlotPlaces == {"slot"} \X Slots
FieldPlaces == Containers \X Fields
CellPlaces == {"cell"} \X Cells
Places == SlotPlaces \cup FieldPlaces \cup CellPlaces

Slot(s) == <<"slot", s>>
Cell(u) == <<"cell", u>>

ASSUME ObjectsAssumption ==
    /\ IsFiniteSet(Containers) /\ IsFiniteSet(Closures) /\ IsFiniteSet(Cells)
    /\ IsFiniteSet(Slots) /\ IsFiniteSet(Fields)
    /\ Containers \cap Closures = {} /\ Nil \notin Objects
    /\ "slot" \notin Containers /\ "cell" \notin Containers

VARIABLES
    val,             \* what each place holds
    location,        \* UpvalueObj::location of each cell: a slot, or its own place
    upvalues,        \* EZClosure::upvalues, as the set of cells
    alive,           \* the objects that exist
    young_tracked_,
    old_tracked_,
    disabled_

vars == <<val, location, upvalues, alive, young_tracked_, old_tracked_, disabled_>>

----------------------------------------------------------------------------
(* Reference counting.  v, loc, up and objs stand for values of val,       *)
(* location, upvalues and alive.                                           *)

Open(u, loc) == loc[u] # Cell(u)

\* The places an object owns, and so releases when it dies or is cleared.
Owned(o, up) == IF o \in Containers THEN {o} \X Fields ELSE {Cell(u) : u \in up[o]}

\* What reference counting leaves alive: the largest set of objects of which
\* each is held by a root or by a place owned within the set.
Survivors(v, up, objs) ==
    UNION {S \in SUBSET objs :
              \A o \in S : \E p \in SlotPlaces \cup UNION {Owned(x, up) : x \in S} : v[p] = o}

\* The places of the objects that died hold nothing any more.
Swept(v, up, objs) ==
    [p \in Places |->
        IF p \in SlotPlaces \cup UNION {Owned(o, up) : o \in objs} THEN v[p] ELSE Nil]

----------------------------------------------------------------------------
(* The collector.                                                          *)

\* The places traverse() visits.  A closure visits the CURRENT location of each
\* upvalue: a stack slot while the upvalue is open.
Visited(o, loc, up) ==
    IF o \in Containers THEN {o} \X Fields ELSE {loc[u] : u \in up[o]}

UseCount(o, v) == Cardinality({p \in Places : v[p] = o})

\* Mutant: the local shared_ptr of the snapshot is counted too.
AdjustedRC_CountsSelf(o, C, v, loc, up) ==
    UseCount(o, v) + 1
        - Cardinality({cp \in C \X Places : cp[2] \in Visited(cp[1], loc, up) /\ v[cp[2]] = o})

\* Mutant: references from objects outside the candidates are subtracted as well,
\* as if a minor collection traversed the old generation.
AdjustedRC_AllObjects(o, C, v, loc, up) ==
    UseCount(o, v)
        - Cardinality({cp \in Objects \X Places : cp[2] \in Visited(cp[1], loc, up) /\ v[cp[2]] = o})

\* phase2_buildCandidates: one decrement for every visit that finds the object.
AdjustedRC(o, C, v, loc, up) ==
    UseCount(o, v)
        - Cardinality({cp \in C \X Places : cp[2] \in Visited(cp[1], loc, up) /\ v[cp[2]] = o})

\* phase3_findGarbage: the candidates the flood fill reaches from those whose
\* adjusted count is positive, the least set that holds the seeds and is closed
\* under visiting.
Marked(C, v, loc, up) ==
    LET seeds == {o \in C : AdjustedRC(o, C, v, loc, up) > 0}
        refs == [o \in C |-> {v[p] : p \in Visited(o, loc, up)} \cap C]
    IN  {o \in C : \A S \in SUBSET C :
            seeds \subseteq S /\ (\A x \in S : refs[x] \subseteq S) => o \in S}

Garbage(C, v, loc, up) == C \ Marked(C, v, loc, up)

\* clearObject: a container loses its fields, a closure its upvalues.
Cleared(G, v) == [p \in Places |-> IF p \in G \X Fields THEN Nil ELSE v[p]]
Dropped(G, up) == [c \in Closures |-> IF c \in G THEN {} ELSE up[c]]

----------------------------------------------------------------------------
(* The effect of a step: new contents, then reference counting, and where  *)
(* track() or collect() says so a collection before the step ends.         *)

\* The state after the step with reference counts applied.  young and old are the
\* generations, less the expired entries, which phase1 removes some time before
\* the next collection uses them.
Become(v, loc, up, objs, young, old) ==
    LET live == Survivors(v, up, objs) IN
    /\ alive' = live
    /\ val' = Swept(v, up, live)
    /\ upvalues' = [c \in Closures |-> IF c \in live THEN up[c] ELSE {}]
    /\ location' = loc
    /\ young_tracked_' = young \cap live
    /\ old_tracked_' = old \cap live

\* Mutant: the survivors of a minor collection are forgotten, not promoted.
CollectMinor_NoPromotion(v, loc, up, objs, young, old) ==
    LET G == Garbage(young, v, loc, up) IN
    Become(Cleared(G, v), loc, Dropped(G, up), objs, {}, old)

\* collect_minor(): the young generation alone; survivors are promoted.
CollectMinor(v, loc, up, objs, young, old) ==
    LET G == Garbage(young, v, loc, up) IN
    Become(Cleared(G, v), loc, Dropped(G, up), objs, {}, old \cup young)

\* collect_major(): both generations; survivors are the new old generation.
CollectMajor(v, loc, up, objs, young, old) ==
    LET G == Garbage(young \cup old, v, loc, up) IN
    Become(Cleared(G, v), loc, Dropped(G, up), objs, {}, old \cup young)

\* A step that only moves values about.
Mutate(v, loc, up) == Become(v, loc, up, alive, young_tracked_, old_tracked_)

\* track() of a new object: it joins the young generation, and, unless disabled,
\* a threshold may be crossed.
Track(o, v, loc, up) ==
    LET young == young_tracked_ \cup {o} IN
    \/ Become(v, loc, up, alive \cup {o}, young, old_tracked_)
    \/ ~disabled_ /\ CollectMinor(v, loc, up, alive \cup {o}, young, old_tracked_)
    \/ ~disabled_ /\ CollectMajor(v, loc, up, alive \cup {o}, young, old_tracked_)

----------------------------------------------------------------------------
Init ==
    /\ val = [p \in Places |-> Nil]
    /\ location = [u \in Cells |-> Cell(u)]
    /\ upvalues = [c \in Closures |-> {}]
    /\ alive = {} /\ young_tracked_ = {} /\ old_tracked_ = {}
    /\ disabled_ = FALSE

\* A slot with no open upvalue, which the compiler may reuse or pop.
Uncaptured(s) == \A u \in Cells : location[u] # Slot(s)
Free(s) == val[Slot(s)] = Nil /\ Uncaptured(s)

\* makeArray(), makeDictionary(), instantiate()...: a container into a slot.
MakeContainer(o, s) ==
    /\ o \in Containers \ alive /\ Free(s)
    /\ Track(o, [val EXCEPT ![Slot(s)] = o], location, upvalues)
    /\ UNCHANGED disabled_

\* An UpvalueObj nobody holds.
Unused(u) == ~Open(u, location) /\ \A c \in Closures : u \notin upvalues[c]

\* captureUpvalue(): the open upvalue of the slot, or a new one.
CaptureUpvalue(s, u) ==
    \/ location[u] = Slot(s)
    \/ Unused(u) /\ Uncaptured(s)

\* CLOSURE with a local upvalue: the closure captures slot q.
MakeClosure(c, s, q, u) ==
    /\ c \in Closures \ alive /\ Free(s) /\ s # q
    /\ CaptureUpvalue(q, u)
    /\ Track(c, [val EXCEPT ![Slot(s)] = c], [location EXCEPT ![u] = Slot(q)],
             [upvalues EXCEPT ![c] = {u}])
    /\ UNCHANGED disabled_

\* CLOSURE with a non-local upvalue: shared with the running closure.
MakeNestedClosure(c, s, d, u) ==
    /\ c \in Closures \ alive /\ Free(s)
    /\ d \in {val[p] : p \in SlotPlaces} /\ u \in upvalues[d]
    /\ Track(c, [val EXCEPT ![Slot(s)] = c], location, [upvalues EXCEPT ![c] = {u}])
    /\ UNCHANGED disabled_

\* A value is stored in a field of a container held in a slot.
StoreField(s, i, t) ==
    /\ val[Slot(s)] \in Containers /\ val[Slot(t)] # Nil
    /\ Mutate([val EXCEPT ![<<val[Slot(s)], i>>] = val[Slot(t)]], location, upvalues)
    /\ UNCHANGED disabled_

LoadField(s, i, t) ==
    /\ val[Slot(s)] \in Containers /\ Free(t)
    /\ val[<<val[Slot(s)], i>>] # Nil
    /\ Mutate([val EXCEPT ![Slot(t)] = val[<<val[Slot(s)], i>>]], location, upvalues)
    /\ UNCHANGED disabled_

\* STORE_UPVALUE by the closure in slot s: through the upvalue's location.
StoreUpvalue(s, u, t) ==
    /\ val[Slot(s)] \in Closures /\ u \in upvalues[val[Slot(s)]]
    /\ val[Slot(t)] # Nil
    /\ Mutate([val EXCEPT ![location[u]] = val[Slot(t)]], location, upvalues)
    /\ UNCHANGED disabled_

\* A slot goes out of scope: its open upvalue takes the value over
\* (closeUpvalues), then the slot is popped and cleared.
PopSlot(s) ==
    /\ ~Free(s)
    /\ LET moved == [p \in Places |->
              IF p = Slot(s) THEN Nil
              ELSE IF p \in CellPlaces /\ location[p[2]] = Slot(s) THEN val[Slot(s)]
              ELSE val[p]]
           closed == [u \in Cells |-> IF location[u] = Slot(s) THEN Cell(u) ELSE location[u]]
       IN  Mutate(moved, closed, upvalues)
    /\ UNCHANGED disabled_

\* gc_collect().  Stale slots above the stack top are cleared first: here a slot
\* that holds a value is in use.
collect ==
    /\ CollectMajor(val, location, upvalues, alive, young_tracked_, old_tracked_)
    /\ UNCHANGED disabled_

\* gc_disable(), gc_enable().
SetDisabled(b) ==
    /\ disabled_' = b
    /\ UNCHANGED <<val, location, upvalues, alive, young_tracked_, old_tracked_>>

Next ==
    \/ \E o \in Containers, s \in Slots : MakeContainer(o, s)
    \/ \E c \in Closures, s, q \in Slots, u \in Cells : MakeClosure(c, s, q, u)
    \/ \E c, d \in Closures, s \in Slots, u \in Cells : MakeNestedClosure(c, s, d, u)
    \/ \E s, t \in Slots, i \in Fields : StoreField(s, i, t) \/ LoadField(s, i, t)
    \/ \E s, t \in Slots, u \in Cells : StoreUpvalue(s, u, t)
    \/ \E s \in Slots : PopSlot(s)
    \/ collect
    \/ \E b \in BOOLEAN : SetDisabled(b)

Spec == Init /\ [][Next]_vars

----------------------------------------------------------------------------
\* Types of the state: an upvalue is open on a slot or closed on its own place,
\* never on another cell and never nowhere.
TypeOK ==
    /\ val \in [Places -> Objects \cup {Nil}]
    /\ location \in [Cells -> SlotPlaces \cup CellPlaces]
    /\ \A u \in Cells : location[u] \in SlotPlaces \cup {Cell(u)}
    /\ upvalues \in [Closures -> SUBSET Cells]
    /\ alive \subseteq Objects
    /\ young_tracked_ \subseteq Objects /\ old_tracked_ \subseteq Objects
    /\ disabled_ \in BOOLEAN

\* Only slots and places owned by objects that exist hold anything, and the
\* `closed` member of an open upvalue holds nothing.
PlacesOwned ==
    /\ \A p \in Places :
          val[p] # Nil => p \in SlotPlaces \cup UNION {Owned(o, upvalues) : o \in alive}
    /\ \A u \in Cells : Open(u, location) => val[Cell(u)] = Nil

\* What the program can still reach: the least set that holds what the slots
\* hold and whatever a reached object's fields or upvalues lead to.
Reachable ==
    LET roots == {val[p] : p \in SlotPlaces} \ {Nil}
        refs == [o \in Objects |-> {val[p] : p \in Visited(o, location, upvalues)} \ {Nil}]
    IN  {o \in Objects : \A S \in SUBSET Objects :
            roots \subseteq S /\ (\A x \in S : refs[x] \subseteq S) => o \in S}

\* Every object that exists is tracked, in exactly one generation: promotion and
\* both kinds of collection lose nobody.
TrackedOnce ==
    /\ young_tracked_ \cap old_tracked_ = {}
    /\ young_tracked_ \cup old_tracked_ = alive

\* A visit subtracts a reference that its object really owns, and no reference is
\* subtracted twice: no candidate closure has an open upvalue, and none shares a
\* closed one with another closure, candidate or not.
VisitsOwned(C) ==
    \A c \in C \cap Closures :
        \A u \in upvalues[c] :
            /\ ~Open(u, location)
            /\ \A d \in Closures \ {c} : u \notin upvalues[d]

Generations == {young_tracked_, young_tracked_ \cup old_tracked_}

\* Neither a minor nor a major collection started now would clear an object the
\* program can reach, as long as every visit stands for an owned reference.
CollectsOnlyGarbage ==
    \A C \in Generations :
        VisitsOwned(C) => Garbage(C, val, location, upvalues) \cap Reachable = {}

\* A major collection started now would find every unreachable object, cyclic or
\* not, closures and shared upvalues included (the fix recorded in CLOSURE and in
\* EZClosure::traverse).
CollectsAllGarbage ==
    alive \ Reachable
        \subseteq Garbage(young_tracked_ \cup old_tracked_, val, location, upvalues)

\* CycleCollector.h:37-39: the collector's responsibility is to "find objects that
\* are ONLY referenced by other objects in the same reference cycle".  What it
\* would clear now is nothing the program can still reach.
ClearsOnlyCycles ==
    \A C \in Generations : Garbage(C, val, location, upvalues) \cap Reachable = {}
============================================================================
