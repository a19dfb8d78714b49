--------------------------- MODULE ObjectsProofs ---------------------------
(***************************************************************************)
(* What accesses answer, and what audit logs, cached results and rules     *)
(* promise, for any world of models, sites, instances and values; and,     *)
(* after that, what the limiter of their tasks promises.                   *)
(*                                                                         *)
(* The argument.  A class's flattened tables say what its line of models   *)
(* declares (Tables), so a lookup finds what is declared.  An instance has *)
(* one value for each name of its shape, the one told last (Instances).    *)
(* An entry of a site was filled by an access that was allowed: the offset *)
(* it has is that of the site's property in every instance of the shape,   *)
(* and the task it has is the one of the class (Entries), so a hit and a   *)
(* lookup answer the same.  An intercepted write logs, invalidates and     *)
(* validates; an instance that was written otherwise is known as such      *)
(* (around), and so is one whose values came from it (foreign).            *)
(***************************************************************************)
EXTENDS Objects, RateLimiter, FiniteSetTheorems, SequenceTheorems, TLAPS

-----------------------------------------------------------------------------
(* The inductive invariant.                                                *)

\* Classes are declared along their lines, and a line is a line: any models of
\* it have a first one, and no two are each above the other.
Lineage ==
  /\ world \in Worlds
  /\ DOMAIN classes \subseteq DOMAIN world.models
  /\ \A c \in DOMAIN classes :
       /\ classes[c].parent = world.models[c].parent
       /\ classes[c].parent \in DOMAIN classes \cup {None}
       /\ \A S \in SUBSET Line(c) : S # {} => \E k \in S : S \subseteq Line(k)
       /\ \A k \in Line(c) : c \in Line(k) => k = c

\* A class holds what the declarations of its line say, flattened.
IsTable(k, c) ==
  LET d == world.models[c]
  IN /\ k = [audited |-> d.audited, snapshot |-> d.snapshot, persist |-> d.persist,
             rules |-> d.rules, parent |-> d.parent, methods |-> k.methods,
             statics |-> k.statics, visibility |-> k.visibility, hasCached |-> k.hasCached,
             hasGetattrHook |-> k.hasGetattrHook, hasSetattrHook |-> k.hasSetattrHook]
     /\ DOMAIN k.methods = UNION {DOMAIN Own(m, FALSE) : m \in Line(c)}
     /\ \A x \in DOMAIN k.methods : k.methods[x] = DeclaredValue(c, x)
     /\ DOMAIN k.visibility = UNION {DOMAIN compileModel(m) : m \in Line(c)}
     /\ \A x \in DOMAIN k.visibility :
          k.visibility[x] = compileModel(First(world.models, Naming(c, x)))[x].public
     /\ (\E m \in Line(c) : DOMAIN world.models[m].cached # {}) => k.hasCached
     /\ "__getattr__" \in DOMAIN k.methods => k.hasGetattrHook
     /\ "__setattr__" \in DOMAIN k.methods => k.hasSetattrHook
Tables == \A c \in DOMAIN classes : IsTable(classes[c], c)

\* Shapes name their properties once; an instance has a value for each name.
IsSeq(s) == s \in Seq(Range(s))
IsShape(sh) ==
  /\ sh = [root |-> sh.root, names |-> sh.names]
  /\ IsSeq(sh.names)
  /\ \A j, k \in DOMAIN sh.names : sh.names[j] = sh.names[k] => j = k
IsObject(o) ==
  /\ o = [klass |-> o.klass, shape |-> o.shape, values |-> o.values, audit |-> o.audit,
          cache |-> o.cache]
  /\ IsShape(o.shape) /\ o.shape.root = o.klass
  /\ IsSeq(o.values) /\ Len(o.values) = Len(o.shape.names)
  /\ IsSeq(o.audit)

\* The properties of the instances are what the program assigned.
Instances ==
  /\ DOMAIN told = DOMAIN heap /\ DOMAIN since = DOMAIN heap
  /\ \A i \in DOMAIN heap :
       /\ IsObject(heap[i])
       /\ heap[i].klass \in DOMAIN classes
       /\ told[i] = getPropertiesCopy(heap[i])
       /\ DOMAIN since[i] \subseteq DOMAIN told[i]

\* A shape entry has the offset of the site's property, a class entry the task
\* of the class, and neither was filled where the member is hidden.
Entries ==
  /\ DOMAIN ic = world.sites
  /\ \A s \in world.sites :
       LET e == ic[s]
       IN /\ e = [shape |-> e.shape, offset |-> e.offset, klass |-> e.klass, method |-> e.method]
          /\ e.shape # NoShape =>
               /\ e.shape.root \in DOMAIN classes
               /\ IsShape(e.shape)
               /\ e.offset \in DOMAIN e.shape.names
               /\ e.shape.names[e.offset] = s.name
               /\ ~HiddenFrom(s.fn, e.shape.root, s.name)
          /\ e.klass # None =>
               /\ e.klass \in DOMAIN classes
               /\ ~HiddenFrom(s.fn, e.klass, s.name)
               /\ e.method = DeclaredValue(e.klass, s.name)
               /\ IsCallable(e.method)

\* Log entries are of assigned properties, results of cached tasks.
Books ==
  \A i \in DOMAIN heap :
    /\ \A k \in DOMAIN heap[i].audit : heap[i].audit[k].field \in DOMAIN told[i]
    /\ \A k \in DOMAIN heap[i].cache : k = <<k[1], k[2]>> /\ IsCached(heap[i].klass, k[1])

\* Values that properties of a model may hold.
Meets(f, n) ==
  \A x \in DOMAIN f : x \in DOMAIN world.models[n].rules => Permitted(n, x, f[x])

\* A snapshot and a native call have what met the rules, unless the instance is foreign.
Copies ==
  /\ snap # NoSnapshot =>
       /\ snap.of \in DOMAIN heap
       /\ snap.of \notin around \cup foreign => Meets(snap.props, heap[snap.of].klass)
  /\ native # NoCall =>
       /\ native.id \in DOMAIN heap
       /\ native.call = "rollback" =>
            (native.id \notin around \cup foreign => Meets(native.left, heap[native.id].klass))
       /\ native.call = "load" =>
            /\ world.models[heap[native.id].klass].persist
            /\ heap[native.id].audit = <<>>
            /\ DOMAIN heap[native.id].cache = {}
            /\ \A x \in DOMAIN native.left : x \in DOMAIN db /\ native.left[x] = Parsed(db[x])

IInv ==
  /\ Lineage /\ Tables /\ Instances /\ Entries /\ Books /\ Copies
  /\ AuditAccounts /\ CachedResultsFresh /\ RulesHold

-----------------------------------------------------------------------------
(* Lines.                                                                  *)

\* A walk starts at its model and stays in the table.
LEMMA UpSelf ==
  ASSUME NEW table, NEW c \in DOMAIN table
  PROVE  c \in Up(table, c) /\ Up(table, c) \subseteq DOMAIN table
BY DEF Up

\* What is above a model of a line is on the line.
LEMMA UpTrans ==
  ASSUME NEW table, NEW c, NEW k \in Up(table, c)
  PROVE  Up(table, k) \subseteq Up(table, c)
<1> SUFFICES ASSUME NEW m \in Up(table, k), NEW S \in SUBSET DOMAIN table, c \in S,
                    \A j \in S : table[j].parent \in DOMAIN table => table[j].parent \in S
             PROVE  m \in S
  BY DEF Up
<1>1. k \in S
  BY DEF Up
<1> QED
  BY <1>1 DEF Up

\* The line of a model is the model and the line of its parent.
LEMMA UpParent ==
  ASSUME NEW table, NEW c \in DOMAIN table, table[c].parent \in DOMAIN table
  PROVE  Up(table, c) = {c} \cup Up(table, table[c].parent)
<1> DEFINE p == table[c].parent
<1>1. c \in Up(table, c) /\ Up(table, p) \subseteq DOMAIN table /\ p \in Up(table, p)
  BY UpSelf
<1>2. p \in Up(table, c)
  BY DEF Up
<1>3. {c} \cup Up(table, p) \subseteq Up(table, c)
  BY <1>1, <1>2, UpTrans
<1>4. ASSUME NEW j \in Up(table, p), table[j].parent \in DOMAIN table
      PROVE  table[j].parent \in Up(table, p)
  BY <1>4 DEF Up
<1>5. Up(table, c) \subseteq {c} \cup Up(table, p)
  <2> DEFINE S == {c} \cup Up(table, p)
  <2>1. S \in SUBSET DOMAIN table /\ c \in S
    BY <1>1
  <2>2. \A j \in S : table[j].parent \in DOMAIN table => table[j].parent \in S
    BY <1>1, <1>4
  <2> HIDE DEF S
  <2>3. Up(table, c) \subseteq S
    BY <2>1, <2>2 DEF Up
  <2> QED
    BY <2>3 DEF S
<1> QED
  BY <1>3, <1>5

\* The line of a model without a parent is the model.
LEMMA UpTop ==
  ASSUME NEW table, NEW c \in DOMAIN table, table[c].parent \notin DOMAIN table
  PROVE  Up(table, c) = {c}
<1>1. c \in Up(table, c)
  BY UpSelf
<1>2. {c} \in SUBSET DOMAIN table
  OBVIOUS
<1>3. Up(table, c) \subseteq {c}
  BY <1>2 DEF Up
<1> QED
  BY <1>1, <1>3

\* The classes above a class are the models above its model: T is classes, M
\* the models.
LEMMA SameLine ==
  ASSUME NEW T, NEW M, DOMAIN T \subseteq DOMAIN M, None \notin DOMAIN M,
         \A c \in DOMAIN T : /\ T[c].parent = M[c].parent
                             /\ T[c].parent \in DOMAIN T \cup {None},
         NEW c \in DOMAIN T
  PROVE  Up(T, c) = Up(M, c)
<1>1. ASSUME NEW k \in Up(T, c) PROVE k \in Up(M, c)
  <2> SUFFICES ASSUME NEW S \in SUBSET DOMAIN M, c \in S,
                      \A j \in S : M[j].parent \in DOMAIN M => M[j].parent \in S
               PROVE  k \in S
    BY <1>1 DEF Up
  <2> DEFINE R == S \cap DOMAIN T
  <2>1. R \in SUBSET DOMAIN T /\ c \in R
    OBVIOUS
  <2>2. \A j \in R : T[j].parent \in DOMAIN T => T[j].parent \in R
    OBVIOUS
  <2> HIDE DEF R
  <2>3. k \in R
    BY <1>1, <2>1, <2>2 DEF Up
  <2> QED
    BY <2>3 DEF R
<1>2. ASSUME NEW k \in Up(M, c) PROVE k \in Up(T, c)
  <2>1. \A S \in SUBSET DOMAIN M :
          (c \in S /\ \A m \in S : M[m].parent \in DOMAIN M => M[m].parent \in S) => k \in S
    BY <1>2 DEF Up
  <2>2. k \in DOMAIN T
    <3>1. \A m \in DOMAIN T : M[m].parent \in DOMAIN M => M[m].parent \in DOMAIN T
      OBVIOUS
    <3> QED
      BY <2>1, <3>1
  <2>3. ASSUME NEW S \in SUBSET DOMAIN T, c \in S,
               \A m \in S : T[m].parent \in DOMAIN T => T[m].parent \in S
        PROVE  k \in S
    <3>1. S \in SUBSET DOMAIN M
      OBVIOUS
    <3>2. \A m \in S : M[m].parent \in DOMAIN M => M[m].parent \in S
      BY <2>3
    <3> QED
      BY <2>1, <2>3, <3>1, <3>2
  <2> QED
    BY <2>2, <2>3 DEF Up
<1> QED
  BY <1>1, <1>2

\* What Lineage says of the classes: they and their models have the same lines.
LEMMA Lines ==
  ASSUME Lineage, NEW c \in DOMAIN classes
  PROVE  /\ c \in DOMAIN world.models /\ c # None
         /\ Up(classes, c) = Line(c)
         /\ c \in Line(c) /\ Line(c) \subseteq DOMAIN classes
         /\ \A k \in Line(c) : Line(k) \subseteq Line(c)
<1>1. None \notin DOMAIN world.models
  BY WorldsAssumption DEF Lineage
<1>2. Up(classes, c) = Up(world.models, c)
  BY <1>1, SameLine DEF Lineage
<1> QED
  BY <1>1, <1>2, UpSelf, UpTrans DEF Lineage, Line

\* The first of some models of a line is among them, and they are all above it.
LEMMA FirstIn ==
  ASSUME Lineage, NEW c \in DOMAIN classes, NEW S, S \subseteq Line(c), S # {}
  PROVE  /\ First(world.models, S) \in S
         /\ S \subseteq Line(First(world.models, S))
<1>1. \E k \in S : S \subseteq Up(world.models, k)
  BY DEF Lineage, Line
<1> QED
  BY <1>1 DEF First, Line

\* The one of them that they are all above is the first, for models and classes.
LEMMA FirstIs ==
  ASSUME Lineage, NEW c \in DOMAIN classes, NEW S, S \subseteq Line(c), NEW k \in S, S \subseteq Line(k)
  PROVE  First(world.models, S) = k /\ First(classes, S) = k
<1>1. \A m \in S : m \in DOMAIN classes /\ Up(classes, m) = Line(m)
  BY Lines
<1>2. \A m \in S : S \subseteq Line(m) => m = k
  <2> SUFFICES ASSUME NEW m \in S, S \subseteq Line(m) PROVE m = k
    OBVIOUS
  <2> QED
    BY <1>1 DEF Lineage
<1>3. First(world.models, S) = k
  BY <1>2 DEF First, Line
<1>4. First(classes, S) = k
  BY <1>1, <1>2 DEF First
<1> QED
  BY <1>3, <1>4

-----------------------------------------------------------------------------
(* Classes.                                                                *)

\* A class has the methods that a model of its line declares.
LEMMA Methods ==
  ASSUME Lineage, Tables, NEW c \in DOMAIN classes, NEW x
  PROVE  /\ x \in DOMAIN classes[c].methods <=> Declaring(c, x) # {}
         /\ x \in DOMAIN classes[c].methods => classes[c].methods[x] = DeclaredValue(c, x)
         /\ Declaring(c, x) \subseteq Line(c) /\ Line(c) \subseteq DOMAIN classes
<1>1. /\ DOMAIN classes[c].methods = UNION {DOMAIN Own(m, FALSE) : m \in Line(c)}
      /\ \A y \in DOMAIN classes[c].methods : classes[c].methods[y] = DeclaredValue(c, y)
  BY DEF Tables, IsTable
<1>2. Declaring(c, x) = {k \in Line(c) : x \in DOMAIN Own(k, FALSE)}
  BY DEF Declaring, Line
<1>3. x \in DOMAIN classes[c].methods <=> \E k \in Line(c) : x \in DOMAIN Own(k, FALSE)
  BY <1>1
<1>4. x \in DOMAIN classes[c].methods <=> Declaring(c, x) # {}
  BY <1>2, <1>3
<1>5. Line(c) \subseteq DOMAIN classes
  BY Lines
<1> QED
  BY <1>1, <1>2, <1>4, <1>5

\* The owner of a member declares it, and so does no model before it.
LEMMA Owners ==
  ASSUME Lineage, Tables, NEW c \in DOMAIN classes, NEW x, Declaring(c, x) # {}
  PROVE  /\ Owner(c, x) \in Declaring(c, x) /\ Owner(c, x) \in DOMAIN classes
         /\ Declaring(c, x) \subseteq Line(Owner(c, x))
         /\ DeclaredValue(c, x) = Own(Owner(c, x), FALSE)[x]
<1>1. Declaring(c, x) \subseteq Line(c) /\ Line(c) \subseteq DOMAIN classes
  BY Methods
<1> QED
  BY <1>1, FirstIn DEF Owner, DeclaredValue

\* A model that declares a member owns it.
LEMMA OwnFirst ==
  ASSUME Lineage, NEW c \in DOMAIN classes, NEW x \in DOMAIN Own(c, FALSE)
  PROVE  /\ Declaring(c, x) # {} /\ Owner(c, x) = c
         /\ DeclaredValue(c, x) = Own(c, FALSE)[x]
<1>1. c \in Declaring(c, x) /\ Declaring(c, x) \subseteq Line(c)
  BY Lines DEF Declaring, Line
<1> QED
  BY <1>1, FirstIs DEF Owner, DeclaredValue

\* getProperty() finds in the classes what the line declares.
LEMMA ClassMember ==
  ASSUME Lineage, Tables, NEW c \in DOMAIN classes, NEW x
  PROVE  classMember(c, x) = DeclaredValue(c, x)
<1> DEFINE owners == {k \in Up(classes, c) : x \in DOMAIN classes[k].methods}
<1>1. Up(classes, c) = Line(c) /\ Line(c) \subseteq DOMAIN classes /\ c \in Line(c)
  BY Lines
<1>2. CASE x \in DOMAIN classes[c].methods
  <2>1. c \in owners /\ owners \subseteq Line(c)
    BY <1>1, <1>2
  <2>2. First(classes, owners) = c
    BY <2>1, FirstIs
  <2> QED
    BY <1>2, <2>1, <2>2, Methods DEF classMember
<1>3. CASE x \notin DOMAIN classes[c].methods
  <2>1. Declaring(c, x) = {}
    BY <1>3, Methods
  <2>2. ASSUME NEW k \in Line(c) PROVE x \notin DOMAIN classes[k].methods
    <3>1. k \in DOMAIN classes /\ Line(k) \subseteq Line(c)
      BY <1>1, Lines
    <3>2. Declaring(k, x) \subseteq Declaring(c, x)
      BY <3>1 DEF Declaring, Line
    <3> QED
      BY <2>1, <3>1, <3>2, Methods
  <2>3. owners = {}
    BY <1>1, <2>2
  <2> QED
    BY <2>1, <2>3 DEF classMember, DeclaredValue
<1> QED
  BY <1>2, <1>3

\* findMethod() finds the nearest one that is not nil.
LEMMA FindMethod ==
  ASSUME Lineage, Tables, NEW c \in DOMAIN classes, NEW x
  PROVE  findMethod(c, x) = IF Hooking(c, x) = {} THEN Nil
                            ELSE Own(First(world.models, Hooking(c, x)), FALSE)[x]
<1> DEFINE owners == {k \in Up(classes, c) :
                        x \in DOMAIN classes[k]["methods"] /\ classes[k]["methods"][x] # Nil}
           H == Hooking(c, x)
<1>1. Up(classes, c) = Line(c) /\ Line(c) \subseteq DOMAIN classes
  BY Lines
<1>2. owners \subseteq Line(c) /\ H \subseteq Line(c)
  BY <1>1, Methods DEF Hooking
<1>3. H \subseteq owners
  <2> SUFFICES ASSUME NEW h \in H PROVE h \in owners
    OBVIOUS
  <2>1. h \in Line(c) /\ h \in DOMAIN classes /\ x \in DOMAIN Own(h, FALSE) /\ Own(h, FALSE)[x] # Nil
    BY <1>1, <1>2 DEF Hooking, Declaring
  <2>2. x \in DOMAIN classes[h].methods /\ classes[h].methods[x] = Own(h, FALSE)[x]
    BY <2>1, OwnFirst, Methods
  <2> QED
    BY <1>1, <2>1, <2>2
<1>4. ASSUME NEW f \in owners PROVE Owner(f, x) \in H /\ Own(Owner(f, x), FALSE)[x] = classes[f].methods[x]
  <2>1. f \in Line(c) /\ f \in DOMAIN classes /\ Line(f) \subseteq Line(c)
        /\ x \in DOMAIN classes[f].methods /\ classes[f].methods[x] # Nil
    BY <1>1, Lines
  <2>2. Declaring(f, x) # {} /\ classes[f].methods[x] = DeclaredValue(f, x)
    BY <2>1, Methods
  <2>3. /\ Owner(f, x) \in Declaring(f, x)
        /\ DeclaredValue(f, x) = Own(Owner(f, x), FALSE)[x]
    BY <2>1, <2>2, Owners
  <2>4. Declaring(f, x) \subseteq Declaring(c, x)
    BY <2>1 DEF Declaring, Line
  <2> QED
    BY <2>1, <2>2, <2>3, <2>4 DEF Hooking
<1>5. CASE owners = {}
  <2>1. H = {}
    BY <1>3, <1>5
  <2> QED
    BY <1>5, <2>1 DEF findMethod, findIn
<1>6. CASE owners # {}
  <2> DEFINE f == First(classes, owners)
             g == Owner(f, x)
  <2>1. First(world.models, owners) \in owners /\ owners \subseteq Line(First(world.models, owners))
    BY <1>2, <1>6, FirstIn
  <2>2. f = First(world.models, owners)
    BY <1>2, <2>1, FirstIs
  <2>3. f \in owners /\ owners \subseteq Line(f) /\ f \in DOMAIN classes
    BY <1>1, <1>2, <2>1, <2>2
  <2>4. g \in H /\ Own(g, FALSE)[x] = classes[f].methods[x]
    BY <1>4, <2>3
  <2>5. H \subseteq Declaring(f, x)
    BY <1>3, <2>3 DEF Hooking, Declaring, Line
  <2>6. H \subseteq Line(g)
    BY <2>3, <2>4, <2>5, Owners
  <2>7. First(world.models, H) = g
    BY <1>2, <2>4, <2>6, FirstIs
  <2>8. findMethod(c, x) = classes[f].methods[x]
    BY <1>6 DEF findMethod, findIn
  <2> QED
    BY <2>4, <2>7, <2>8
<1> QED
  BY <1>5, <1>6

\* The hooks the accesses look for are those the line declares.
LEMMA Hooks ==
  ASSUME Lineage, Tables, NEW c \in DOMAIN classes, NEW x
  PROVE  /\ findGetattrHook(c, x) = HookOf(c, "__getattr__", x)
         /\ findSetattrHook(c, x) = HookOf(c, "__setattr__", x)
<1>1. ASSUME NEW hook, hook \notin DOMAIN classes[c].methods PROVE Hooking(c, hook) = {}
  BY <1>1, Methods DEF Hooking
<1>2. /\ "__getattr__" \in DOMAIN classes[c].methods => classes[c].hasGetattrHook
      /\ "__setattr__" \in DOMAIN classes[c].methods => classes[c].hasSetattrHook
  BY DEF Tables, IsTable
<1>3. findGetattrHook(c, x) = HookOf(c, "__getattr__", x)
  BY <1>1, <1>2, FindMethod DEF findGetattrHook, HookOf
<1>4. findSetattrHook(c, x) = HookOf(c, "__setattr__", x)
  BY <1>1, <1>2, FindMethod DEF findSetattrHook, HookOf
<1> QED
  BY <1>3, <1>4

\* The flattened visibility hides what the line hides.
LEMMA Visibility ==
  ASSUME Lineage, Tables, NEW c \in DOMAIN classes, NEW fn, NEW x
  PROVE  MayUse(fn, c, x) <=> ~HiddenFrom(fn, c, x)
<1>1. Up(classes, c) = Line(c)
  BY Lines
<1>2. x \in DOMAIN classes[c].visibility <=> Naming(c, x) # {}
  <2>1. DOMAIN classes[c].visibility = UNION {DOMAIN compileModel(m) : m \in Line(c)}
    BY DEF Tables, IsTable
  <2> QED
    BY <2>1 DEF Naming
<1>3. x \in DOMAIN classes[c].visibility =>
        classes[c].visibility[x] = compileModel(First(world.models, Naming(c, x)))[x].public
  BY DEF Tables, IsTable
<1> QED
  BY <1>1, <1>2, <1>3 DEF MayUse, HiddenFrom

-----------------------------------------------------------------------------
(* Declaring a model.                                                      *)

\* What the declarations say is the same after a step: the world never changes.
LEMMA SameWorld ==
  ASSUME world' = world, NEW n, NEW x, NEW fn
  PROVE  /\ Line(n)' = Line(n)
         /\ Own(n, FALSE)' = Own(n, FALSE)
         /\ compileModel(n)' = compileModel(n)
         /\ Naming(n, x)' = Naming(n, x)
         /\ DeclaredValue(n, x)' = DeclaredValue(n, x)
         /\ HookOf(n, x, fn)' = HookOf(n, x, fn)
         /\ HiddenFrom(fn, n, x)' <=> HiddenFrom(fn, n, x)
         /\ IsCached(n, x)' <=> IsCached(n, x)
         /\ Body(n, x)' = Body(n, x)
<1> USE DEF Line, Own, compileModel, Naming, Declaring, Owner
<1>1. Line(n)' = Line(n) /\ Own(n, FALSE)' = Own(n, FALSE) /\ compileModel(n)' = compileModel(n)
  OBVIOUS
<1>2. Naming(n, x)' = Naming(n, x)
  OBVIOUS
<1>3. DeclaredValue(n, x)' = DeclaredValue(n, x)
  BY DEF DeclaredValue
<1>4. HookOf(n, x, fn)' = HookOf(n, x, fn)
  BY DEF HookOf, Hooking
<1>5. HiddenFrom(fn, n, x)' <=> HiddenFrom(fn, n, x)
  BY DEF HiddenFrom
<1>6. (IsCached(n, x)' <=> IsCached(n, x)) /\ Body(n, x)' = Body(n, x)
  BY DEF IsCached, Body
<1> QED
  BY <1>1, <1>2, <1>3, <1>4, <1>5, <1>6

\* The line of a model that can be declared: its own name, and its parent's line.
LEMMA NewLine ==
  ASSUME Lineage, NEW n \in DOMAIN world.models, n \notin DOMAIN classes,
         world.models[n].parent \in DOMAIN classes \cup {None}
  PROVE  /\ n # None /\ None \notin DOMAIN classes
         /\ world.models[n].parent = None => Line(n) = {n}
         /\ world.models[n].parent # None =>
              /\ world.models[n].parent \in DOMAIN classes
              /\ Line(n) = {n} \cup Line(world.models[n].parent)
              /\ Line(world.models[n].parent) \subseteq DOMAIN classes
<1>1. None \notin DOMAIN world.models /\ DOMAIN classes \subseteq DOMAIN world.models
  BY WorldsAssumption DEF Lineage
<1>2. CASE world.models[n].parent = None
  BY <1>1, <1>2, UpTop DEF Line
<1>3. CASE world.models[n].parent # None
  <2>1. world.models[n].parent \in DOMAIN classes
    BY <1>3
  <2> QED
    BY <1>1, <1>3, <2>1, UpParent, Lines DEF Line
<1> QED
  BY <1>1, <1>2, <1>3

\* With a class declared, lines are still lines.
LEMMA LineageGrows ==
  ASSUME Lineage, world' = world, NEW n \in DOMAIN world.models, n \notin DOMAIN classes,
         world.models[n].parent \in DOMAIN classes \cup {None},
         NEW k, k.parent = world.models[n].parent, classes' = With(classes, n, k)
  PROVE  Lineage'
<1>1. DOMAIN classes' = DOMAIN classes \cup {n} /\ classes'[n] = k
      /\ \A c \in DOMAIN classes : classes'[c] = classes[c]
  BY DEF With
<1>2. \A c : Line(c)' = Line(c)
  BY SameWorld
<1>3. /\ world.models[n].parent = None => Line(n) = {n}
      /\ world.models[n].parent # None =>
           /\ world.models[n].parent \in DOMAIN classes
           /\ Line(n) = {n} \cup Line(world.models[n].parent)
           /\ Line(world.models[n].parent) \subseteq DOMAIN classes
  BY NewLine
<1>4. n \in Line(n)
  BY UpSelf DEF Line
<1>5. \A S \in SUBSET Line(n) : S # {} => \E j \in S : S \subseteq Line(j)
  <2> SUFFICES ASSUME NEW S \in SUBSET Line(n), S # {} PROVE \E j \in S : S \subseteq Line(j)
    OBVIOUS
  <2>1. CASE n \in S
    BY <2>1
  <2>2. CASE n \notin S
    <3>1. /\ world.models[n].parent \in DOMAIN classes
          /\ S \in SUBSET Line(world.models[n].parent)
      BY <1>3, <2>2
    <3> QED
      BY <3>1 DEF Lineage
  <2> QED
    BY <2>1, <2>2
<1>6. \A j \in Line(n) : n \in Line(j) => j = n
  <2> SUFFICES ASSUME NEW j \in Line(n), n \in Line(j), j # n PROVE FALSE
    OBVIOUS
  <2>1. j \in DOMAIN classes
    BY <1>3
  <2> QED
    BY <2>1, Lines
<1>7. \A c \in DOMAIN classes :
        /\ classes[c].parent = world.models[c].parent
        /\ classes[c].parent \in DOMAIN classes \cup {None}
        /\ \A S \in SUBSET Line(c) : S # {} => \E j \in S : S \subseteq Line(j)
        /\ \A j \in Line(c) : c \in Line(j) => j = c
  BY DEF Lineage
<1>8. \A c \in DOMAIN classes' :
        /\ classes'[c].parent = world.models[c].parent
        /\ classes'[c].parent \in DOMAIN classes' \cup {None}
        /\ \A S \in SUBSET Line(c) : S # {} => \E j \in S : S \subseteq Line(j)
        /\ \A j \in Line(c) : c \in Line(j) => j = c
  <2> SUFFICES ASSUME NEW c \in DOMAIN classes'
               PROVE  /\ classes'[c].parent = world.models[c].parent
                      /\ classes'[c].parent \in DOMAIN classes' \cup {None}
                      /\ \A S \in SUBSET Line(c) : S # {} => \E j \in S : S \subseteq Line(j)
                      /\ \A j \in Line(c) : c \in Line(j) => j = c
    OBVIOUS
  <2>1. CASE c \in DOMAIN classes
    BY <1>1, <1>7, <2>1
  <2>2. CASE c = n
    BY <1>1, <1>5, <1>6, <2>2
  <2> QED
    BY <1>1, <2>1, <2>2
<1>9. world' \in Worlds /\ DOMAIN classes' \subseteq DOMAIN world'.models
  BY <1>1 DEF Lineage
<1> QED
  BY <1>2, <1>8, <1>9 DEF Lineage

\* What a class must hold does not change.
LEMMA SameTable ==
  ASSUME world' = world, NEW k, NEW c
  PROVE  IsTable(k, c)' <=> IsTable(k, c)
BY DEF IsTable, Line, Own, compileModel, Naming, Declaring, Owner, DeclaredValue

\* Among models of a new line the new one is first.
LEMMA NewFirst ==
  ASSUME Lineage, NEW n \in DOMAIN world.models, n \notin DOMAIN classes,
         world.models[n].parent \in DOMAIN classes \cup {None},
         NEW S \in SUBSET Line(n), n \in S
  PROVE  First(world.models, S) = n
<1>1. /\ world.models[n].parent = None => Line(n) = {n}
      /\ world.models[n].parent # None =>
           /\ world.models[n].parent \in DOMAIN classes
           /\ Line(n) = {n} \cup Line(world.models[n].parent)
           /\ Line(world.models[n].parent) \subseteq DOMAIN classes
  BY NewLine
<1>2. \A j \in S : S \subseteq Line(j) => j = n
  <2> SUFFICES ASSUME NEW j \in S, S \subseteq Line(j), j # n PROVE FALSE
    OBVIOUS
  <2>1. j \in DOMAIN classes /\ n \in Line(j)
    BY <1>1
  <2> QED
    BY <2>1, Lines
<1> QED
  BY <1>2 DEF First, Line

\* What the declarations of the new line say: the new model's, and its parent's
\* where it is silent.
LEMMA Unfolded ==
  ASSUME Lineage, NEW n \in DOMAIN world.models, n \notin DOMAIN classes,
         world.models[n].parent \in DOMAIN classes \cup {None}, NEW x
  PROVE  LET p == world.models[n].parent
         IN /\ x \in DOMAIN Own(n, FALSE) => DeclaredValue(n, x) = Own(n, FALSE)[x]
            /\ x \notin DOMAIN Own(n, FALSE) /\ p # None => DeclaredValue(n, x) = DeclaredValue(p, x)
            /\ x \in DOMAIN compileModel(n) => First(world.models, Naming(n, x)) = n
            /\ x \notin DOMAIN compileModel(n) /\ p # None => Naming(n, x) = Naming(p, x)
<1> DEFINE p == world.models[n].parent
<1>1. /\ p = None => Line(n) = {n}
      /\ p # None => p \in DOMAIN classes /\ Line(n) = {n} \cup Line(p)
  BY NewLine
<1>2. n \in Line(n)
  BY <1>1
<1>3. Declaring(n, x) \subseteq Line(n) /\ Naming(n, x) \subseteq Line(n)
  BY DEF Declaring, Naming, Line
<1>4. ASSUME x \in DOMAIN Own(n, FALSE) PROVE DeclaredValue(n, x) = Own(n, FALSE)[x]
  <2>1. n \in Declaring(n, x)
    BY <1>2, <1>4 DEF Declaring, Line
  <2>2. Owner(n, x) = n
    BY <1>3, <2>1, NewFirst DEF Owner
  <2> QED
    BY <2>1, <2>2 DEF DeclaredValue
<1>5. ASSUME x \notin DOMAIN Own(n, FALSE), p # None PROVE DeclaredValue(n, x) = DeclaredValue(p, x)
  <2>1. Declaring(n, x) = Declaring(p, x)
    BY <1>1, <1>5 DEF Declaring, Line
  <2> QED
    BY <2>1 DEF DeclaredValue, Owner
<1>6. ASSUME x \in DOMAIN compileModel(n) PROVE First(world.models, Naming(n, x)) = n
  <2>1. n \in Naming(n, x)
    BY <1>2, <1>6 DEF Naming
  <2> QED
    BY <1>3, <2>1, NewFirst
<1>7. ASSUME x \notin DOMAIN compileModel(n), p # None PROVE Naming(n, x) = Naming(p, x)
  BY <1>1, <1>7 DEF Naming
<1> QED
  BY <1>4, <1>5, <1>6, <1>7

\* MAKE_CLASS flattens what the line declares.
LEMMA ClassMade ==
  ASSUME Lineage, Tables, NEW n \in DOMAIN world.models, n \notin DOMAIN classes,
         world.models[n].parent \in DOMAIN classes \cup {None}
  PROVE  IsTable(MakeClass(n), n) /\ MakeClass(n).parent = world.models[n].parent
<1> DEFINE k == MakeClass(n)
           d == world.models[n]
           p == d.parent
<1>1. /\ k.methods = Over(Own(n, FALSE), Inherited(n, "methods"))
      /\ k.visibility = Over([x \in DOMAIN compileModel(n) |-> compileModel(n)[x].public],
                             Inherited(n, "visibility"))
      /\ k.hasCached = hasCached(n)
      /\ k.parent = p
  BY DEF MakeClass
<1>2. k = [audited |-> d.audited, snapshot |-> d.snapshot, persist |-> d.persist,
           rules |-> d.rules, parent |-> d.parent, methods |-> k.methods,
           statics |-> k.statics, visibility |-> k.visibility, hasCached |-> k.hasCached,
           hasGetattrHook |-> k.hasGetattrHook, hasSetattrHook |-> k.hasSetattrHook]
  BY DEF MakeClass
<1>3. /\ p = None => Line(n) = {n}
      /\ p # None => p \in DOMAIN classes /\ Line(n) = {n} \cup Line(p)
  BY NewLine
<1>4. ASSUME p # None
      PROVE  /\ DOMAIN classes[p].methods = UNION {DOMAIN Own(m, FALSE) : m \in Line(p)}
             /\ \A x \in DOMAIN classes[p].methods : classes[p].methods[x] = DeclaredValue(p, x)
             /\ DOMAIN classes[p].visibility = UNION {DOMAIN compileModel(m) : m \in Line(p)}
             /\ \A x \in DOMAIN classes[p].visibility :
                  classes[p].visibility[x] = compileModel(First(world.models, Naming(p, x)))[x].public
             /\ (\E m \in Line(p) : DOMAIN world.models[m].cached # {}) => classes[p].hasCached
  <2>1. IsTable(classes[p], p)
    BY <1>3, <1>4 DEF Tables
  <2> QED
    BY <2>1 DEF IsTable
<1>5. /\ p = None => Inherited(n, "methods") = NoFields /\ Inherited(n, "visibility") = NoFields
      /\ p # None => /\ Inherited(n, "methods") = classes[p].methods
                     /\ Inherited(n, "visibility") = classes[p].visibility
  BY DEF Inherited
<1>6. DOMAIN NoFields = {}
  BY DEF NoFields
<1>7. DOMAIN k.methods = UNION {DOMAIN Own(m, FALSE) : m \in Line(n)}
  <2>1. DOMAIN k.methods = DOMAIN Own(n, FALSE) \cup DOMAIN Inherited(n, "methods")
    BY <1>1 DEF Over
  <2>2. CASE p = None
    BY <1>3, <1>5, <1>6, <2>1, <2>2
  <2>3. CASE p # None
    <3>1. Line(n) = {n} \cup Line(p)
      BY <1>3, <2>3
    <3>2. DOMAIN Inherited(n, "methods") = UNION {DOMAIN Own(m, FALSE) : m \in Line(p)}
      BY <1>4, <1>5, <2>3
    <3>3. UNION {DOMAIN Own(m, FALSE) : m \in Line(n)}
             = DOMAIN Own(n, FALSE) \cup UNION {DOMAIN Own(m, FALSE) : m \in Line(p)}
      BY ONLY <3>1
    <3> QED
      BY <2>1, <3>2, <3>3
  <2> QED
    BY <2>2, <2>3
<1>8. ASSUME NEW x \in DOMAIN k.methods PROVE k.methods[x] = DeclaredValue(n, x)
  <2>1. /\ k.methods[x] = IF x \in DOMAIN Own(n, FALSE) THEN Own(n, FALSE)[x]
                          ELSE Inherited(n, "methods")[x]
        /\ x \in DOMAIN Own(n, FALSE) \cup DOMAIN Inherited(n, "methods")
    BY <1>1, <1>8 DEF Over
  <2>2. CASE x \in DOMAIN Own(n, FALSE)
    BY <2>1, <2>2, Unfolded
  <2>3. CASE x \notin DOMAIN Own(n, FALSE)
    <3>1. p # None /\ x \in DOMAIN classes[p].methods /\ k.methods[x] = classes[p].methods[x]
      BY <1>5, <1>6, <2>1, <2>3
    <3>2. DeclaredValue(n, x) = DeclaredValue(p, x)
      BY <2>3, <3>1, Unfolded
    <3> QED
      BY <1>4, <3>1, <3>2
  <2> QED
    BY <2>2, <2>3
<1>9. DOMAIN k.visibility = UNION {DOMAIN compileModel(m) : m \in Line(n)}
  <2>1. DOMAIN k.visibility = DOMAIN compileModel(n) \cup DOMAIN Inherited(n, "visibility")
    BY <1>1 DEF Over
  <2>2. CASE p = None
    BY <1>3, <1>5, <1>6, <2>1, <2>2
  <2>3. CASE p # None
    <3>1. Line(n) = {n} \cup Line(p)
      BY <1>3, <2>3
    <3>2. DOMAIN Inherited(n, "visibility") = UNION {DOMAIN compileModel(m) : m \in Line(p)}
      BY <1>4, <1>5, <2>3
    <3>3. UNION {DOMAIN compileModel(m) : m \in Line(n)}
             = DOMAIN compileModel(n) \cup UNION {DOMAIN compileModel(m) : m \in Line(p)}
      BY ONLY <3>1
    <3> QED
      BY <2>1, <3>2, <3>3
  <2> QED
    BY <2>2, <2>3
<1>10. ASSUME NEW x \in DOMAIN k.visibility
       PROVE  k.visibility[x] = compileModel(First(world.models, Naming(n, x)))[x].public
  <2>1. /\ k.visibility[x] = IF x \in DOMAIN compileModel(n) THEN compileModel(n)[x].public
                             ELSE Inherited(n, "visibility")[x]
        /\ x \in DOMAIN compileModel(n) \cup DOMAIN Inherited(n, "visibility")
    BY <1>1, <1>10 DEF Over
  <2>2. CASE x \in DOMAIN compileModel(n)
    <3>1. First(world.models, Naming(n, x)) = n
      BY <2>2, Unfolded
    <3> QED
      BY <2>1, <2>2, <3>1
  <2>3. CASE x \notin DOMAIN compileModel(n)
    <3>1. p # None /\ x \in DOMAIN classes[p].visibility /\ k.visibility[x] = classes[p].visibility[x]
      BY <1>5, <1>6, <2>1, <2>3
    <3>2. Naming(n, x) = Naming(p, x)
      BY <2>3, <3>1, Unfolded
    <3> QED
      BY <1>4, <3>1, <3>2
  <2> QED
    BY <2>2, <2>3
<1>11. (\E m \in Line(n) : DOMAIN world.models[m].cached # {}) => k.hasCached
  BY <1>1, <1>3, <1>4 DEF hasCached
<1>12. /\ "__getattr__" \in DOMAIN k.methods => k.hasGetattrHook
       /\ "__setattr__" \in DOMAIN k.methods => k.hasSetattrHook
  BY DEF MakeClass
<1> HIDE DEF k
<1>13. IsTable(k, n)
  BY <1>2, <1>7, <1>8, <1>9, <1>10, <1>11, <1>12 DEF IsTable
<1> QED
  BY <1>1, <1>13 DEF k

-----------------------------------------------------------------------------
(* Instances.                                                              *)

\* A sequence with an element appended.
LEMMA Appended ==
  ASSUME NEW s, IsSeq(s), NEW e
  PROVE  /\ Len(s) \in Nat /\ DOMAIN s = 1 .. Len(s)
         /\ IsSeq(Append(s, e))
         /\ Len(Append(s, e)) = Len(s) + 1
         /\ DOMAIN Append(s, e) = DOMAIN s \cup {Len(s) + 1}
         /\ Append(s, e)[Len(s) + 1] = e
         /\ \A k \in DOMAIN s : Append(s, e)[k] = s[k]
<1> DEFINE t == Append(s, e)
           R == Range(s) \cup {e}
<1>1. s \in Seq(Range(s)) /\ Len(s) \in Nat /\ DOMAIN s = 1 .. Len(s)
  BY LenProperties DEF IsSeq
<1>2. s \in Seq(R)
  BY <1>1, SeqMonotonic
<1>3. /\ t \in Seq(R)
      /\ Len(t) = Len(s) + 1
      /\ \A k \in 1 .. Len(s) : t[k] = s[k]
      /\ t[Len(s) + 1] = e
  BY <1>2, AppendProperties
<1>4. DOMAIN t = 1 .. Len(s) + 1
  BY <1>3, LenProperties
<1>5. 1 .. Len(s) + 1 = (1 .. Len(s)) \cup {Len(s) + 1}
  BY <1>1
<1>6. t \in Seq(Range(t))
  BY <1>3, SeqOfRange
<1> QED
  BY <1>1, <1>3, <1>4, <1>5, <1>6 DEF IsSeq

\* The empty sequence.
LEMMA NoneYet == IsSeq(<<>>) /\ Len(<<>>) = 0 /\ DOMAIN <<>> = {}
BY EmptySeq DEF IsSeq

\* A sequence with an element replaced.
LEMMA Replaced ==
  ASSUME NEW s, IsSeq(s), NEW k \in DOMAIN s, NEW e
  PROVE  /\ IsSeq([s EXCEPT ![k] = e]) /\ Len([s EXCEPT ![k] = e]) = Len(s)
         /\ [s EXCEPT ![k] = e][k] = e
         /\ \A j \in DOMAIN s : j # k => [s EXCEPT ![k] = e][j] = s[j]
<1> DEFINE t == [s EXCEPT ![k] = e]
           R == Range(s) \cup {e}
<1>1. s \in Seq(Range(s)) /\ Len(s) \in Nat /\ DOMAIN s = 1 .. Len(s)
  BY LenProperties DEF IsSeq
<1>2. s \in Seq(R)
  BY <1>1, SeqMonotonic
<1>3. t \in Seq(R) /\ Len(t) = Len(s)
  BY <1>1, <1>2, ExceptSeq
<1>4. t \in Seq(Range(t))
  BY <1>3, SeqOfRange
<1> QED
  BY <1>3, <1>4 DEF IsSeq

\* A property of an object has one offset.
LEMMA Offset ==
  ASSUME NEW sh, IsShape(sh), NEW k \in DOMAIN sh.names
  PROVE  getOffset(sh, sh.names[k]) = k
BY DEF IsShape, getOffset

\* Reading a property: its value, or what the class has.
LEMMA GetProperty ==
  ASSUME NEW o, IsObject(o), NEW x
  PROVE  /\ hasProperty(o, x) <=> x \in DOMAIN getPropertiesCopy(o)
         /\ hasProperty(o, x) =>
              /\ getOffset(o.shape, x) \in DOMAIN o.shape.names
              /\ getOffset(o.shape, x) \in DOMAIN o.values
              /\ o.shape.names[getOffset(o.shape, x)] = x
         /\ getProperty(o, x) = IF x \in DOMAIN getPropertiesCopy(o) THEN getPropertiesCopy(o)[x]
                                ELSE classMember(o.klass, x)
<1>1. hasProperty(o, x) <=> x \in DOMAIN getPropertiesCopy(o)
  BY DEF hasProperty, getPropertiesCopy
<1>2. ASSUME hasProperty(o, x)
      PROVE  /\ getOffset(o.shape, x) \in DOMAIN o.shape.names
             /\ o.shape.names[getOffset(o.shape, x)] = x
  <2>1. PICK k \in DOMAIN o.shape.names : o.shape.names[k] = x
    BY <1>2 DEF hasProperty, Range
  <2> QED
    BY <2>1, Offset DEF IsObject
<1>3. DOMAIN o.values = DOMAIN o.shape.names
  <2>1. IsSeq(o.values) /\ IsSeq(o.shape.names) /\ Len(o.values) = Len(o.shape.names)
    BY DEF IsObject, IsShape
  <2> QED
    BY <2>1, LenProperties DEF IsSeq
<1>4. getProperty(o, x) = IF x \in DOMAIN getPropertiesCopy(o) THEN getPropertiesCopy(o)[x]
                          ELSE classMember(o.klass, x)
  BY <1>1 DEF getProperty, getPropertiesCopy
<1> QED
  BY <1>1, <1>2, <1>3, <1>4

\* A property added at the end of a shape.
LEMMA ShapeGrows ==
  ASSUME NEW sh, IsShape(sh), NEW x, x \notin Range(sh.names)
  PROVE  LET t == transition(sh, x)
         IN /\ IsShape(t) /\ t.root = sh.root
            /\ t.names = Append(sh.names, x)
            /\ Range(t.names) = Range(sh.names) \cup {x}
            /\ getOffset(t, x) = Len(sh.names) + 1
            /\ \A y \in Range(sh.names) : getOffset(t, y) = getOffset(sh, y)
<1> DEFINE t == transition(sh, x)
           m == Len(sh.names) + 1
<1>1. t = [root |-> sh.root, names |-> Append(sh.names, x)]
  <2>1. sh = [root |-> sh.root, names |-> sh.names]
    BY DEF IsShape
  <2>2. \A a : [sh EXCEPT !.names = a] = [root |-> sh.root, names |-> a]
    BY <2>1
  <2> QED
    BY <2>2 DEF transition
<1>2. t.root = sh.root /\ t.names = Append(sh.names, x) /\ t = [root |-> t.root, names |-> t.names]
  BY <1>1
<1> HIDE DEF t
<1>3. /\ Len(sh.names) \in Nat /\ DOMAIN sh.names = 1 .. Len(sh.names)
      /\ IsSeq(t.names)
      /\ DOMAIN t.names = DOMAIN sh.names \cup {m}
      /\ t.names[m] = x
      /\ \A k \in DOMAIN sh.names : t.names[k] = sh.names[k]
  BY <1>2, Appended DEF IsShape
<1>4. m \notin DOMAIN sh.names
  BY <1>3
<1>5. \A k \in DOMAIN sh.names : sh.names[k] # x
  BY DEF Range
<1> HIDE DEF m
<1>6. \A j, k \in DOMAIN t.names : t.names[j] = t.names[k] => j = k
  BY <1>3, <1>4, <1>5 DEF IsShape
<1>7. IsShape(t)
  BY <1>2, <1>3, <1>6 DEF IsShape
<1>8. Range(t.names) = Range(sh.names) \cup {x}
  BY <1>3 DEF Range
<1>9. getOffset(t, x) = m
  BY <1>3, <1>7, Offset
<1>10. ASSUME NEW y \in Range(sh.names) PROVE getOffset(t, y) = getOffset(sh, y)
  <2>1. PICK k \in DOMAIN sh.names : sh.names[k] = y
    BY DEF Range
  <2> QED
    BY <1>3, <1>7, <2>1, Offset
<1> QED
  BY <1>2, <1>7, <1>8, <1>9, <1>10 DEF t, m

\* The fields of an instance, as a record.
LEMMA ObjectFields ==
  ASSUME NEW o, IsObject(o), NEW a, NEW b
  PROVE  /\ [o EXCEPT !.shape = a, !.values = b] =
              [klass |-> o.klass, shape |-> a, values |-> b, audit |-> o.audit, cache |-> o.cache]
         /\ [o EXCEPT !.values = a] =
              [klass |-> o.klass, shape |-> o.shape, values |-> a, audit |-> o.audit, cache |-> o.cache]
         /\ [o EXCEPT !.audit = a] =
              [klass |-> o.klass, shape |-> o.shape, values |-> o.values, audit |-> a, cache |-> o.cache]
         /\ [o EXCEPT !.cache = a] =
              [klass |-> o.klass, shape |-> o.shape, values |-> o.values, audit |-> o.audit, cache |-> a]
<1>1. o = [klass |-> o.klass, shape |-> o.shape, values |-> o.values, audit |-> o.audit,
           cache |-> o.cache]
  BY DEF IsObject
<1>2. [o EXCEPT !.shape = a, !.values = b] =
        [klass |-> o.klass, shape |-> a, values |-> b, audit |-> o.audit, cache |-> o.cache]
  <2> DEFINE q == [o EXCEPT !.shape = a]
  <2>1. q = [klass |-> o.klass, shape |-> a, values |-> o.values, audit |-> o.audit,
             cache |-> o.cache]
    BY <1>1
  <2>2. [o EXCEPT !.shape = a, !.values = b] = [q EXCEPT !.values = b]
    OBVIOUS
  <2> HIDE DEF q
  <2>3. [q EXCEPT !.values = b] =
          [klass |-> o.klass, shape |-> a, values |-> b, audit |-> o.audit, cache |-> o.cache]
    BY <2>1
  <2> QED
    BY <2>2, <2>3
<1>3. [o EXCEPT !.values = a] =
        [klass |-> o.klass, shape |-> o.shape, values |-> a, audit |-> o.audit, cache |-> o.cache]
  BY <1>1
<1>4. [o EXCEPT !.audit = a] =
        [klass |-> o.klass, shape |-> o.shape, values |-> o.values, audit |-> a, cache |-> o.cache]
  BY <1>1
<1>5. [o EXCEPT !.cache = a] =
        [klass |-> o.klass, shape |-> o.shape, values |-> o.values, audit |-> o.audit, cache |-> a]
  BY <1>1
<1> QED
  BY <1>2, <1>3, <1>4, <1>5

\* What a write leaves: the values of o with x = v, and the rest of it alone.
IsWrite(o, x, v, p) ==
  /\ IsObject(p)
  /\ p.klass = o.klass /\ p.audit = o.audit /\ p.cache = o.cache
  /\ getPropertiesCopy(p) = With(getPropertiesCopy(o), x, v)
  /\ x \in Range(p.shape.names)

\* A value put at the offset of its property.
LEMMA WriteInPlace ==
  ASSUME NEW o, IsObject(o), NEW k \in DOMAIN o.shape.names, NEW v
  PROVE  IsWrite(o, o.shape.names[k], v, [o EXCEPT !.values[k] = v])
<1> DEFINE x == o.shape.names[k]
           w == [o.values EXCEPT ![k] = v]
           p == [o EXCEPT !.values[k] = v]
<1>1. p = [klass |-> o.klass, shape |-> o.shape, values |-> w, audit |-> o.audit, cache |-> o.cache]
  <2>1. o = [klass |-> o.klass, shape |-> o.shape, values |-> o.values, audit |-> o.audit,
             cache |-> o.cache]
    BY DEF IsObject
  <2>2. p = [o EXCEPT !.values = w]
    OBVIOUS
  <2> HIDE DEF p, w
  <2> QED
    BY <2>1, <2>2
<1>2. k \in DOMAIN o.values
  BY LenProperties DEF IsObject, IsShape, IsSeq
<1>3. /\ IsSeq(w) /\ Len(w) = Len(o.values) /\ w[k] = v
      /\ \A j \in DOMAIN o.values : j # k => w[j] = o.values[j]
  BY <1>2, Replaced DEF IsObject
<1> HIDE DEF w, p
<1>4. /\ p.klass = o.klass /\ p.audit = o.audit /\ p.cache = o.cache /\ p.shape = o.shape
      /\ p.values = w
  BY <1>1
<1>5. IsObject(p)
  BY <1>1, <1>3, <1>4 DEF IsObject
<1>6. x \in Range(p.shape.names)
  BY <1>4 DEF Range
<1>7. ASSUME NEW y \in Range(o.shape.names)
      PROVE  p.values[getOffset(p.shape, y)] = With(getPropertiesCopy(o), x, v)[y]
  <2>1. PICK j \in DOMAIN o.shape.names : o.shape.names[j] = y
    BY DEF Range
  <2>2. getOffset(o.shape, y) = j /\ getOffset(o.shape, x) = k
    BY <2>1, Offset DEF IsObject
  <2>3. j \in DOMAIN o.values
    BY LenProperties DEF IsObject, IsShape, IsSeq
  <2>4. w[j] = IF y = x THEN v ELSE o.values[j]
    BY <1>3, <2>1, <2>2, <2>3
  <2> HIDE DEF x
  <2> QED
    BY <1>4, <2>2, <2>4 DEF With, getPropertiesCopy
<1>8. getPropertiesCopy(p) = With(getPropertiesCopy(o), x, v)
  <2>1. DOMAIN With(getPropertiesCopy(o), x, v) = Range(o.shape.names)
    BY <1>4, <1>6 DEF With, getPropertiesCopy
  <2>2. getPropertiesCopy(p) = [y \in Range(o.shape.names) |-> With(getPropertiesCopy(o), x, v)[y]]
    BY <1>4, <1>7 DEF getPropertiesCopy
  <2> QED
    BY <2>1, <2>2 DEF With
<1> QED
  BY <1>4, <1>5, <1>6, <1>8 DEF IsWrite, p

\* setProperty() writes a property, adding it if the instance has none of the name.
LEMMA SetProperty ==
  ASSUME NEW o, IsObject(o), NEW x, NEW v
  PROVE  IsWrite(o, x, v, setProperty(o, x, v))
<1>1. CASE hasProperty(o, x)
  <2>1. getOffset(o.shape, x) \in DOMAIN o.shape.names /\ o.shape.names[getOffset(o.shape, x)] = x
    BY <1>1, GetProperty
  <2>2. setProperty(o, x, v) = [o EXCEPT !.values[getOffset(o.shape, x)] = v]
    BY <1>1 DEF setProperty
  <2> QED
    BY <2>1, <2>2, WriteInPlace
<1>2. CASE ~hasProperty(o, x)
  <2> DEFINE sh == transition(o.shape, x)
             w == Append(o.values, v)
             p == setProperty(o, x, v)
  <2>1. p = [klass |-> o.klass, shape |-> sh, values |-> w, audit |-> o.audit, cache |-> o.cache]
    <3>2. p = [o EXCEPT !.shape = sh, !.values = w]
      BY <1>2, Zenon DEF setProperty
    <3>3. o = [klass |-> o.klass, shape |-> o.shape, values |-> o.values, audit |-> o.audit,
               cache |-> o.cache]
      BY DEF IsObject
    <3> HIDE DEF p, sh, w
    <3> QED
      BY <3>2, <3>3
  <2>2. x \notin Range(o.shape.names)
    BY <1>2 DEF hasProperty
  <2>3. /\ IsShape(sh) /\ sh.root = o.shape.root
        /\ sh.names = Append(o.shape.names, x)
        /\ Range(sh.names) = Range(o.shape.names) \cup {x}
        /\ getOffset(sh, x) = Len(o.shape.names) + 1
        /\ \A y \in Range(o.shape.names) : getOffset(sh, y) = getOffset(o.shape, y)
    BY <2>2, ShapeGrows DEF IsObject
  <2>4. /\ IsSeq(w) /\ Len(w) = Len(o.values) + 1 /\ w[Len(o.values) + 1] = v
        /\ \A k \in DOMAIN o.values : w[k] = o.values[k]
    BY Appended DEF IsObject
  <2>5. Len(sh.names) = Len(o.shape.names) + 1 /\ Len(o.values) = Len(o.shape.names)
        /\ DOMAIN o.values = DOMAIN o.shape.names
    BY <2>3, Appended, LenProperties DEF IsObject, IsShape, IsSeq
  <2> HIDE DEF sh, w, p
  <2>6. /\ p.klass = o.klass /\ p.audit = o.audit /\ p.cache = o.cache /\ p.shape = sh
        /\ p.values = w
    BY <2>1
  <2>7. IsObject(p)
    BY <2>1, <2>3, <2>4, <2>5, <2>6 DEF IsObject
  <2>8. ASSUME NEW y \in Range(sh.names)
        PROVE  p.values[getOffset(p.shape, y)] = With(getPropertiesCopy(o), x, v)[y]
    <3>1. CASE y = x
      BY <3>1, <2>3, <2>4, <2>5, <2>6 DEF With, getPropertiesCopy
    <3>2. CASE y # x
      <4>1. y \in Range(o.shape.names)
        BY <3>2, <2>3
      <4>2. getOffset(o.shape, y) \in DOMAIN o.values
        BY <4>1, GetProperty DEF hasProperty
      <4>3. p.values[getOffset(p.shape, y)] = o.values[getOffset(o.shape, y)]
        BY <4>1, <4>2, <2>3, <2>4, <2>6
      <4> QED
        BY <3>2, <4>1, <4>3 DEF With, getPropertiesCopy
    <3> QED
      BY <3>1, <3>2
  <2>9. getPropertiesCopy(p) = With(getPropertiesCopy(o), x, v)
    <3>1. DOMAIN With(getPropertiesCopy(o), x, v) = Range(sh.names)
      BY <2>3 DEF With, getPropertiesCopy
    <3>2. getPropertiesCopy(p) = [y \in Range(sh.names) |-> With(getPropertiesCopy(o), x, v)[y]]
      BY <2>6, <2>8 DEF getPropertiesCopy
    <3> QED
      BY <3>1, <3>2 DEF With
  <2>10. x \in Range(p.shape.names)
    BY <2>3, <2>6
  <2> QED
    BY <2>6, <2>7, <2>9, <2>10 DEF IsWrite, p
<1> QED
  BY <1>1, <1>2

\* A new instance has no properties.
LEMMA NewInstanceIs ==
  ASSUME NEW c
  PROVE  /\ IsObject(NewObject(c)) /\ getPropertiesCopy(NewObject(c)) = NoFields
         /\ NewObject(c).klass = c /\ NewObject(c).audit = <<>>
         /\ DOMAIN NewObject(c).cache = {}
<1>1. Range(<<>>) = {}
  BY NoneYet DEF Range
<1>2. \A j, k \in DOMAIN <<>> : <<>>[j] = <<>>[k] => j = k
  BY NoneYet
<1>3. IsShape(initialShape(c))
  BY <1>2, NoneYet DEF IsShape, initialShape
<1>4. IsObject(NewObject(c))
  BY <1>3, NoneYet DEF IsObject, NewObject, initialShape
<1>5. getPropertiesCopy(NewObject(c)) = NoFields
  BY <1>1 DEF getPropertiesCopy, NewObject, initialShape, NoFields
<1> QED
  BY <1>4, <1>5 DEF NewObject, NoFields

\* The log o keeps of a write of v to x, and what a write does to its results.
Entry(o, x, v, via) == [field |-> x, old |-> getProperty(o, x), new |-> v, via |-> via]
Extended(o, x, v, via) ==
  IF classes[o.klass].audited THEN Append(o.audit, Entry(o, x, v, via)) ELSE o.audit
Spared(o, own) ==
  IF classes[o.klass].hasCached
  THEN [k \in DOMAIN o.cache |-> [result |-> o.cache[k].result,
                                  dirty |-> k[1] \notin own \/ o.cache[k].dirty]]
  ELSE o.cache

\* An intercepted write is a write, a log entry and an invalidation.
LEMMA AssignedIs ==
  ASSUME NEW o, IsObject(o), NEW x, NEW v, NEW via, NEW own
  PROVE  LET p == Assigned(o, x, v, via, own)
         IN /\ IsObject(p) /\ p.klass = o.klass
            /\ getPropertiesCopy(p) = With(getPropertiesCopy(o), x, v)
            /\ p.audit = Extended(o, x, v, via)
            /\ p.cache = Spared(o, own)
<1> DEFINE l == Logged(o, x, v, via)
           w == setProperty(l, x, v)
           p == Assigned(o, x, v, via, own)
<1>1. /\ IsObject(l) /\ l.klass = o.klass /\ l.shape = o.shape /\ l.values = o.values
      /\ l.cache = o.cache /\ l.audit = Extended(o, x, v, via)
  <2>1. CASE classes[o.klass].audited
    <3> DEFINE a == Append(o.audit, Entry(o, x, v, via))
    <3>1. l = [o EXCEPT !.audit = a]
      BY <2>1 DEF Logged, Entry
    <3>2. IsSeq(a) /\ a = Extended(o, x, v, via)
      BY <2>1, Appended DEF IsObject, Extended
    <3> HIDE DEF a, l
    <3>3. l = [klass |-> o.klass, shape |-> o.shape, values |-> o.values, audit |-> a,
               cache |-> o.cache]
      BY <3>1, ObjectFields
    <3>4. /\ l.klass = o.klass /\ l.shape = o.shape /\ l.values = o.values
          /\ l.cache = o.cache /\ l.audit = a
      BY <3>3
    <3> QED
      BY <3>2, <3>3, <3>4 DEF IsObject
  <2>2. CASE ~classes[o.klass].audited
    BY <2>2 DEF Logged, Extended
  <2> QED
    BY <2>1, <2>2
<1> HIDE DEF l
<1>2. IsWrite(l, x, v, w)
  BY <1>1, SetProperty
<1>3. getPropertiesCopy(l) = getPropertiesCopy(o)
  BY <1>1 DEF getPropertiesCopy
<1> HIDE DEF w
<1>4. /\ IsObject(w) /\ w.klass = o.klass /\ w.cache = o.cache
      /\ w.audit = Extended(o, x, v, via)
      /\ getPropertiesCopy(w) = With(getPropertiesCopy(o), x, v)
  BY <1>1, <1>2, <1>3 DEF IsWrite
<1>5. p = IF classes[o.klass].hasCached THEN Invalidated(w, own) ELSE w
  BY DEF Assigned, w, l
<1> HIDE DEF p
<1>6. CASE classes[o.klass].hasCached
  <2>1. p = [w EXCEPT !.cache = Spared(o, own)]
    <3>1. p = [w EXCEPT !.cache = [k \in DOMAIN @ |->
                 [result |-> @[k].result, dirty |-> k[1] \notin own \/ @[k].dirty]]]
      BY <1>5, <1>6 DEF Invalidated
    <3>2. p = [w EXCEPT !.cache = [k \in DOMAIN w.cache |->
                 [result |-> w.cache[k].result, dirty |-> k[1] \notin own \/ w.cache[k].dirty]]]
      BY <3>1
    <3> QED
      BY <1>4, <1>6, <3>2 DEF Spared
  <2>2. p = [klass |-> w.klass, shape |-> w.shape, values |-> w.values, audit |-> w.audit,
             cache |-> Spared(o, own)]
    BY <1>4, <2>1, ObjectFields
  <2>3. /\ p.klass = w.klass /\ p.shape = w.shape /\ p.values = w.values /\ p.audit = w.audit
        /\ p.cache = Spared(o, own)
    BY <2>2
  <2>4. IsObject(p) /\ getPropertiesCopy(p) = getPropertiesCopy(w)
    BY <1>4, <2>2, <2>3 DEF IsObject, getPropertiesCopy
  <2> QED
    BY <1>4, <2>3, <2>4 DEF p
<1>7. CASE ~classes[o.klass].hasCached
  BY <1>4, <1>5, <1>7 DEF Spared, p
<1> QED
  BY <1>6, <1>7

\* A result stored, the rest of the instance left alone.
LEMMA ResultStored ==
  ASSUME NEW o, IsObject(o), NEW t, NEW arg, NEW r
  PROVE  LET p == StoreCachedResult(o, t, arg, r)
         IN /\ IsObject(p) /\ p.klass = o.klass /\ p.audit = o.audit
            /\ getPropertiesCopy(p) = getPropertiesCopy(o)
            /\ p.cache = With(o.cache, CacheKey(t, arg), [result |-> r, dirty |-> FALSE])
<1> DEFINE c == With(o.cache, CacheKey(t, arg), [result |-> r, dirty |-> FALSE])
           p == StoreCachedResult(o, t, arg, r)
<1>1. p = [o EXCEPT !.cache = c]
  BY DEF StoreCachedResult
<1> HIDE DEF c, p
<1>2. p = [klass |-> o.klass, shape |-> o.shape, values |-> o.values, audit |-> o.audit, cache |-> c]
  BY <1>1, ObjectFields
<1>3. /\ p.klass = o.klass /\ p.shape = o.shape /\ p.values = o.values /\ p.audit = o.audit
      /\ p.cache = c
  BY <1>2
<1>4. IsObject(p) /\ getPropertiesCopy(p) = getPropertiesCopy(o)
  BY <1>2, <1>3 DEF IsObject, getPropertiesCopy
<1> QED
  BY <1>3, <1>4 DEF c, p

-----------------------------------------------------------------------------
(* What the invariants say of one instance: o is the instance, t what the  *)
(* program told it, and s what it had been told when its log was cleared.  *)

Sound(o, t, s) == IsObject(o) /\ t = getPropertiesCopy(o) /\ DOMAIN s \subseteq DOMAIN t

Booked(o, t) ==
  /\ \A k \in DOMAIN o.audit : o.audit[k].field \in DOMAIN t
  /\ \A k \in DOMAIN o.cache : k = <<k[1], k[2]>> /\ IsCached(o.klass, k[1])

\* The entries of log for y lead from the value before to the value now.
Leads(log, y, before, now) ==
  LET made == {k \in DOMAIN log : log[k].field = y}
  IN /\ made = {} => now = before
     /\ \A k \in made :
          /\ (\A j \in made : k <= j) => log[k].old = before
          /\ \A j \in made : j < k /\ (\A m \in made : m <= j \/ k <= m) => log[k].old = log[j].new
          /\ (\A j \in made : j <= k) => now = log[k].new

\* The value of y in t, or what the class n declares.
ValueIn(t, n, y) == IF y \in DOMAIN t THEN t[y] ELSE DeclaredValue(n, y)

Accounted(o, t, s) ==
  world.models[o.klass].audited =>
    \A y \in DOMAIN t : Leads(o.audit, y, ValueIn(s, o.klass, y), t[y])

Fresh(o, t) ==
  \A k \in DOMAIN o.cache :
    ~o.cache[k].dirty =>
      /\ o.cache[k].result[1] = ValueIn(t, o.klass, Body(o.klass, k[1]).reads)
      /\ o.cache[k].result[2][2] = k[2]

\* An entry about another property.
LEMMA LogOfOther ==
  ASSUME NEW log, IsSeq(log), NEW e, NEW y, e.field # y, NEW before, NEW now,
         Leads(log, y, before, now)
  PROVE  Leads(Append(log, e), y, before, now)
<1> DEFINE l == Append(log, e)
           made == {k \in DOMAIN log : log[k].field = y}
<1>1. /\ DOMAIN l = DOMAIN log \cup {Len(log) + 1} /\ l[Len(log) + 1] = e
      /\ \A k \in DOMAIN log : l[k] = log[k]
  BY Appended
<1> HIDE DEF l
<1>2. {k \in DOMAIN l : l[k].field = y} = made
  BY <1>1
<1>3. \A k \in made : l[k] = log[k]
  BY <1>1
<1>4. /\ made = {} => now = before
      /\ \A k \in made :
           /\ (\A j \in made : k <= j) => log[k].old = before
           /\ \A j \in made : j < k /\ (\A m \in made : m <= j \/ k <= m) => log[k].old = log[j].new
           /\ (\A j \in made : j <= k) => now = log[k].new
  BY DEF Leads
<1> HIDE DEF made
<1>5. Leads(l, y, before, now)
  BY <1>2, <1>3, <1>4 DEF Leads
<1> QED
  BY <1>5 DEF l

\* An entry that starts from the value now and leads to a new one.
LEMMA LogOfOne ==
  ASSUME NEW log, IsSeq(log), NEW e, NEW y, e.field = y, NEW before, Leads(log, y, before, e.old)
  PROVE  Leads(Append(log, e), y, before, e.new)
<1> DEFINE l == Append(log, e)
           n == Len(log) + 1
           old == {k \in DOMAIN log : log[k].field = y}
           made == {k \in DOMAIN l : l[k].field = y}
<1>1. /\ DOMAIN l = DOMAIN log \cup {n} /\ l[n] = e
      /\ \A k \in DOMAIN log : l[k] = log[k]
  BY Appended
<1>2. \A k \in DOMAIN log : k \in Nat /\ k < n
  BY Appended
<1>3. n \in Nat
  BY Appended
<1>4. /\ old = {} => e.old = before
      /\ \A k \in old :
           /\ (\A j \in old : k <= j) => log[k].old = before
           /\ \A j \in old : j < k /\ (\A m \in old : m <= j \/ k <= m) => log[k].old = log[j].new
           /\ (\A j \in old : j <= k) => e.old = log[k].new
  BY DEF Leads
<1> HIDE DEF n, l
<1>5. made = old \cup {n}
  BY <1>1
<1>6. \A k \in old : l[k] = log[k] /\ k \in Nat /\ k < n
  BY <1>1, <1>2
<1> HIDE DEF old, made
<1>7. ASSUME NEW k \in made, \A j \in made : k <= j PROVE l[k].old = before
  <2>1. CASE old = {}
    BY <2>1, <1>1, <1>4, <1>5
  <2>2. CASE old # {}
    <3>1. PICK j \in old : TRUE
      BY <2>2
    <3>2. k # n
      BY <3>1, <1>3, <1>5, <1>6, <1>7
    <3> QED
      BY <3>2, <1>4, <1>5, <1>6, <1>7
  <2> QED
    BY <2>1, <2>2
<1>8. ASSUME NEW k \in made, NEW j \in made, j < k, \A m \in made : m <= j \/ k <= m
      PROVE  l[k].old = l[j].new
  <2>1. j # n /\ j \in old
    BY <1>3, <1>5, <1>6, <1>8
  <2>2. CASE k = n
    <3>1. \A m \in old : m <= j
      BY <1>3, <1>5, <1>6, <1>8, <2>2
    <3> QED
      BY <2>1, <2>2, <3>1, <1>1, <1>4, <1>6
  <2>3. CASE k # n
    BY <2>1, <2>3, <1>4, <1>5, <1>6, <1>8
  <2> QED
    BY <2>2, <2>3
<1>9. ASSUME NEW k \in made, \A j \in made : j <= k PROVE e.new = l[k].new
  <2>1. k = n
    BY <1>3, <1>5, <1>6, <1>9
  <2> QED
    BY <2>1, <1>1
<1>10. made # {}
  BY <1>5
<1>11. Leads(l, y, before, e.new)
  BY <1>7, <1>8, <1>9, <1>10 DEF Leads, made
<1> QED
  BY <1>11 DEF l

\* What a class takes over from its declaration as it is.
LEMMA Declared ==
  ASSUME Lineage, Tables, NEW c \in DOMAIN classes
  PROVE  /\ classes[c].audited = world.models[c].audited
         /\ classes[c].snapshot = world.models[c].snapshot
         /\ classes[c].persist = world.models[c].persist
         /\ classes[c].rules = world.models[c].rules
         /\ classes[c].parent = world.models[c].parent
<1>1. IsTable(classes[c], c)
  BY DEF Tables
<1> DEFINE k == classes[c]
<1> HIDE DEF k
<1>2. IsTable(k, c) => /\ k.audited = world.models[c].audited /\ k.snapshot = world.models[c].snapshot
                       /\ k.persist = world.models[c].persist /\ k.rules = world.models[c].rules
                       /\ k.parent = world.models[c].parent
  BY DEF IsTable
<1> QED
  BY <1>1, <1>2 DEF k

\* A task that is cached has a model of the line that says so, its class knows
\* of it, and it does not write what it reads.
LEMMA CachedTask ==
  ASSUME Lineage, Tables, NEW c \in DOMAIN classes, NEW t, IsCached(c, t)
  PROVE  classes[c].hasCached /\ Body(c, t).writes # Body(c, t).reads
<1>1. /\ Owner(c, t) \in Line(c) /\ Owner(c, t) \in DOMAIN classes
      /\ t \in DOMAIN world.models[Owner(c, t)].cached
  BY Owners DEF IsCached, Declaring, Line
<1>2. (\E m \in Line(c) : DOMAIN world.models[m].cached # {}) => classes[c].hasCached
  BY DEF Tables, IsTable
<1>3. world \in Worlds /\ DOMAIN classes \subseteq DOMAIN world.models
  BY DEF Lineage
<1>4. Body(c, t).writes # Body(c, t).reads
  BY <1>1, <1>3, WorldsAssumption DEF Body
<1> QED
  BY <1>1, <1>2, <1>4

\* What a property of an instance reads as.
LEMMA ReadsAs ==
  ASSUME Lineage, Tables, NEW o, NEW t, NEW s, Sound(o, t, s), o.klass \in DOMAIN classes, NEW y
  PROVE  getProperty(o, y) = ValueIn(t, o.klass, y)
BY GetProperty, ClassMember DEF Sound, ValueIn

\* A property told changes what it reads as, and no other one.
LEMMA ToldOne ==
  /\ \A t, x, v, y : y \in DOMAIN With(t, x, v) <=> y \in DOMAIN t \/ y = x
  /\ \A t, x, v : With(t, x, v)[x] = v
  /\ \A t, x, v : \A y \in DOMAIN t : y # x => With(t, x, v)[y] = t[y]
  /\ \A t, x, v, n, y : ValueIn(With(t, x, v), n, y) = IF y = x THEN v ELSE ValueIn(t, n, y)
BY DEF ValueIn, With

\* A write that is logged is accounted for.
LEMMA AccountedAfter ==
  ASSUME Lineage, Tables, NEW o, NEW t, NEW s, Sound(o, t, s), o.klass \in DOMAIN classes,
         Booked(o, t), Accounted(o, t, s), NEW x, NEW v, NEW via, NEW p,
         p.klass = o.klass, p.audit = Extended(o, x, v, via)
  PROVE  Accounted(p, With(t, x, v), s)
<1> SUFFICES ASSUME world.models[o.klass].audited, NEW y \in DOMAIN t \cup {x}
             PROVE  Leads(p.audit, y, ValueIn(s, o.klass, y), With(t, x, v)[y])
  BY ToldOne DEF Accounted
<1> DEFINE e == Entry(o, x, v, via)
           b == ValueIn(s, o.klass, y)
           w == With(t, x, v)[y]
<1>1. p.audit = Append(o.audit, e)
  BY Declared DEF Extended
<1>2. IsSeq(o.audit)
  BY DEF Sound, IsObject
<1>3. e.field = x /\ e.old = ValueIn(t, o.klass, x) /\ e.new = v
  BY ReadsAs DEF Entry
<1>4. y \in DOMAIN t => Leads(o.audit, y, b, t[y])
  BY DEF Accounted
<1>5. CASE y = x
  <2>1. Leads(o.audit, y, b, e.old)
    <3>1. CASE y \in DOMAIN t
      BY <3>1, <1>3, <1>4, <1>5 DEF ValueIn
    <3>2. CASE y \notin DOMAIN t
      <4>1. e.old = b
        BY <3>2, <1>3, <1>5 DEF ValueIn, Sound
      <4>2. {k \in DOMAIN o.audit : o.audit[k].field = y} = {}
        BY <3>2 DEF Booked
      <4> HIDE DEF e, b
      <4> QED
        BY <4>1, <4>2 DEF Leads
    <3> QED
      BY <3>1, <3>2
  <2>2. w = e.new
    BY <1>3, <1>5, ToldOne
  <2> HIDE DEF e, b, w
  <2>3. Leads(Append(o.audit, e), y, b, w)
    BY <2>1, <2>2, <1>2, <1>3, <1>5, LogOfOne
  <2> QED
    BY <2>3, <1>1 DEF b, w
<1>6. CASE y # x
  <2>1. Leads(o.audit, y, b, w)
    BY <1>4, <1>6, ToldOne
  <2> HIDE DEF e, b, w
  <2>2. Leads(Append(o.audit, e), y, b, w)
    BY <2>1, <1>2, <1>3, <1>6, LogOfOther
  <2> QED
    BY <2>2, <1>1 DEF b, w
<1> QED
  BY <1>5, <1>6

\* The books of an instance after a write that is logged.
LEMMA BookedAfter ==
  ASSUME NEW o, NEW t, NEW s, Sound(o, t, s), Booked(o, t), NEW x, NEW v, NEW via, NEW own, NEW p,
         p.klass = o.klass, p.audit \in {o.audit, Extended(o, x, v, via)},
         p.cache \in {o.cache, Spared(o, own)}
  PROVE  Booked(p, With(t, x, v))
<1>1. DOMAIN p.cache = DOMAIN o.cache
  BY DEF Spared
<1>2. ASSUME NEW k \in DOMAIN p.audit PROVE p.audit[k].field \in DOMAIN t \cup {x}
  <2>1. CASE p.audit = o.audit
    BY <1>2, <2>1 DEF Booked
  <2>2. CASE p.audit = Append(o.audit, Entry(o, x, v, via))
    <3>1. /\ DOMAIN p.audit = DOMAIN o.audit \cup {Len(o.audit) + 1}
          /\ p.audit[Len(o.audit) + 1] = Entry(o, x, v, via)
          /\ \A j \in DOMAIN o.audit : p.audit[j] = o.audit[j]
      BY <2>2, Appended DEF Sound, IsObject
    <3>2. Entry(o, x, v, via).field = x
      BY DEF Entry
    <3> QED
      BY <1>2, <3>1, <3>2 DEF Booked
  <2> QED
    BY <2>1, <2>2 DEF Extended
<1>3. \A k \in DOMAIN p.audit : p.audit[k].field \in DOMAIN With(t, x, v)
  BY <1>2, ToldOne
<1>4. \A k \in DOMAIN p.cache : k = <<k[1], k[2]>> /\ IsCached(p.klass, k[1])
  BY <1>1 DEF Booked
<1> QED
  BY <1>3, <1>4 DEF Booked

\* A write invalidates the results but those of the task that made it, which
\* did not read what it wrote.
LEMMA FreshAfter ==
  ASSUME Lineage, Tables, NEW o, NEW t, o.klass \in DOMAIN classes, Booked(o, t), Fresh(o, t),
         NEW x, NEW v, NEW own, \A r \in own : Body(o.klass, r).writes = x, NEW p,
         p.klass = o.klass, p.cache = Spared(o, own)
  PROVE  Fresh(p, With(t, x, v))
<1> SUFFICES ASSUME NEW k \in DOMAIN p.cache, ~p.cache[k].dirty
             PROVE  /\ p.cache[k].result[1] =
                         ValueIn(With(t, x, v), o.klass, Body(o.klass, k[1]).reads)
                    /\ p.cache[k].result[2][2] = k[2]
  BY DEF Fresh
<1>1. k \in DOMAIN o.cache
  BY DEF Spared
<1>2. IsCached(o.klass, k[1])
  BY <1>1 DEF Booked
<1>3. classes[o.klass].hasCached /\ Body(o.klass, k[1]).writes # Body(o.klass, k[1]).reads
  BY <1>2, CachedTask
<1>4. p.cache[k] = [result |-> o.cache[k].result, dirty |-> k[1] \notin own \/ o.cache[k].dirty]
  BY <1>1, <1>3 DEF Spared
<1>5. k[1] \in own /\ ~o.cache[k].dirty /\ p.cache[k].result = o.cache[k].result
  <2> DEFINE d == k[1] \notin own \/ o.cache[k].dirty
  <2>1. p.cache[k] = [result |-> o.cache[k].result, dirty |-> d]
    BY <1>4
  <2> HIDE DEF d
  <2>2. p.cache[k].result = o.cache[k].result /\ p.cache[k].dirty = d
    BY <2>1
  <2>3. ~d
    BY <2>2
  <2> QED
    BY <2>2, <2>3 DEF d
<1>6. Body(o.klass, k[1]).reads # x
  BY <1>3, <1>5
<1>7. /\ o.cache[k].result[1] = ValueIn(t, o.klass, Body(o.klass, k[1]).reads)
      /\ o.cache[k].result[2][2] = k[2]
  BY <1>1, <1>5 DEF Fresh
<1> QED
  BY <1>5, <1>6, <1>7, ToldOne

\* A result stored by a cached task is on the books.
LEMMA BooksStored ==
  ASSUME NEW o, NEW t, Booked(o, t), NEW task, IsCached(o.klass, task), NEW arg, NEW e,
         NEW p, p.klass = o.klass, p.audit = o.audit,
         p.cache = With(o.cache, CacheKey(task, arg), e)
  PROVE  Booked(p, t)
<1> DEFINE key == CacheKey(task, arg)
<1>1. key = <<key[1], key[2]>> /\ key[1] = task
  BY DEF CacheKey
<1> HIDE DEF key
<1>2. \A k \in DOMAIN p.cache : k \in DOMAIN o.cache \/ k = key
  BY ToldOne DEF key
<1> QED
  BY <1>1, <1>2 DEF Booked

\* A result of what the task read, under the text of its argument, is fresh.
LEMMA FreshStored ==
  ASSUME NEW o, NEW t, Fresh(o, t), NEW task, NEW arg, NEW r,
         r = <<ValueIn(t, o.klass, Body(o.klass, task).reads), arg>>,
         NEW p, p.klass = o.klass,
         p.cache = With(o.cache, CacheKey(task, arg), [result |-> r, dirty |-> FALSE])
  PROVE  Fresh(p, t)
<1> DEFINE key == CacheKey(task, arg)
<1>1. key[1] = task /\ key[2] = arg[2]
  BY DEF CacheKey
<1>2. r[1] = ValueIn(t, o.klass, Body(o.klass, task).reads) /\ r[2] = arg
  OBVIOUS
<1> HIDE DEF key
<1>3. /\ \A k \in DOMAIN p.cache : k \in DOMAIN o.cache \/ k = key
      /\ \A k \in DOMAIN o.cache : k # key => p.cache[k] = o.cache[k]
  BY ToldOne DEF key
<1>4. p.cache[key].result = r
  <2> DEFINE e == [result |-> r, dirty |-> FALSE]
  <2>1. p.cache[key] = e
    BY ToldOne DEF key
  <2>2. e.result = r
    OBVIOUS
  <2> HIDE DEF e
  <2> QED
    BY <2>1, <2>2
<1>5. ASSUME NEW k \in DOMAIN p.cache, ~p.cache[k].dirty
      PROVE  /\ p.cache[k].result[1] = ValueIn(t, o.klass, Body(o.klass, k[1]).reads)
             /\ p.cache[k].result[2][2] = k[2]
  <2>1. CASE k = key
    BY <1>1, <1>2, <1>4, <2>1
  <2>2. CASE k # key
    <3>1. k \in DOMAIN o.cache /\ p.cache[k] = o.cache[k]
      BY <1>3, <1>5, <2>2
    <3> QED
      BY <1>5, <3>1 DEF Fresh
  <2> QED
    BY <2>1, <2>2
<1> QED
  BY <1>5 DEF Fresh

\* Properties that meet the rules, after a write that does.
LEMMA MeetsAfter ==
  ASSUME NEW t, NEW n, Meets(t, n), NEW x, NEW v,
         x \in DOMAIN world.models[n].rules => Permitted(n, x, v)
  PROVE  Meets(With(t, x, v), n)
<1> SUFFICES ASSUME NEW y \in DOMAIN t \cup {x}, y \in DOMAIN world.models[n].rules
             PROVE  Permitted(n, y, With(t, x, v)[y])
  BY ToldOne DEF Meets
<1>1. CASE y = x
  <2>1. With(t, x, v)[y] = v
    BY <1>1, ToldOne
  <2> QED
    BY <1>1, <2>1
<1>2. CASE y # x
  <2>1. With(t, x, v)[y] = t[y] /\ y \in DOMAIN t
    BY <1>2, ToldOne
  <2> QED
    BY <2>1 DEF Meets
<1> QED
  BY <1>1, <1>2

-----------------------------------------------------------------------------
(* What the invariants say, of the values the variables may have next.     *)

Holding(h, t, s, a, f) ==
  /\ DOMAIN t = DOMAIN h /\ DOMAIN s = DOMAIN h
  /\ \A i \in DOMAIN h :
       h[i].klass \in DOMAIN classes /\ Sound(h[i], t[i], s[i]) /\ Booked(h[i], t[i])
  /\ \A i \in DOMAIN h \ a : Accounted(h[i], t[i], s[i]) /\ Fresh(h[i], t[i])
  /\ \A i \in DOMAIN h \ (a \cup f) : Meets(t[i], h[i].klass)

Rows(d) ==
  \A n \in DOMAIN world.models : world.models[n].persist =>
    \A x \in DOMAIN d \cap DOMAIN world.models[n].rules :
      \E v \in world.models[n].rules[x] : v[2] = d[x]

SiteEntry(s, e) ==
  /\ e = [shape |-> e.shape, offset |-> e.offset, klass |-> e.klass, method |-> e.method]
  /\ e.shape # NoShape =>
       /\ e.shape.root \in DOMAIN classes
       /\ IsShape(e.shape)
       /\ e.offset \in DOMAIN e.shape.names
       /\ e.shape.names[e.offset] = s.name
       /\ ~HiddenFrom(s.fn, e.shape.root, s.name)
  /\ e.klass # None =>
       /\ e.klass \in DOMAIN classes
       /\ ~HiddenFrom(s.fn, e.klass, s.name)
       /\ e.method = DeclaredValue(e.klass, s.name)
       /\ IsCallable(e.method)
AllEntries(c) == DOMAIN c = world.sites /\ \A s \in world.sites : SiteEntry(s, c[s])

Copied(sn, na, h, a, f, d) ==
  /\ sn # NoSnapshot =>
       /\ sn.of \in DOMAIN h
       /\ sn.of \notin a \cup f => Meets(sn.props, h[sn.of].klass)
  /\ na # NoCall =>
       /\ na.id \in DOMAIN h
       /\ na.call = "rollback" => (na.id \notin a \cup f => Meets(na.left, h[na.id].klass))
       /\ na.call = "load" =>
            /\ world.models[h[na.id].klass].persist
            /\ h[na.id].audit = <<>>
            /\ DOMAIN h[na.id].cache = {}
            /\ \A x \in DOMAIN na.left : x \in DOMAIN d /\ na.left[x] = Parsed(d[x])

\* The inductive invariant says so of the variables.
LEMMA Unpacked ==
  ASSUME IInv
  PROVE  /\ Lineage /\ Tables
         /\ Holding(heap, told, since, around, foreign) /\ Rows(db)
         /\ AllEntries(ic)
         /\ Copied(snap, native, heap, around, foreign, db)
<1> USE DEF IInv
<1>1. \A i \in DOMAIN heap :
        heap[i].klass \in DOMAIN classes /\ Sound(heap[i], told[i], since[i]) /\ Booked(heap[i], told[i])
  BY DEF Instances, Books, Sound, Booked
<1>2. ASSUME NEW i \in DOMAIN heap \ around PROVE Accounted(heap[i], told[i], since[i])
  BY DEF AuditAccounts, Accounted, Leads, ValueIn
<1>3. ASSUME NEW i \in DOMAIN heap \ around PROVE Fresh(heap[i], told[i])
  BY DEF CachedResultsFresh, Fresh, Reading, ValueIn
<1>4. \A i \in DOMAIN heap \ (around \cup foreign) : Meets(told[i], heap[i].klass)
  BY DEF RulesHold, Meets
<1>5. Rows(db)
  BY DEF RulesHold, Rows
<1>6. Holding(heap, told, since, around, foreign)
  BY <1>1, <1>2, <1>3, <1>4 DEF Holding, Instances
<1>7. AllEntries(ic)
  BY DEF Entries, AllEntries, SiteEntry
<1>8. Copied(snap, native, heap, around, foreign, db)
  BY DEF Copies, Copied
<1> QED
  BY <1>5, <1>6, <1>7, <1>8

\* If it holds of their next values, the invariant is kept.
LEMMA Packed ==
  ASSUME world' = world, Lineage', Tables', DOMAIN classes \subseteq DOMAIN classes',
         Holding(heap', told', since', around', foreign'), Rows(db'), AllEntries(ic'),
         Copied(snap', native', heap', around', foreign', db')
  PROVE  IInv'
<1>0. \A n, x : DeclaredValue(n, x)' = DeclaredValue(n, x) /\ Body(n, x)' = Body(n, x)
  BY SameWorld
<1>1. Instances'
  BY DEF Instances, Holding, Sound, IsObject, IsShape, IsSeq, getPropertiesCopy, getOffset
<1>2. Books'
  BY SameWorld DEF Books, Holding, Booked
<1>3. AuditAccounts'
  <2> SUFFICES ASSUME NEW i \in DOMAIN heap' \ around', world.models[heap'[i].klass].audited,
                      NEW y \in DOMAIN told'[i]
               PROVE  Leads(heap'[i].audit, y, ValueIn(since'[i], heap'[i].klass, y), told'[i][y])
    BY <1>0 DEF AuditAccounts, Leads, ValueIn
  <2> QED
    BY DEF Holding, Accounted
<1>4. CachedResultsFresh'
  <2> SUFFICES ASSUME NEW i \in DOMAIN heap' \ around', NEW k \in DOMAIN heap'[i].cache,
                      ~heap'[i].cache[k].dirty
               PROVE  /\ heap'[i].cache[k].result[1] =
                           ValueIn(told'[i], heap'[i].klass, Body(heap'[i].klass, k[1]).reads)
                      /\ heap'[i].cache[k].result[2][2] = k[2]
    BY <1>0 DEF CachedResultsFresh, Reading, ValueIn
  <2> QED
    BY DEF Holding, Fresh
<1>5. \A n, x, v : Permitted(n, x, v)' <=> Permitted(n, x, v)
  BY DEF Permitted, Accepted, Parsed
<1>6. RulesHold'
  BY <1>5 DEF RulesHold, Holding, Rows, Meets
<1>7. Entries'
  <2>1. \A fn, n, x : (HiddenFrom(fn, n, x)' <=> HiddenFrom(fn, n, x))
                     /\ DeclaredValue(n, x)' = DeclaredValue(n, x)
    BY SameWorld
  <2>2. DOMAIN ic' = world.sites /\ \A s \in world.sites : SiteEntry(s, ic'[s])
    BY DEF AllEntries
  <2> QED
    BY <2>1, <2>2 DEF Entries, SiteEntry
<1>8. Copies'
  BY <1>5 DEF Copies, Copied, Meets
<1> QED
  BY <1>1, <1>2, <1>3, <1>4, <1>6, <1>7, <1>8 DEF IInv

-----------------------------------------------------------------------------
(* Steps that write no property.                                           *)

\* The classes are the same.
LEMMA SameClasses ==
  ASSUME Lineage, Tables, world' = world, classes' = classes
  PROVE  Lineage' /\ Tables' /\ DOMAIN classes \subseteq DOMAIN classes'
<1>1. \A c : Line(c)' = Line(c)
  BY SameWorld
<1>2. Lineage'
  BY <1>1 DEF Lineage
<1>3. Tables'
  BY SameTable DEF Tables
<1> QED
  BY <1>2, <1>3

\* A step that is no access answers nothing.
LEMMA Silent ==
  ASSUME last'.op \notin {"load", "invoke", "store", "istore", "super",
                          "loadclass", "invokeclass", "storeclass"}
  PROVE  AccessesAnswerRight'
BY DEF AccessesAnswerRight

\* A read is right if it answers what is expected, before and after it.
LEMMA ReadRight ==
  ASSUME world' = world, heap' = heap, told' = told, NEW s, NEW i, NEW a,
         last' = Access(s, i, Nil, a), s.op \in {"load", "invoke"},
         \/ a = ExpectedRead(s, i)
         \/ ic'[s].klass = heap[i].klass /\ s.name \in DOMAIN told[i] /\ a.tag = "bound"
  PROVE  AccessesAnswerRight'
<1>1. /\ last'.op = s.op /\ last'.site = s /\ last'.id = i /\ last'.answer = a
  BY DEF Access
<1>2. \A n, x, y : /\ DeclaredValue(n, x)' = DeclaredValue(n, x)
                   /\ HookOf(n, x, y)' = HookOf(n, x, y)
                   /\ HiddenFrom(x, n, y)' <=> HiddenFrom(x, n, y)
  BY SameWorld
<1>3. ExpectedRead(s, i)' = ExpectedRead(s, i)
  BY <1>2 DEF ExpectedRead, Reading
<1>4. Shadowed(s, i)' <=> ic'[s].klass = heap[i].klass /\ s.name \in DOMAIN told[i]
  BY DEF Shadowed, ClassHit
<1> QED
  BY <1>1, <1>3, <1>4 DEF AccessesAnswerRight

\* A write is right if it answers what is expected before it.
LEMMA WriteRight ==
  ASSUME world' = world, NEW s, NEW i, NEW v, NEW a, heap'[i].klass = heap[i].klass,
         last' = Access(s, i, v, a), s.op \in {"store", "istore"}, a = ExpectedWrite(s, i, v)
  PROVE  AccessesAnswerRight'
<1>1. /\ last'.op = s.op /\ last'.site = s /\ last'.id = i /\ last'.value = v /\ last'.answer = a
  BY DEF Access
<1>2. \A n, x, y : /\ HookOf(n, x, y)' = HookOf(n, x, y)
                   /\ HiddenFrom(x, n, y)' <=> HiddenFrom(x, n, y)
  BY SameWorld
<1>3. ExpectedWrite(s, i, v)' = ExpectedWrite(s, i, v)
  BY <1>2 DEF ExpectedWrite
<1> QED
  BY <1>1, <1>3 DEF AccessesAnswerRight

\* A step that changes classes or entries only.
LEMMA SameHeap ==
  ASSUME IInv, world' = world, heap' = heap, told' = told, since' = since, around' = around,
         foreign' = foreign, db' = db, snap' = snap, native' = native, AllEntries(ic'),
         Lineage', Tables', DOMAIN classes \subseteq DOMAIN classes'
  PROVE  IInv'
<1>1. Holding(heap', told', since', around', foreign')
  BY Unpacked
<1>2. Rows(db')
  BY Unpacked
<1>3. Copied(snap', native', heap', around', foreign', db')
  BY Unpacked
<1> QED
  BY <1>1, <1>2, <1>3, Packed

\* Declaring a model.
LEMMA DeclareStep ==
  ASSUME IInv, NEW n \in DOMAIN world.models, DeclareModel(n)
  PROVE  IInv' /\ AccessesAnswerRight'
<1>1. Lineage /\ Tables /\ AllEntries(ic)
  BY Unpacked
<1>2. /\ world' = world /\ heap' = heap /\ told' = told /\ since' = since /\ around' = around
      /\ foreign' = foreign /\ db' = db /\ ic' = ic /\ snap' = snap /\ native' = native
      /\ n \notin DOMAIN classes /\ world.models[n].parent \in DOMAIN classes \cup {None}
  BY DEF DeclareModel
<1>0. AllEntries(ic')
  BY <1>1, <1>2
<1>3. ASSUME classes' = classes PROVE IInv'
  <2>1. Lineage' /\ Tables' /\ DOMAIN classes \subseteq DOMAIN classes'
    BY <1>1, <1>2, <1>3, SameClasses
  <2> QED
    BY <2>1, <1>0, <1>2, SameHeap
<1>4. ASSUME classes' = With(classes, n, MakeClass(n)) PROVE IInv'
  <2> DEFINE k == MakeClass(n)
  <2>1. IsTable(k, n) /\ k.parent = world.models[n].parent
    BY <1>1, <1>2, ClassMade
  <2> HIDE DEF k
  <2>2. classes' = With(classes, n, k)
    BY <1>4 DEF k
  <2>3. Lineage'
    BY <1>1, <1>2, <2>1, <2>2, LineageGrows
  <2>4. ASSUME NEW c \in DOMAIN classes'
        PROVE  (c \in DOMAIN classes /\ classes'[c] = classes[c]) \/ (c = n /\ classes'[c] = k)
    <3>1. c \in DOMAIN classes \/ c = n
      BY <2>2, ToldOne
    <3>2. classes'[n] = k
      BY <2>2, ToldOne
    <3>3. c \in DOMAIN classes /\ c # n => classes'[c] = classes[c]
      BY <2>2, ToldOne
    <3> QED
      BY <3>1, <3>2, <3>3
  <2>5. DOMAIN classes \subseteq DOMAIN classes'
    BY <2>2, ToldOne
  <2>6. \A c \in DOMAIN classes' : IsTable(classes'[c], c)
    BY <1>1, <2>1, <2>4 DEF Tables
  <2>7. Tables'
    BY <1>2, <2>6, SameTable DEF Tables
  <2> QED
    BY <1>0, <1>2, <2>3, <2>5, <2>7, SameHeap
<1>5. IInv'
  BY <1>3, <1>4 DEF DeclareModel
<1>6. last'.op = "declare"
  BY DEF DeclareModel
<1> QED
  BY <1>5, <1>6, Silent

\* A static member of a class is not among what its instances have.
LEMMA StaticsApart ==
  ASSUME NEW k, NEW c, IsTable(k, c), NEW st, NEW p, p = [k EXCEPT !.statics = st]
  PROVE  IsTable(p, c) /\ p.parent = k.parent
<1> DEFINE d == world.models[c]
<1>1. k = [audited |-> d.audited, snapshot |-> d.snapshot, persist |-> d.persist,
           rules |-> d.rules, parent |-> d.parent, methods |-> k.methods,
           statics |-> k.statics, visibility |-> k.visibility, hasCached |-> k.hasCached,
           hasGetattrHook |-> k.hasGetattrHook, hasSetattrHook |-> k.hasSetattrHook]
  BY DEF IsTable
<1> HIDE DEF d
<1>2. p = [audited |-> d.audited, snapshot |-> d.snapshot, persist |-> d.persist,
           rules |-> d.rules, parent |-> d.parent, methods |-> k.methods,
           statics |-> st, visibility |-> k.visibility, hasCached |-> k.hasCached,
           hasGetattrHook |-> k.hasGetattrHook, hasSetattrHook |-> k.hasSetattrHook]
  BY <1>1
<1>3. /\ p.parent = d.parent /\ p.methods = k.methods /\ p.statics = st
      /\ p.visibility = k.visibility /\ p.hasCached = k.hasCached
      /\ p.hasGetattrHook = k.hasGetattrHook /\ p.hasSetattrHook = k.hasSetattrHook
  BY <1>2
<1>4. k.parent = d.parent
  BY <1>1
<1>5. p = [audited |-> d.audited, snapshot |-> d.snapshot, persist |-> d.persist,
           rules |-> d.rules, parent |-> d.parent, methods |-> p.methods,
           statics |-> p.statics, visibility |-> p.visibility, hasCached |-> p.hasCached,
           hasGetattrHook |-> p.hasGetattrHook, hasSetattrHook |-> p.hasSetattrHook]
  BY <1>2, <1>3
<1>6. IsTable(p, c)
  BY <1>3, <1>5 DEF IsTable, d
<1> QED
  BY <1>3, <1>4, <1>6

\* Writing a static member, or being refused.
LEMMA StoreInClassStep ==
  ASSUME IInv, NEW s \in world.sites, NEW c \in DOMAIN world.models, NEW v \in world.values,
         StoreInClass(s, c, v)
  PROVE  IInv' /\ AccessesAnswerRight'
<1>1. Lineage /\ Tables /\ AllEntries(ic)
  BY Unpacked
<1>2. /\ world' = world /\ heap' = heap /\ told' = told /\ since' = since /\ around' = around
      /\ foreign' = foreign /\ db' = db /\ ic' = ic /\ snap' = snap /\ native' = native
      /\ c \in DOMAIN classes /\ s.op = "storeclass"
  BY DEF StoreInClass
<1>0. AllEntries(ic')
  BY <1>1, <1>2
<1>3. ASSUME classes' = classes PROVE IInv'
  <2>1. Lineage' /\ Tables' /\ DOMAIN classes \subseteq DOMAIN classes'
    BY <1>1, <1>2, <1>3, SameClasses
  <2> QED
    BY <2>1, <1>0, <1>2, SameHeap
<1>4. ASSUME classes' = [classes EXCEPT ![c].statics = With(@, s.name, v)] PROVE IInv'
  <2> DEFINE st == With(classes[c].statics, s.name, v)
             p == [classes[c] EXCEPT !.statics = st]
  <2>1. classes' = [classes EXCEPT ![c] = p]
    BY <1>4
  <2>2. IsTable(classes[c], c)
    BY <1>1, <1>2 DEF Tables
  <2>3. IsTable(p, c) /\ p.parent = classes[c].parent
    <3> HIDE DEF st
    <3> QED
      BY <2>2, StaticsApart
  <2> HIDE DEF p
  <2>4. DOMAIN classes' = DOMAIN classes
    BY <2>1
  <2>5. \A m \in DOMAIN classes : classes'[m] = IF m = c THEN p ELSE classes[m]
    BY <2>1
  <2>6. \A m \in DOMAIN classes : classes'[m].parent = classes[m].parent /\ IsTable(classes'[m], m)
    BY <1>1, <2>3, <2>5 DEF Tables
  <2>7. \A m : Line(m)' = Line(m)
    BY <1>2, SameWorld
  <2>8. Lineage'
    BY <1>1, <1>2, <2>4, <2>6, <2>7 DEF Lineage
  <2>9. Tables'
    BY <1>2, <2>4, <2>6, SameTable DEF Tables
  <2> QED
    BY <1>0, <1>2, <2>4, <2>8, <2>9, SameHeap
<1>5. IInv'
  BY <1>3, <1>4 DEF StoreInClass
<1> DEFINE a == Answer(IF MayUse(s.fn, c, s.name) THEN "stored" ELSE "hidden", Nil)
<1>6. last' = Access(s, c, v, a)
  BY DEF StoreInClass
<1>7. a.tag = "hidden" <=> HiddenFrom(s.fn, c, s.name)
  BY <1>1, <1>2, Visibility DEF Answer
<1> HIDE DEF a
<1>8. last'.op = "storeclass" /\ last'.answer = a /\ last'.site = s /\ last'.id = c
  BY <1>2, <1>6 DEF Access
<1>9. HiddenFrom(s.fn, c, s.name)' <=> HiddenFrom(s.fn, c, s.name)
  BY <1>2, SameWorld
<1> QED
  BY <1>5, <1>7, <1>8, <1>9 DEF AccessesAnswerRight

\* An instance as the invariant knows it.
LEMMA Known ==
  ASSUME IInv, NEW i \in DOMAIN heap
  PROVE  /\ Lineage /\ Tables
         /\ heap[i].klass \in DOMAIN classes /\ heap[i].klass # None
         /\ Sound(heap[i], told[i], since[i]) /\ IsObject(heap[i]) /\ Booked(heap[i], told[i])
         /\ told[i] = getPropertiesCopy(heap[i])
         /\ \A x : getProperty(heap[i], x) = Reading(i, x)
         /\ \A x : hasProperty(heap[i], x) <=> x \in DOMAIN told[i]
<1>1. /\ Lineage /\ Tables
      /\ heap[i].klass \in DOMAIN classes /\ Sound(heap[i], told[i], since[i])
      /\ Booked(heap[i], told[i])
  BY Unpacked DEF Holding
<1>2. heap[i].klass # None
  BY <1>1, Lines
<1>3. \A x : getProperty(heap[i], x) = Reading(i, x)
  BY <1>1, ReadsAs DEF ValueIn, Reading
<1>4. \A x : hasProperty(heap[i], x) <=> x \in DOMAIN told[i]
  BY <1>1, GetProperty DEF Sound
<1> QED
  BY <1>1, <1>2, <1>3, <1>4 DEF Sound

\* An entry that is hit has the offset of the property, in the instance.
LEMMA ShapeHits ==
  ASSUME IInv, NEW s \in world.sites, NEW i \in DOMAIN heap, ShapeHit(s, heap[i])
  PROVE  /\ s.name \in DOMAIN told[i] /\ ~HiddenFrom(s.fn, heap[i].klass, s.name)
         /\ ic[s].offset \in DOMAIN heap[i].shape.names
         /\ heap[i].shape.names[ic[s].offset] = s.name
         /\ heap[i].values[ic[s].offset] = told[i][s.name]
<1> DEFINE e == ic[s]
           o == heap[i]
<1>1. SiteEntry(s, e)
  BY Unpacked DEF AllEntries
<1>2. e.shape # NoShape /\ e.shape = o.shape
  BY DEF ShapeHit
<1>3. IsObject(o) /\ told[i] = getPropertiesCopy(o) /\ o.shape.root = o.klass
  BY Known DEF IsObject
<1> HIDE DEF e, o
<1>4. /\ e.offset \in DOMAIN o.shape.names
      /\ o.shape.names[e.offset] = s.name
      /\ ~HiddenFrom(s.fn, o.klass, s.name)
  BY <1>1, <1>2, <1>3 DEF SiteEntry
<1>5. getOffset(o.shape, s.name) = e.offset
  BY <1>3, <1>4, Offset DEF IsObject
<1>6. s.name \in Range(o.shape.names)
  BY <1>4 DEF Range
<1>7. s.name \in DOMAIN told[i] /\ told[i][s.name] = o.values[e.offset]
  BY <1>3, <1>5, <1>6 DEF getPropertiesCopy
<1> QED
  BY <1>4, <1>7 DEF e, o

\* An entry that is hit has the task of the class.
LEMMA ClassHits ==
  ASSUME IInv, NEW s \in world.sites, NEW i \in DOMAIN heap, ClassHit(s, heap[i])
  PROVE  /\ ic[s].klass = heap[i].klass /\ ~HiddenFrom(s.fn, heap[i].klass, s.name)
         /\ ic[s].method = DeclaredValue(heap[i].klass, s.name)
         /\ IsCallable(ic[s].method) /\ ic[s].method # Nil
<1>1. SiteEntry(s, ic[s])
  BY Unpacked DEF AllEntries
<1>2. ic[s].klass = heap[i].klass /\ heap[i].klass # None
  BY Known DEF ClassHit
<1>3. ~IsCallable(Nil)
  BY DEF Nil, IsCallable
<1>4. \A v : IsCallable(v) => v # Nil
  BY <1>3
<1> QED
  BY <1>1, <1>2, <1>4 DEF SiteEntry

\* What an access fills the entry of its site with.
LEMMA EntryFilled ==
  ASSUME IInv, NEW s \in world.sites, NEW o, IsObject(o), o.klass \in DOMAIN classes,
         ~HiddenFrom(s.fn, o.klass, s.name)
  PROVE  /\ hasProperty(o, s.name) => AllEntries(CacheShape(s, o, s.name))
         /\ \A m : m = DeclaredValue(o.klass, s.name) /\ IsCallable(m)
                     => AllEntries(CacheMethod(s, o, m))
<1>1. AllEntries(ic)
  BY Unpacked
<1>2. SiteEntry(s, ic[s])
  BY <1>1 DEF AllEntries
<1> DEFINE e == ic[s]
<1>3. e = [shape |-> e.shape, offset |-> e.offset, klass |-> e.klass, method |-> e.method]
  BY <1>2 DEF SiteEntry
<1>4. ASSUME hasProperty(o, s.name) PROVE AllEntries(CacheShape(s, o, s.name))
  <2> DEFINE k == getOffset(o.shape, s.name)
             f == [shape |-> o.shape, offset |-> k, klass |-> e.klass, method |-> e.method]
  <2>1. k \in DOMAIN o.shape.names /\ o.shape.names[k] = s.name
    BY <1>4, GetProperty
  <2>2. CacheShape(s, o, s.name) = [ic EXCEPT ![s] = f]
    <3>1. [e EXCEPT !.shape = o.shape, !.offset = k] = f
      <4> HIDE DEF e, k
      <4>1. [e EXCEPT !.shape = o.shape] =
              [shape |-> o.shape, offset |-> e.offset, klass |-> e.klass, method |-> e.method]
        BY <1>3
      <4> DEFINE g == [e EXCEPT !.shape = o.shape]
      <4>2. [e EXCEPT !.shape = o.shape, !.offset = k] = [g EXCEPT !.offset = k]
        OBVIOUS
      <4>3. g = [shape |-> o.shape, offset |-> e.offset, klass |-> e.klass, method |-> e.method]
        BY <4>1
      <4> HIDE DEF g
      <4>4. [g EXCEPT !.offset = k] = f
        BY <4>3
      <4> QED
        BY <4>2, <4>4
    <3> QED
      BY <3>1 DEF CacheShape
  <2> HIDE DEF k
  <2>3. f = [shape |-> f.shape, offset |-> f.offset, klass |-> f.klass, method |-> f.method]
        /\ f.shape = o.shape /\ f.offset = k /\ f.klass = e.klass /\ f.method = e.method
    OBVIOUS
  <2> HIDE DEF f
  <2>4. SiteEntry(s, f)
    BY <1>2, <2>1, <2>3 DEF SiteEntry, IsObject
  <2>5. AllEntries([ic EXCEPT ![s] = f])
    BY <1>1, <2>4 DEF AllEntries
  <2> QED
    BY <2>2, <2>5
<1>5. ASSUME NEW m, m = DeclaredValue(o.klass, s.name), IsCallable(m)
      PROVE  AllEntries(CacheMethod(s, o, m))
  <2> DEFINE f == [shape |-> e.shape, offset |-> e.offset, klass |-> o.klass, method |-> m]
  <2>2. CacheMethod(s, o, m) = [ic EXCEPT ![s] = f]
    <3>1. [e EXCEPT !.klass = o.klass, !.method = m] = f
      <4> HIDE DEF e
      <4>1. [e EXCEPT !.klass = o.klass] =
              [shape |-> e.shape, offset |-> e.offset, klass |-> o.klass, method |-> e.method]
        BY <1>3
      <4> DEFINE g == [e EXCEPT !.klass = o.klass]
      <4>2. [e EXCEPT !.klass = o.klass, !.method = m] = [g EXCEPT !.method = m]
        OBVIOUS
      <4>3. g = [shape |-> e.shape, offset |-> e.offset, klass |-> o.klass, method |-> e.method]
        BY <4>1
      <4> HIDE DEF g
      <4>4. [g EXCEPT !.method = m] = f
        BY <4>3
      <4> QED
        BY <4>2, <4>4
    <3> QED
      BY <3>1 DEF CacheMethod
  <2>3. f = [shape |-> f.shape, offset |-> f.offset, klass |-> f.klass, method |-> f.method]
        /\ f.shape = e.shape /\ f.offset = e.offset /\ f.klass = o.klass /\ f.method = m
    OBVIOUS
  <2> HIDE DEF f
  <2>4. SiteEntry(s, f)
    BY <1>2, <1>5, <2>3 DEF SiteEntry
  <2>5. AllEntries([ic EXCEPT ![s] = f])
    BY <1>1, <2>4 DEF AllEntries
  <2> QED
    BY <2>2, <2>5
<1> QED
  BY <1>4, <1>5

\* A read changes entries only.
LEMMA ReadKeeps ==
  ASSUME IInv, SameObjects, AllEntries(ic')
  PROVE  IInv'
<1>1. Lineage /\ Tables
  BY Unpacked
<1>2. /\ world' = world /\ classes' = classes /\ heap' = heap /\ told' = told /\ since' = since
      /\ around' = around /\ foreign' = foreign /\ db' = db /\ snap' = snap /\ native' = native
  BY DEF SameObjects
<1>3. Lineage' /\ Tables' /\ DOMAIN classes \subseteq DOMAIN classes'
  BY <1>1, <1>2, SameClasses
<1> QED
  BY <1>2, <1>3, SameHeap

\* A lookup finds what is expected, or faults as expected.
LEMMA Missed ==
  ASSUME IInv, NEW i \in DOMAIN heap, NEW x
  PROVE  LET hook == HookOf(heap[i].klass, "__getattr__", x)
         IN MissedBy(heap[i].klass, x) =
              IF IsCallable(hook) THEN Answer("hook", hook) ELSE Answer("missing", Nil)
BY Known, Hooks DEF MissedBy

\* obj.name, through the entry of the site or by lookup.
LEMMA LoadStep ==
  ASSUME IInv, NEW s \in world.sites, NEW i \in DOMAIN heap, LoadProperty(s, i)
  PROVE  IInv' /\ AccessesAnswerRight'
<1> DEFINE o == heap[i]
           x == s.name
           v == Reading(i, x)
           f == x \in DOMAIN told[i]
           h == HiddenFrom(s.fn, o.klass, x)
           hook == HookOf(o.klass, "__getattr__", x)
           missed == IF IsCallable(hook) THEN Answer("hook", hook) ELSE Answer("missing", Nil)
<1>1. /\ IsObject(o) /\ o.klass \in DOMAIN classes
      /\ getProperty(o, x) = v /\ (hasProperty(o, x) <=> f)
      /\ MayUse(s.fn, o.klass, x) <=> ~h
      /\ MissedBy(o.klass, x) = missed
  BY Known, Visibility, Missed
<1>2. /\ f => v = told[i][x]
      /\ ~f => v = DeclaredValue(o.klass, x)
  BY DEF Reading
<1>3. s.op = "load" /\ SameObjects /\ AllEntries(ic)
  BY Unpacked DEF LoadProperty
<1>4. ExpectedRead(s, i) =
        IF h THEN Answer("hidden", Nil)
        ELSE IF v = Nil /\ ~f THEN missed
        ELSE Answer(IF ~f /\ IsCallable(v) THEN "bound" ELSE "value", v)
  BY <1>3 DEF ExpectedRead
<1>5. world' = world /\ heap' = heap /\ told' = told
  BY <1>3 DEF SameObjects
<1>6. CASE LoadFieldHit(s, i)
  <2> DEFINE a == Answer("value", o.values[ic[s].offset])
  <2>1. last' = Access(s, i, Nil, a) /\ ic' = ic /\ ShapeHit(s, o)
    BY <1>6 DEF LoadFieldHit
  <2>2. a = ExpectedRead(s, i)
    BY <1>2, <1>4, <2>1, ShapeHits
  <2> HIDE DEF a
  <2>3. AccessesAnswerRight'
    BY <1>3, <1>5, <2>1, <2>2, ReadRight
  <2> QED
    BY <1>3, <2>1, <2>3, ReadKeeps
<1>7. CASE LoadMethodHit(s, i)
  <2> DEFINE a == Answer("bound", ic[s].method)
  <2>1. last' = Access(s, i, Nil, a) /\ ic' = ic /\ ClassHit(s, o)
    BY <1>7 DEF LoadMethodHit
  <2>2. ic[s].klass = o.klass /\ a.tag = "bound" /\ (~f => a = ExpectedRead(s, i))
    BY <1>2, <1>4, <2>1, ClassHits DEF Answer
  <2> HIDE DEF a
  <2>3. AccessesAnswerRight'
    BY <1>3, <1>5, <2>1, <2>2, ReadRight
  <2> QED
    BY <1>3, <2>1, <2>3, ReadKeeps
<1>8. CASE LoadLookup(s, i)
  <2> DEFINE m == ~f /\ IsCallable(v)
             found == f \/ v # Nil
             a == IF h THEN Answer("hidden", Nil)
                  ELSE IF ~found THEN missed
                  ELSE Answer(IF m THEN "bound" ELSE "value", v)
  <2>1. /\ ic' = IF h \/ ~found THEN ic
                 ELSE IF f THEN CacheShape(s, o, x)
                 ELSE IF m THEN CacheMethod(s, o, v)
                 ELSE ic
        /\ last' = Access(s, i, Nil, a)
    BY <1>1, <1>8 DEF LoadLookup
  <2>2. a = ExpectedRead(s, i)
    BY <1>4
  <2>3. AllEntries(ic')
    BY <1>1, <1>2, <1>3, <2>1, EntryFilled
  <2> HIDE DEF a
  <2>4. AccessesAnswerRight'
    BY <1>3, <1>5, <2>1, <2>2, ReadRight
  <2> QED
    BY <1>3, <2>3, <2>4, ReadKeeps
<1> QED
  BY <1>6, <1>7, <1>8 DEF LoadProperty

\* obj.name(...), through the entry of the site or by lookup.
LEMMA InvokeStep ==
  ASSUME IInv, NEW s \in world.sites, NEW i \in DOMAIN heap, InvokeMethod(s, i)
  PROVE  IInv' /\ AccessesAnswerRight'
<1> DEFINE o == heap[i]
           x == s.name
           v == Reading(i, x)
           f == x \in DOMAIN told[i]
           h == HiddenFrom(s.fn, o.klass, x)
           hook == HookOf(o.klass, "__getattr__", x)
           missed == IF IsCallable(hook) THEN Answer("hook", hook) ELSE Answer("missing", Nil)
<1>1. /\ IsObject(o) /\ o.klass \in DOMAIN classes
      /\ getProperty(o, x) = v /\ (hasProperty(o, x) <=> f)
      /\ MayUse(s.fn, o.klass, x) <=> ~h
      /\ MissedBy(o.klass, x) = missed
  BY Known, Visibility, Missed
<1>2. ~f => v = DeclaredValue(o.klass, x)
  BY DEF Reading
<1>3. s.op = "invoke" /\ SameObjects /\ AllEntries(ic)
  BY Unpacked DEF InvokeMethod
<1>4. ExpectedRead(s, i) =
        IF h THEN Answer("hidden", Nil)
        ELSE IF v = Nil THEN missed
        ELSE Answer(IF ~f /\ IsCallable(v) THEN "bound" ELSE "value", v)
  BY <1>3 DEF ExpectedRead
<1>5. world' = world /\ heap' = heap /\ told' = told
  BY <1>3 DEF SameObjects
<1>6. CASE InvokeHit(s, i)
  <2> DEFINE a == Answer("bound", ic[s].method)
  <2>1. last' = Access(s, i, Nil, a) /\ ic' = ic /\ ClassHit(s, o)
    BY <1>6 DEF InvokeHit
  <2>2. ic[s].klass = o.klass /\ a.tag = "bound" /\ (~f => a = ExpectedRead(s, i))
    BY <1>2, <1>4, <2>1, ClassHits DEF Answer
  <2> HIDE DEF a
  <2>3. AccessesAnswerRight'
    BY <1>3, <1>5, <2>1, <2>2, ReadRight
  <2> QED
    BY <1>3, <2>1, <2>3, ReadKeeps
<1>7. CASE InvokeLookup(s, i)
  <2> DEFINE m == ~f /\ IsCallable(v)
             a == IF h THEN Answer("hidden", Nil)
                  ELSE IF v = Nil THEN missed
                  ELSE Answer(IF m THEN "bound" ELSE "value", v)
  <2>1. /\ ic' = IF ~h /\ m THEN CacheMethod(s, o, v) ELSE ic
        /\ last' = Access(s, i, Nil, a)
    BY <1>1, <1>7 DEF InvokeLookup
  <2>2. a = ExpectedRead(s, i)
    BY <1>4
  <2>3. AllEntries(ic')
    BY <1>1, <1>2, <1>3, <2>1, EntryFilled
  <2> HIDE DEF a
  <2>4. AccessesAnswerRight'
    BY <1>3, <1>5, <2>1, <2>2, ReadRight
  <2> QED
    BY <1>3, <2>3, <2>4, ReadKeeps
<1> QED
  BY <1>6, <1>7 DEF InvokeMethod

\* super.name
LEMMA SuperStep ==
  ASSUME IInv, NEW s \in world.sites, NEW i \in DOMAIN heap, LoadSuper(s, i)
  PROVE  IInv' /\ AccessesAnswerRight'
<1> DEFINE p == classes[s.fn].parent
           m == classMember(p, s.name)
           a == IF m = Nil THEN Answer("missing", Nil)
                ELSE Answer(IF IsCallable(m) THEN "bound" ELSE "value", m)
<1>1. /\ s.op = "super" /\ s.fn \in Up(classes, heap[i].klass) /\ p # None /\ ic' = ic
      /\ SameObjects /\ last' = Access(s, i, Nil, a)
  BY DEF LoadSuper
<1>2. Lineage /\ Tables /\ AllEntries(ic)
  BY Unpacked
<1>3. s.fn \in DOMAIN classes
  BY <1>1 DEF Up
<1>4. p = world.models[s.fn].parent /\ p \in DOMAIN classes
  BY <1>1, <1>2, <1>3 DEF Lineage
<1>5. a.value = DeclaredValue(world.models[s.fn].parent, s.name)
  <2>1. m = DeclaredValue(p, s.name)
    BY <1>2, <1>4, ClassMember
  <2>2. a.value = m
    BY DEF Answer
  <2> QED
    BY <1>4, <2>1, <2>2
<1> HIDE DEF a
<1>6. last'.op = "super" /\ last'.site = s /\ last'.answer = a
  BY <1>1 DEF Access
<1>7. world' = world
  BY <1>1 DEF SameObjects
<1>8. \A n, x : DeclaredValue(n, x)' = DeclaredValue(n, x)
  BY <1>7, SameWorld
<1>9. AccessesAnswerRight'
  BY <1>5, <1>6, <1>7, <1>8 DEF AccessesAnswerRight
<1> QED
  BY <1>1, <1>2, <1>9, ReadKeeps

\* Model.name and Model.name(...)
LEMMA AccessClassStep ==
  ASSUME IInv, NEW s \in world.sites, NEW c \in DOMAIN world.models, AccessClass(s, c)
  PROVE  IInv' /\ AccessesAnswerRight'
<1>1. Lineage /\ Tables /\ AllEntries(ic)
  BY Unpacked
<1>2. c \in DOMAIN classes /\ ic' = ic /\ SameObjects
  BY DEF AccessClass
<1>3. PICK a : last' = Access(s, c, Nil, a) /\ a \in {LoadFromClass(c, s), InvokeOnClass(c, s)}
               /\ s.op \in {"loadclass", "invokeclass"}
  BY DEF AccessClass
<1>4. MayUse(s.fn, c, s.name) <=> ~HiddenFrom(s.fn, c, s.name)
  BY <1>1, <1>2, Visibility
<1>5. a.tag = "hidden" <=> ~MayUse(s.fn, c, s.name)
  BY <1>3 DEF LoadFromClass, InvokeOnClass, Answer
<1>6. last'.op = s.op /\ last'.site = s /\ last'.id = c /\ last'.answer = a
  BY <1>3 DEF Access
<1>7. HiddenFrom(s.fn, c, s.name)' <=> HiddenFrom(s.fn, c, s.name)
  BY <1>2, SameWorld DEF SameObjects
<1>8. AccessesAnswerRight'
  BY <1>3, <1>4, <1>5, <1>6, <1>7 DEF AccessesAnswerRight
<1> QED
  BY <1>1, <1>2, <1>8, ReadKeeps

\* obj is name
LEMMA TestStep ==
  ASSUME IInv, NEW i \in DOMAIN heap, NEW n \in world.asked, TestInstance(i, n)
  PROVE  IInv' /\ AccessesAnswerRight'
<1>1. last'.op = "is" /\ ic' = ic /\ SameObjects
  BY DEF TestInstance
<1>2. AllEntries(ic')
  BY <1>1, Unpacked
<1> QED
  BY <1>1, <1>2, ReadKeeps, Silent

-----------------------------------------------------------------------------
(* Steps that write a property.                                            *)

\* g is f with e at i.
Changed(f, g, i, e) ==
  /\ \A j : j \in DOMAIN g <=> j \in DOMAIN f
  /\ g[i] = e
  /\ \A j \in DOMAIN f : j # i => g[j] = f[j]

\* A function with a value replaced, or as it is.
LEMMA ChangedIs ==
  ASSUME NEW f, NEW i \in DOMAIN f
  PROVE  Changed(f, f, i, f[i]) /\ \A e : Changed(f, [f EXCEPT ![i] = e], i, e)
BY DEF Changed

\* An instance replaced by one the invariants hold of.
LEMMA Put ==
  ASSUME Holding(heap, told, since, around, foreign), NEW i \in DOMAIN heap, NEW p, NEW t, NEW s,
         NEW h, NEW hs, NEW ts, NEW a, NEW f,
         Changed(heap, h, i, p), Changed(told, ts, i, t), Changed(since, hs, i, s),
         p.klass = heap[i].klass, Sound(p, t, s), Booked(p, t),
         around \subseteq a, foreign \subseteq f,
         i \notin a => Accounted(p, t, s) /\ Fresh(p, t),
         i \notin a \cup f => Meets(t, p.klass)
  PROVE  Holding(h, ts, hs, a, f)
<1>1. DOMAIN told = DOMAIN heap /\ DOMAIN since = DOMAIN heap
  BY DEF Holding
<1>2. DOMAIN h = DOMAIN heap /\ DOMAIN ts = DOMAIN heap /\ DOMAIN hs = DOMAIN heap
  BY <1>1 DEF Changed
<1>3. h[i] = p /\ ts[i] = t /\ hs[i] = s
  BY DEF Changed
<1>4. \A j \in DOMAIN heap : j # i => h[j] = heap[j] /\ ts[j] = told[j] /\ hs[j] = since[j]
  BY <1>1 DEF Changed
<1>5. ASSUME NEW j \in DOMAIN h
      PROVE  h[j].klass \in DOMAIN classes /\ Sound(h[j], ts[j], hs[j]) /\ Booked(h[j], ts[j])
  <2>1. CASE j = i
    BY <1>3, <2>1 DEF Holding
  <2>2. CASE j # i
    BY <1>2, <1>4, <2>2 DEF Holding
  <2> QED
    BY <2>1, <2>2
<1>6. ASSUME NEW j \in DOMAIN h \ a PROVE Accounted(h[j], ts[j], hs[j]) /\ Fresh(h[j], ts[j])
  <2>1. CASE j = i
    BY <1>3, <2>1
  <2>2. CASE j # i
    BY <1>2, <1>4, <2>2 DEF Holding
  <2> QED
    BY <2>1, <2>2
<1>7. ASSUME NEW j \in DOMAIN h \ (a \cup f) PROVE Meets(ts[j], h[j].klass)
  <2>1. CASE j = i
    BY <1>3, <2>1
  <2>2. CASE j # i
    <3>1. j \in DOMAIN heap \ (around \cup foreign)
      BY <1>2
    <3> QED
      BY <1>4, <2>2, <3>1 DEF Holding
  <2> QED
    BY <2>1, <2>2
<1> QED
  BY <1>2, <1>5, <1>6, <1>7 DEF Holding

\* A step that replaces an instance, while no native call is in progress.
LEMMA PutStep ==
  ASSUME IInv, native = NoCall, NEW i \in DOMAIN heap, NEW p, NEW t, NEW s,
         world' = world, classes' = classes, snap' = snap, native' = native, foreign' = foreign,
         Changed(heap, heap', i, p), Changed(told, told', i, t), Changed(since, since', i, s),
         p.klass = heap[i].klass, Sound(p, t, s), Booked(p, t),
         around \subseteq around',
         i \notin around' => Accounted(p, t, s) /\ Fresh(p, t),
         i \notin around' \cup foreign => Meets(t, p.klass),
         Rows(db'), AllEntries(ic')
  PROVE  IInv'
<1>1. /\ Lineage /\ Tables /\ Holding(heap, told, since, around, foreign)
      /\ Copied(snap, native, heap, around, foreign, db)
  BY Unpacked
<1>2. Lineage' /\ Tables' /\ DOMAIN classes \subseteq DOMAIN classes'
  BY <1>1, SameClasses
<1>3. Holding(heap', told', since', around', foreign')
  BY <1>1, Put
<1>4. \A j \in DOMAIN heap : j \in DOMAIN heap' /\ heap'[j].klass = heap[j].klass
  BY DEF Changed
<1>5. Copied(snap', native', heap', around', foreign', db')
  BY <1>1, <1>4 DEF Copied
<1> QED
  BY <1>2, <1>3, <1>5, Packed

\* A row written with a value that meets the rules.
LEMMA RowsAfter ==
  ASSUME Lineage, Tables, Rows(db), NEW c \in DOMAIN classes, NEW x, NEW v,
         x \in DOMAIN world.models[c].rules => v \in world.models[c].rules[x]
  PROVE  Rows(Persisted(c, x, v))
<1>1. CASE classes[c].persist
  <2> DEFINE d == Persisted(c, x, v)
  <2>1. world.models[c].persist /\ c \in DOMAIN world.models /\ world \in Worlds
    BY <1>1, Declared, Lines DEF Lineage
  <2>2. \A n \in DOMAIN world.models :
          world.models[n].persist => world.models[n].rules = world.models[c].rules
    BY <2>1, WorldsAssumption
  <2>3. d = With(db, x, v[2])
    BY <1>1 DEF Persisted
  <2> HIDE DEF d
  <2>4. ASSUME NEW n \in DOMAIN world.models, world.models[n].persist,
               NEW y \in DOMAIN d \cap DOMAIN world.models[n].rules
        PROVE  \E r \in world.models[n].rules[y] : r[2] = d[y]
    <3>1. CASE y = x
      <4>1. d[y] = v[2]
        BY <2>3, <3>1, ToldOne
      <4> QED
        BY <2>2, <2>4, <3>1, <4>1
    <3>2. CASE y # x
      <4>1. y \in DOMAIN db /\ d[y] = db[y]
        BY <2>3, <2>4, <3>2, ToldOne
      <4> QED
        BY <2>4, <4>1 DEF Rows
    <3> QED
      BY <3>1, <3>2
  <2> QED
    BY <2>4 DEF Rows, d
<1>2. CASE ~classes[c].persist
  BY <1>2 DEF Persisted
<1> QED
  BY <1>1, <1>2

\* A write around the interception: through setattr(), a hook or the site's entry.
LEMMA AroundStep ==
  ASSUME IInv, native = NoCall, NEW i \in DOMAIN heap, NEW x, NEW v, NEW p,
         IsWrite(heap[i], x, v, p),
         world' = world, classes' = classes, snap' = snap, native' = native, foreign' = foreign,
         since' = since, db' = db, AllEntries(ic'),
         heap' = [heap EXCEPT ![i] = p], Told(i, x, v),
         around \subseteq around', i \in around' \/ ~behaviors(heap[i].klass)
  PROVE  IInv'
<1> DEFINE o == heap[i]
           t == told[i]
           s == since[i]
           u == With(t, x, v)
<1>1. /\ Lineage /\ Tables /\ Rows(db) /\ Holding(heap, told, since, around, foreign)
  BY Unpacked
<1>2. /\ o.klass \in DOMAIN classes /\ Sound(o, t, s) /\ Booked(o, t)
  BY Known
<1>3. i \in DOMAIN told /\ i \in DOMAIN since
  BY <1>1 DEF Holding
<1>4. /\ IsObject(p) /\ p.klass = o.klass /\ p.audit = o.audit /\ p.cache = o.cache
      /\ getPropertiesCopy(p) = u
  BY <1>2 DEF IsWrite, Sound
<1> HIDE DEF o, t, s
<1>5. Sound(p, u, s)
  BY <1>2, <1>4, ToldOne DEF Sound
<1>6. Booked(p, u)
  BY <1>2, <1>4, BookedAfter
<1>7. /\ Changed(heap, heap', i, p) /\ Changed(told, told', i, u) /\ Changed(since, since', i, s)
  BY <1>3, ChangedIs DEF Told, s, t
<1>8. ASSUME ~behaviors(o.klass)
      PROVE  Accounted(p, u, s) /\ Fresh(p, u) /\ Meets(u, p.klass)
  <2>1. /\ ~world.models[o.klass].audited
        /\ world.models[o.klass].rules = NoFields
        /\ ~classes[o.klass].hasCached
    BY <1>1, <1>2, <1>8, Declared DEF behaviors
  <2>2. Accounted(p, u, s)
    BY <1>4, <2>1 DEF Accounted
  <2>3. DOMAIN o.cache = {}
    BY <1>1, <1>2, <2>1, CachedTask DEF Booked
  <2>4. Fresh(p, u)
    BY <1>4, <2>3 DEF Fresh
  <2>5. DOMAIN NoFields = {}
    BY DEF NoFields
  <2>6. Meets(u, p.klass)
    BY <1>4, <2>1, <2>5 DEF Meets
  <2> QED
    BY <2>2, <2>4, <2>6
<1>9. i \notin around' => ~behaviors(o.klass)
  BY DEF o
<1> HIDE DEF u
<1> QED
  BY <1>1, <1>4, <1>5, <1>6, <1>7, <1>8, <1>9, PutStep DEF o

\* A step that leaves the instances alone.
LEMMA QuietStep ==
  ASSUME IInv, native = NoCall, world' = world, classes' = classes, snap' = snap, native' = native,
         foreign' = foreign, heap' = heap, told' = told, since' = since, db' = db,
         around \subseteq around', AllEntries(ic')
  PROVE  IInv'
<1>1. /\ Lineage /\ Tables /\ Rows(db) /\ Holding(heap, told, since, around, foreign)
      /\ Copied(snap, native, heap, around, foreign, db)
  BY Unpacked
<1>2. Lineage' /\ Tables' /\ DOMAIN classes \subseteq DOMAIN classes'
  BY <1>1, SameClasses
<1>3. Holding(heap', told', since', around', foreign')
  BY <1>1 DEF Holding
<1>4. Copied(snap', native', heap', around', foreign', db')
  BY <1>1 DEF Copied
<1> QED
  BY <1>1, <1>2, <1>3, <1>4, Packed

\* A write the hook of the model takes.
LEMMA HookStep ==
  ASSUME IInv, native = NoCall, NEW s \in world.sites, NEW i \in DOMAIN heap, NEW v,
         RunSetattrHook(s, i, v), s.op \in {"store", "istore"},
         world' = world, classes' = classes, snap' = snap, native' = native, foreign' = foreign,
         since' = since
  PROVE  IInv' /\ AccessesAnswerRight'
<1> DEFINE p == setProperty(heap[i], s.name, v)
           hook == findSetattrHook(heap[i].klass, s.name)
           a == Answer("hook", hook)
<1>1. /\ IsCallable(hook) /\ heap' = [heap EXCEPT ![i] = p] /\ Told(i, s.name, v)
      /\ around' = around \cup {i} /\ last' = Access(s, i, v, a) /\ ic' = ic /\ db' = db
  BY DEF RunSetattrHook
<1>2. IsWrite(heap[i], s.name, v, p)
  BY Known, SetProperty
<1>3. AllEntries(ic')
  BY <1>1, Unpacked
<1>4. a = ExpectedWrite(s, i, v)
  BY <1>1, Known, Hooks DEF ExpectedWrite
<1> HIDE DEF p, a
<1>5. heap'[i].klass = heap[i].klass
  BY <1>1, <1>2 DEF IsWrite
<1>6. AccessesAnswerRight'
  BY <1>1, <1>4, <1>5, WriteRight
<1>7. Told(i, s.name, v) /\ heap' = [heap EXCEPT ![i] = p] /\ around \subseteq around' /\ i \in around'
      /\ db' = db
  BY <1>1
<1>8. IInv'
  BY <1>2, <1>3, <1>7, AroundStep
<1> QED
  BY <1>6, <1>8

\* A write through the entry of the site, or by name.
LEMMA PlainStep ==
  ASSUME IInv, native = NoCall, NEW s \in world.sites, NEW i \in DOMAIN heap, NEW v,
         StoreFieldHit(s, i, v) \/ StoreByName(s, i, v), s.op \in {"store", "istore"},
         ~IsCallable(findSetattrHook(heap[i].klass, s.name)),
         s.op = "istore" => ~behaviors(heap[i].klass),
         around \subseteq around', i \in around' \/ ~behaviors(heap[i].klass),
         world' = world, classes' = classes, snap' = snap, native' = native, foreign' = foreign,
         since' = since, db' = db
  PROVE  IInv' /\ AccessesAnswerRight'
<1> DEFINE o == heap[i]
           c == o.klass
           h == HiddenFrom(s.fn, c, s.name)
<1>1. /\ Lineage /\ Tables /\ c \in DOMAIN classes /\ IsObject(o)
  BY Known
<1>2. ExpectedWrite(s, i, v) = IF h THEN Answer("hidden", Nil) ELSE Answer("stored", Nil)
  <2>1. ~IsCallable(HookOf(c, "__setattr__", s.name))
    BY <1>1, Hooks
  <2>2. ~(s.op = "istore" /\ s.name \in DOMAIN world.models[c].rules)
    <3>1. ~behaviors(c) => world.models[c].rules = NoFields
      BY <1>1, Declared DEF behaviors
    <3>2. DOMAIN NoFields = {}
      BY DEF NoFields
    <3> QED
      BY <3>1, <3>2
  <2> QED
    BY <2>1, <2>2 DEF ExpectedWrite
<1>3. AllEntries(ic)
  BY Unpacked
<1>4. CASE StoreFieldHit(s, i, v)
  <2> DEFINE k == ic[s].offset
             p == [o EXCEPT !.values[k] = v]
             a == Answer("stored", Nil)
  <2>1. /\ ShapeHit(s, o) /\ heap' = [heap EXCEPT ![i].values[k] = v]
        /\ Told(i, s.name, v) /\ ic' = ic /\ last' = Access(s, i, v, a)
    BY <1>4 DEF StoreFieldHit
  <2>2. k \in DOMAIN o.shape.names /\ o.shape.names[k] = s.name /\ ~h
    BY <2>1, ShapeHits
  <2>3. heap' = [heap EXCEPT ![i] = p]
    BY <2>1
  <2>4. IsWrite(o, s.name, v, p)
    BY <1>1, <2>2, WriteInPlace
  <2>5. a = ExpectedWrite(s, i, v)
    BY <1>2, <2>2
  <2> HIDE DEF p, k, a
  <2>6. heap'[i].klass = heap[i].klass
    BY <2>3, <2>4 DEF IsWrite
  <2>7. AccessesAnswerRight'
    BY <2>1, <2>5, <2>6, WriteRight
  <2> QED
    BY <1>3, <2>1, <2>3, <2>4, <2>7, AroundStep
<1>5. CASE StoreByName(s, i, v)
  <2> DEFINE p == setProperty(o, s.name, v)
             a == Answer(IF h THEN "hidden" ELSE "stored", Nil)
  <2>1. IsWrite(o, s.name, v, p)
    BY <1>1, SetProperty
  <2>2. MayUse(s.fn, p.klass, s.name) <=> ~h
    <3>1. p.klass = c
      BY <2>1 DEF IsWrite
    <3>2. MayUse(s.fn, c, s.name) <=> ~h
      BY <1>1, Visibility
    <3> QED
      BY <3>1, <3>2
  <2>3. /\ heap' = IF h THEN heap ELSE [heap EXCEPT ![i] = p]
        /\ ic' = IF h THEN ic ELSE CacheShape(s, p, s.name)
        /\ IF h THEN told' = told ELSE Told(i, s.name, v)
        /\ last' = Access(s, i, v, a)
    BY <1>5, <2>2 DEF StoreByName
  <2>4. a = ExpectedWrite(s, i, v)
    BY <1>2
  <2>5. ~h => AllEntries(CacheShape(s, p, s.name))
    <3>1. IsObject(p) /\ p.klass = c /\ hasProperty(p, s.name)
      BY <2>1 DEF IsWrite, hasProperty
    <3> HIDE DEF p
    <3> QED
      BY <1>1, <3>1, EntryFilled
  <2>6. AllEntries(ic')
    BY <1>3, <2>3, <2>5
  <2> HIDE DEF p, a
  <2>7. heap'[i].klass = heap[i].klass
    BY <2>1, <2>3 DEF IsWrite
  <2>8. AccessesAnswerRight'
    BY <2>3, <2>4, <2>7, WriteRight
  <2>9. h => IInv'
    BY <2>3, <2>6, QuietStep
  <2>10. ~h => IInv'
    BY <2>1, <2>3, <2>6, AroundStep
  <2> QED
    BY <2>8, <2>9, <2>10
<1> QED
  BY <1>4, <1>5

\* [.., obj.name] = ..
LEMMA StoreStep ==
  ASSUME IInv, native = NoCall, NEW s \in world.sites, NEW i \in DOMAIN heap, NEW v,
         StoreProperty(s, i, v)
  PROVE  IInv' /\ AccessesAnswerRight'
<1>1. /\ s.op = "store"
      /\ world' = world /\ classes' = classes /\ snap' = snap /\ native' = native
      /\ foreign' = foreign /\ since' = since
  BY DEF StoreProperty
<1>2. CASE RunSetattrHook(s, i, v)
  BY <1>1, <1>2, HookStep
<1>3. CASE /\ ~IsCallable(findSetattrHook(heap[i].klass, s.name))
           /\ StoreFieldHit(s, i, v) \/ StoreByName(s, i, v)
           /\ around' = IF behaviors(heap[i].klass) THEN around \cup {i} ELSE around
           /\ UNCHANGED db
  <2>1. around \subseteq around' /\ (i \in around' \/ ~behaviors(heap[i].klass))
    BY <1>3
  <2> QED
    BY <1>1, <1>3, <2>1, PlainStep
<1> QED
  BY <1>2, <1>3 DEF StoreProperty

\* setattr(obj, name, v)
LEMMA SetattrStep ==
  ASSUME IInv, native = NoCall, NEW i \in DOMAIN heap, NEW x, NEW v, Setattr(i, x, v)
  PROVE  IInv' /\ AccessesAnswerRight'
<1> DEFINE p == setProperty(heap[i], x, v)
<1>1. /\ world' = world /\ classes' = classes /\ snap' = snap /\ native' = native
      /\ foreign' = foreign /\ since' = since /\ db' = db /\ ic' = ic
      /\ heap' = [heap EXCEPT ![i] = p] /\ Told(i, x, v) /\ around' = around \cup {i}
      /\ last' = Quiet
  BY DEF Setattr
<1>2. IsWrite(heap[i], x, v, p)
  BY Known, SetProperty
<1>3. AllEntries(ic')
  BY <1>1, Unpacked
<1>4. last'.op = "none"
  BY <1>1 DEF Quiet
<1> HIDE DEF p
<1>5. around \subseteq around' /\ i \in around'
  BY <1>1
<1>6. IInv'
  BY <1>1, <1>2, <1>3, <1>5, AroundStep
<1> QED
  BY <1>4, <1>6, Silent

\* A write that is intercepted: logged, invalidating, and meeting the rules.
LEMMA LoggedStep ==
  ASSUME IInv, native = NoCall, NEW i \in DOMAIN heap, NEW x, NEW v, NEW via, NEW p,
         IsObject(p), p.klass = heap[i].klass,
         getPropertiesCopy(p) = With(getPropertiesCopy(heap[i]), x, v),
         p.audit = Extended(heap[i], x, v, via),
         Booked(p, With(told[i], x, v)),
         Fresh(heap[i], told[i]) => Fresh(p, With(told[i], x, v)),
         Validates(heap[i].klass, x, v),
         world' = world, classes' = classes, snap' = snap, native' = native, foreign' = foreign,
         since' = since, around' = around, ic' = ic,
         heap' = [heap EXCEPT ![i] = p], Told(i, x, v), db' = Persisted(heap[i].klass, x, v)
  PROVE  IInv'
<1> DEFINE o == heap[i]
           t == told[i]
           s == since[i]
           u == With(t, x, v)
<1>1. /\ Lineage /\ Tables /\ Rows(db) /\ Holding(heap, told, since, around, foreign)
      /\ AllEntries(ic)
  BY Unpacked
<1>2. /\ o.klass \in DOMAIN classes /\ Sound(o, t, s) /\ Booked(o, t)
  BY Known
<1>3. i \in DOMAIN told /\ i \in DOMAIN since
  BY <1>1 DEF Holding
<1>4. /\ i \notin around => Accounted(o, t, s) /\ Fresh(o, t)
      /\ i \notin around \cup foreign => Meets(t, o.klass)
  BY <1>1 DEF Holding
<1>5. x \in DOMAIN world.models[o.klass].rules => v \in world.models[o.klass].rules[x]
  BY <1>1, <1>2, Declared DEF Validates
<1>6. Rows(db')
  BY <1>1, <1>2, <1>5, RowsAfter
<1>7. p.klass = o.klass /\ p.audit = Extended(o, x, v, via) /\ (Fresh(o, t) => Fresh(p, u))
      /\ Booked(p, u)
  OBVIOUS
<1>8. getPropertiesCopy(p) = u
  BY <1>2 DEF Sound
<1> HIDE DEF o, t, s
<1>9. Sound(p, u, s)
  BY <1>2, <1>8, ToldOne DEF Sound
<1>10. /\ Changed(heap, heap', i, p) /\ Changed(told, told', i, u) /\ Changed(since, since', i, s)
  BY <1>3, ChangedIs DEF Told, s, t
<1>11. i \notin around => Accounted(p, u, s) /\ Fresh(p, u)
  BY <1>1, <1>2, <1>4, <1>7, AccountedAfter
<1>12. i \notin around \cup foreign => Meets(u, p.klass)
  BY <1>4, <1>5, <1>7, MeetsAfter DEF Permitted, Accepted
<1>13. AllEntries(ic')
  BY <1>1
<1> HIDE DEF u
<1> QED
  BY <1>6, <1>7, <1>9, <1>10, <1>11, <1>12, <1>13, PutStep DEF o

\* obj.name = v
LEMMA InterceptedStep ==
  ASSUME IInv, native = NoCall, NEW s \in world.sites, NEW i \in DOMAIN heap, NEW v,
         InterceptedStoreProperty(s, i, v)
  PROVE  IInv' /\ AccessesAnswerRight'
<1> DEFINE o == heap[i]
           c == o.klass
           h == HiddenFrom(s.fn, c, s.name)
<1>1. /\ s.op = "istore"
      /\ world' = world /\ classes' = classes /\ snap' = snap /\ native' = native
      /\ foreign' = foreign /\ since' = since
  BY DEF InterceptedStoreProperty
<1>2. /\ Lineage /\ Tables /\ c \in DOMAIN classes /\ IsObject(o) /\ Booked(o, told[i])
      /\ Sound(o, told[i], since[i])
      /\ MayUse(s.fn, c, s.name) <=> ~h
  BY Known, Visibility
<1>3. CASE RunSetattrHook(s, i, v)
  BY <1>1, <1>3, HookStep
<1>4. CASE StorePlain(s, i, v)
  <2>1. /\ ~behaviors(c) /\ ~IsCallable(findSetattrHook(c, s.name))
        /\ around' = around /\ db' = db
    BY <1>4 DEF StorePlain
  <2>2. CASE ~h
    <3>1. StoreFieldHit(s, i, v) \/ StoreByName(s, i, v)
      BY <1>2, <1>4, <2>2 DEF StorePlain
    <3> QED
      BY <1>1, <2>1, <3>1, PlainStep
  <2>3. CASE h
    <3> DEFINE a == Answer("hidden", Nil)
    <3>1. last' = Access(s, i, v, a) /\ heap' = heap /\ ic' = ic /\ told' = told
      BY <1>2, <1>4, <2>3 DEF StorePlain
    <3>2. ~IsCallable(HookOf(c, "__setattr__", s.name))
      BY <1>2, <2>1, Hooks
    <3>3. world.models[c].rules = NoFields /\ DOMAIN NoFields = {}
      BY <1>2, <2>1, Declared DEF behaviors, NoFields
    <3>4. a = ExpectedWrite(s, i, v)
      BY <2>3, <3>2, <3>3 DEF ExpectedWrite
    <3> HIDE DEF a
    <3>5. AccessesAnswerRight'
      BY <1>1, <3>1, <3>4, WriteRight
    <3>6. AllEntries(ic')
      BY <3>1, Unpacked
    <3> QED
      BY <1>1, <2>1, <3>1, <3>5, <3>6, QuietStep
  <2> QED
    BY <2>2, <2>3
<1>5. CASE StoreWithBehaviors(s, i, v)
  <2> DEFINE tag == IF ~Validates(c, s.name, v) THEN "invalid"
                    ELSE IF h THEN "hidden"
                    ELSE "stored"
             a == Answer(tag, Nil)
             p == Assigned(o, s.name, v, s.fn, {})
             u == With(told[i], s.name, v)
  <2>1. /\ ~IsCallable(findSetattrHook(c, s.name))
        /\ last' = Access(s, i, v, a)
        /\ IF tag = "stored"
           THEN heap' = [heap EXCEPT ![i] = p] /\ db' = Persisted(c, s.name, v) /\ Told(i, s.name, v)
           ELSE heap' = heap /\ db' = db /\ told' = told
        /\ ic' = ic /\ around' = around
    BY <1>2, <1>5 DEF StoreWithBehaviors
  <2>2. a = ExpectedWrite(s, i, v)
    <3>1. ~IsCallable(HookOf(c, "__setattr__", s.name))
      BY <1>2, <2>1, Hooks
    <3>2. Validates(c, s.name, v) <=>
            (s.name \in DOMAIN world.models[c].rules => v \in world.models[c].rules[s.name])
      BY <1>2, Declared DEF Validates
    <3> QED
      BY <1>1, <3>1, <3>2 DEF ExpectedWrite
  <2> HIDE DEF a
  <2>3. CASE tag = "stored"
    <3>1. Validates(c, s.name, v)
      BY <2>3
    <3>2. heap' = [heap EXCEPT ![i] = p] /\ db' = Persisted(c, s.name, v) /\ Told(i, s.name, v)
      BY <2>1, <2>3
    <3>3. /\ IsObject(p) /\ p.klass = c
          /\ getPropertiesCopy(p) = With(getPropertiesCopy(o), s.name, v)
          /\ p.audit = Extended(o, s.name, v, s.fn)
          /\ p.cache = Spared(o, {})
      BY <1>2, AssignedIs
    <3> HIDE DEF p, tag
    <3>4. Booked(p, u)
      BY <1>2, <3>3, BookedAfter
    <3>5. Fresh(o, told[i]) => Fresh(p, u)
      BY <1>2, <3>3, FreshAfter
    <3>6. IInv'
      BY <1>1, <2>1, <3>1, <3>2, <3>3, <3>4, <3>5, LoggedStep
    <3>7. heap'[i].klass = heap[i].klass
      BY <3>2, <3>3
    <3>8. AccessesAnswerRight'
      BY <1>1, <2>1, <2>2, <3>7, WriteRight
    <3> QED
      BY <3>6, <3>8
  <2>4. CASE tag # "stored"
    <3>1. heap' = heap /\ db' = db /\ told' = told
      BY <2>1, <2>4
    <3> HIDE DEF tag
    <3>2. AccessesAnswerRight'
      BY <1>1, <2>1, <2>2, <3>1, WriteRight
    <3>3. AllEntries(ic')
      BY <2>1, Unpacked
    <3>4. IInv'
      BY <1>1, <2>1, <3>1, <3>3, QuietStep
    <3> QED
      BY <3>2, <3>4
  <2> QED
    BY <2>3, <2>4
<1> QED
  BY <1>3, <1>4, <1>5 DEF InterceptedStoreProperty

\* A call of a cached task.
LEMMA CallStep ==
  ASSUME IInv, native = NoCall, NEW i \in DOMAIN heap, NEW t, NEW arg, CallCached(i, t, arg)
  PROVE  IInv' /\ AccessesAnswerRight'
<1> DEFINE o == heap[i]
           c == o.klass
           body == Body(c, t)
           x == Filled(body, arg)
           name == body.writes
           result == <<getProperty(o, body.reads), x>>
           entry == [result |-> result, dirty |-> FALSE]
           u == With(told[i], name, x)
<1>1. /\ IsCached(c, t)
      /\ world' = world /\ classes' = classes /\ snap' = snap /\ native' = native
      /\ foreign' = foreign /\ since' = since /\ ic' = ic
      /\ last'.op = "cached"
  BY DEF CallCached
<1>2. /\ Lineage /\ Tables /\ c \in DOMAIN classes /\ IsObject(o) /\ Booked(o, told[i])
      /\ Sound(o, told[i], since[i]) /\ told[i] = getPropertiesCopy(o)
  BY Known
<1>3. Holding(heap, told, since, around, foreign) /\ Rows(db) /\ AllEntries(ic')
  BY <1>1, Unpacked
<1>4. i \in DOMAIN told /\ i \in DOMAIN since
  BY <1>3 DEF Holding
<1>5. result = <<ValueIn(told[i], c, body.reads), x>> /\ body.writes # body.reads
  BY <1>1, <1>2, ReadsAs, CachedTask
<1>6. /\ i \notin around => Accounted(o, told[i], since[i]) /\ Fresh(o, told[i])
      /\ i \notin around \cup foreign => Meets(told[i], c)
  BY <1>3 DEF Holding
<1>7. AccessesAnswerRight'
  BY <1>1, Silent
<1>8. ASSUME heap' = heap, told' = told, around' = around, db' = db PROVE IInv'
  BY <1>1, <1>3, <1>8, QuietStep
<1>9. ASSUME heap' = [heap EXCEPT ![i] = StoreCachedResult(o, t, x, result)],
             told' = told, around' = around, db' = db
      PROVE  IInv'
  <2> DEFINE p == StoreCachedResult(o, t, x, result)
  <2>1. /\ IsObject(p) /\ p.klass = o.klass /\ p.audit = o.audit
        /\ getPropertiesCopy(p) = getPropertiesCopy(o)
        /\ p.cache = With(o.cache, CacheKey(t, x), entry)
    BY <1>2, ResultStored
  <2> HIDE DEF p, x
  <2>2. Booked(p, told[i])
    BY <1>1, <1>2, <2>1, BooksStored
  <2>3. Fresh(o, told[i]) => Fresh(p, told[i])
    BY <1>5, <2>1, FreshStored
  <2>4. Accounted(o, told[i], since[i]) => Accounted(p, told[i], since[i])
    BY <2>1 DEF Accounted
  <2>5. Sound(p, told[i], since[i])
    BY <1>2, <2>1 DEF Sound
  <2>6. heap' = [heap EXCEPT ![i] = p]
    BY <1>9 DEF p, x
  <2>7. Changed(heap, heap', i, p) /\ Changed(told, told', i, told[i])
        /\ Changed(since, since', i, since[i])
    BY <1>1, <1>4, <1>9, <2>6, ChangedIs
  <2>8. i \notin around' => Accounted(p, told[i], since[i]) /\ Fresh(p, told[i])
    BY <1>6, <1>9, <2>3, <2>4
  <2>9. i \notin around' \cup foreign => Meets(told[i], p.klass)
    BY <1>6, <1>9, <2>1
  <2>10. around \subseteq around' /\ Rows(db')
    BY <1>3, <1>9
  <2> QED
    BY <1>1, <1>3, <2>1, <2>2, <2>5, <2>7, <2>8, <2>9, <2>10, PutStep
<1>10. ASSUME heap' = [heap EXCEPT ![i] = StoreCachedResult(setProperty(o, name, x), t, x, result)],
              Told(i, name, x), around' = around \cup {i}, db' = db
       PROVE  IInv'
  <2> DEFINE q == setProperty(o, name, x)
             p == StoreCachedResult(q, t, x, result)
  <2>1. IsWrite(o, name, x, q)
    BY <1>2, SetProperty
  <2>2. IsObject(q) /\ q.klass = c /\ q.audit = o.audit /\ q.cache = o.cache
        /\ getPropertiesCopy(q) = u
    BY <1>2, <2>1 DEF IsWrite
  <2> HIDE DEF q, u
  <2>3. /\ IsObject(p) /\ p.klass = q.klass /\ p.audit = q.audit
        /\ getPropertiesCopy(p) = getPropertiesCopy(q)
        /\ p.cache = With(q.cache, CacheKey(t, x), entry)
    BY <2>2, ResultStored
  <2>4. Booked(q, u)
    BY <1>2, <2>2, BookedAfter DEF u
  <2> HIDE DEF p
  <2>5. Booked(p, u)
    BY <1>1, <2>2, <2>3, <2>4, BooksStored
  <2>6. Sound(p, u, since[i])
    BY <1>2, <2>2, <2>3, ToldOne DEF Sound, u
  <2>7. heap' = [heap EXCEPT ![i] = p]
    BY <1>10 DEF p, q
  <2>8. Changed(heap, heap', i, p) /\ Changed(told, told', i, u) /\ Changed(since, since', i, since[i])
    BY <1>1, <1>4, <1>10, <2>7, ChangedIs DEF Told, u
  <2>9. i \in around' /\ around \subseteq around' /\ Rows(db')
    BY <1>3, <1>10
  <2>10. p.klass = heap[i].klass
    BY <2>2, <2>3
  <2> QED
    BY <1>1, <1>3, <2>5, <2>6, <2>8, <2>9, <2>10, PutStep
<1>11. ASSUME Validates(c, name, x),
              heap' = [heap EXCEPT ![i] =
                         StoreCachedResult(Assigned(o, name, x, t, {t}), t, x, result)],
              Told(i, name, x), db' = Persisted(c, name, x), around' = around
       PROVE  IInv'
  <2> DEFINE q == Assigned(o, name, x, t, {t})
             p == StoreCachedResult(q, t, x, result)
  <2>1. /\ IsObject(q) /\ q.klass = c
        /\ getPropertiesCopy(q) = With(getPropertiesCopy(o), name, x)
        /\ q.audit = Extended(o, name, x, t)
        /\ q.cache = Spared(o, {t})
    BY <1>2, AssignedIs
  <2> HIDE DEF q
  <2>2. /\ IsObject(p) /\ p.klass = q.klass /\ p.audit = q.audit
        /\ getPropertiesCopy(p) = getPropertiesCopy(q)
        /\ p.cache = With(q.cache, CacheKey(t, x), entry)
    BY <2>1, ResultStored
  <2> HIDE DEF p
  <2>3. Booked(q, u)
    BY <1>2, <2>1, BookedAfter
  <2>4. Fresh(o, told[i]) => Fresh(q, u)
    BY <1>2, <2>1, FreshAfter
  <2>5. result = <<ValueIn(u, q.klass, body.reads), x>>
    BY <1>5, <2>1, ToldOne
  <2> HIDE DEF u
  <2>6. Booked(p, u)
    BY <1>1, <2>1, <2>2, <2>3, BooksStored
  <2>7. Fresh(q, u) => Fresh(p, u)
    BY <2>1, <2>2, <2>5, FreshStored
  <2>8. heap' = [heap EXCEPT ![i] = p]
    BY <1>11 DEF p, q
  <2>9. /\ IsObject(p) /\ p.klass = heap[i].klass /\ p.audit = Extended(heap[i], name, x, t)
        /\ getPropertiesCopy(p) = With(getPropertiesCopy(heap[i]), name, x)
    BY <2>1, <2>2
  <2> QED
    BY <1>1, <1>11, <2>4, <2>6, <2>7, <2>8, <2>9, LoggedStep DEF u
<1>12. CASE UNCHANGED <<heap, told, around, db>>
  BY <1>7, <1>8, <1>12
<1>13. CASE /\ heap' = [heap EXCEPT ![i] = StoreCachedResult(o, t, x, result)]
            /\ UNCHANGED <<told, around, db>>
  BY <1>7, <1>9, <1>13
<1>14. CASE KeepBooks(i, t, body.writes, x, result)
  <2> HIDE DEF x, body, result
  <2>1. \/ /\ heap' = [heap EXCEPT ![i] = StoreCachedResult(setProperty(o, name, x), t, x, result)]
           /\ Told(i, name, x) /\ around' = around \cup {i} /\ db' = db
        \/ heap' = heap /\ told' = told /\ around' = around /\ db' = db
        \/ /\ Validates(c, name, x)
           /\ heap' = [heap EXCEPT ![i] =
                         StoreCachedResult(Assigned(o, name, x, t, {t}), t, x, result)]
           /\ Told(i, name, x) /\ db' = Persisted(c, name, x) /\ around' = around
    BY <1>14 DEF KeepBooks
  <2> QED
    BY <1>7, <1>8, <1>10, <1>11, <2>1
<1> QED
  BY <1>12, <1>13, <1>14 DEF CallCached

-----------------------------------------------------------------------------
(* New instances, and the native calls that run in steps.                  *)

\* An instance that is added has no properties yet.
LEMMA Added ==
  ASSUME IInv, NEW i, i \notin DOMAIN heap, NEW c \in DOMAIN classes
  PROVE  Holding(With(heap, i, NewObject(c)), With(told, i, NoFields), With(since, i, NoFields),
                 around, foreign)
<1> DEFINE h == With(heap, i, NewObject(c))
           t == With(told, i, NoFields)
           s == With(since, i, NoFields)
           o == NewObject(c)
<1>1. Holding(heap, told, since, around, foreign)
  BY Unpacked
<1>2. /\ IsObject(o) /\ getPropertiesCopy(o) = NoFields /\ o.klass = c /\ o.audit = <<>>
      /\ DOMAIN o.cache = {}
  BY NewInstanceIs
<1>3. DOMAIN NoFields = {}
  BY DEF NoFields
<1> HIDE DEF o
<1>4. Sound(o, NoFields, NoFields) /\ Booked(o, NoFields)
  BY <1>2, <1>3, NoneYet DEF Sound, Booked
<1>5. Accounted(o, NoFields, NoFields) /\ Fresh(o, NoFields) /\ Meets(NoFields, c)
  BY <1>2, <1>3 DEF Accounted, Fresh, Meets
<1>6. h[i] = o /\ t[i] = NoFields /\ s[i] = NoFields
  BY ToldOne DEF o
<1>7. \A j : /\ j \in DOMAIN h <=> j \in DOMAIN heap \/ j = i
             /\ j \in DOMAIN t <=> j \in DOMAIN heap \/ j = i
             /\ j \in DOMAIN s <=> j \in DOMAIN heap \/ j = i
  BY <1>1, ToldOne DEF Holding
<1>8. \A j \in DOMAIN heap : h[j] = heap[j] /\ t[j] = told[j] /\ s[j] = since[j]
  BY <1>1, ToldOne DEF Holding
<1> HIDE DEF h, t, s
<1>9. DOMAIN t = DOMAIN h /\ DOMAIN s = DOMAIN h
  BY <1>7
<1>10. \A j \in DOMAIN h : h[j].klass \in DOMAIN classes /\ Sound(h[j], t[j], s[j]) /\ Booked(h[j], t[j])
  BY <1>1, <1>2, <1>4, <1>6, <1>7, <1>8 DEF Holding
<1>11. \A j \in DOMAIN h \ around : Accounted(h[j], t[j], s[j]) /\ Fresh(h[j], t[j])
  BY <1>1, <1>5, <1>6, <1>7, <1>8 DEF Holding
<1>12. \A j \in DOMAIN h \ (around \cup foreign) : Meets(t[j], h[j].klass)
  <2> SUFFICES ASSUME NEW j \in DOMAIN h, j \notin around, j \notin foreign
               PROVE  Meets(t[j], h[j].klass)
    OBVIOUS
  <2>1. CASE j = i
    BY <1>2, <1>5, <1>6, <2>1
  <2>2. CASE j # i
    <3>1. j \in DOMAIN heap \ (around \cup foreign)
      BY <1>7, <2>2
    <3> QED
      BY <1>1, <1>8, <3>1 DEF Holding
  <2> QED
    BY <2>1, <2>2
<1>13. Holding(h, t, s, around, foreign)
  BY <1>9, <1>10, <1>11, <1>12 DEF Holding
<1> QED
  BY <1>13 DEF h, t, s

\* A snapshot stays good when instances are added.
LEMMA SnapshotStays ==
  ASSUME IInv, NEW h, \A j \in DOMAIN heap : j \in DOMAIN h /\ h[j].klass = heap[j].klass,
         NEW a, around \subseteq a, NEW f, foreign \subseteq f, NEW d
  PROVE  Copied(snap, NoCall, h, a, f, d)
<1>1. Copied(snap, native, heap, around, foreign, db)
  BY Unpacked
<1> QED
  BY <1>1 DEF Copied

\* instantiate()
LEMMA NewStep ==
  ASSUME IInv, native = NoCall, NEW i, NEW c, NewInstance(i, c)
  PROVE  IInv' /\ AccessesAnswerRight'
<1>1. /\ i \notin DOMAIN heap /\ c \in DOMAIN classes
      /\ heap' = With(heap, i, NewObject(c)) /\ told' = With(told, i, NoFields)
      /\ since' = With(since, i, NoFields) /\ last'.op = "new"
      /\ world' = world /\ classes' = classes /\ ic' = ic /\ db' = db /\ snap' = snap
      /\ native' = native /\ around' = around /\ foreign' = foreign
  BY DEF NewInstance
<1>2. Lineage' /\ Tables' /\ DOMAIN classes \subseteq DOMAIN classes'
  BY <1>1, Unpacked, SameClasses
<1>3. Holding(heap', told', since', around', foreign')
  BY <1>1, Added
<1>4. \A j \in DOMAIN heap : j \in DOMAIN heap' /\ heap'[j].klass = heap[j].klass
  BY <1>1, ToldOne
<1>5. Copied(snap', native', heap', around', foreign', db')
  BY <1>1, <1>4, SnapshotStays
<1>6. Rows(db') /\ AllEntries(ic')
  BY <1>1, Unpacked
<1>7. IInv'
  BY <1>1, <1>2, <1>3, <1>5, <1>6, Packed
<1> QED
  BY <1>1, <1>7, Silent

\* load(): the instance, and the rows it has still to set.
LEMMA LoadPersistedStep ==
  ASSUME IInv, native = NoCall, NEW i, NEW c, LoadPersisted(i, c)
  PROVE  IInv' /\ AccessesAnswerRight'
<1> DEFINE rows == [x \in DOMAIN db |-> Parsed(db[x])]
<1>1. /\ i \notin DOMAIN heap /\ c \in DOMAIN classes /\ classes[c].persist
      /\ heap' = With(heap, i, NewObject(c)) /\ told' = With(told, i, NoFields)
      /\ since' = With(since, i, NoFields) /\ last'.op = "new"
      /\ world' = world /\ classes' = classes /\ ic' = ic /\ db' = db /\ snap' = snap
      /\ native' = Native("load", i, rows) /\ around' = around /\ foreign' = foreign
  BY DEF LoadPersisted
<1>2. Lineage' /\ Tables' /\ DOMAIN classes \subseteq DOMAIN classes'
  BY <1>1, Unpacked, SameClasses
<1>3. Holding(heap', told', since', around', foreign')
  BY <1>1, Added
<1>4. /\ \A j \in DOMAIN heap : j \in DOMAIN heap' /\ heap'[j].klass = heap[j].klass
      /\ i \in DOMAIN heap' /\ heap'[i] = NewObject(c)
  BY <1>1, ToldOne
<1>5. /\ heap'[i].klass = c /\ heap'[i].audit = <<>> /\ DOMAIN heap'[i].cache = {}
  BY <1>4, NewInstanceIs
<1>6. world.models[c].persist
  BY <1>1, Unpacked, Declared
<1>7. Copied(snap', NoCall, heap', around', foreign', db')
  BY <1>1, <1>4, SnapshotStays
<1>8. DOMAIN rows = DOMAIN db /\ \A x \in DOMAIN db : rows[x] = Parsed(db[x])
  OBVIOUS
<1> HIDE DEF rows
<1>9. native' # NoCall => native' = [call |-> "load", id |-> i, left |-> rows]
  BY <1>1 DEF Native
<1>10. native' # NoCall => native'.call = "load" /\ native'.id = i /\ native'.left = rows
  BY <1>9
<1>11. Copied(snap', native', heap', around', foreign', db')
  BY <1>1, <1>4, <1>5, <1>6, <1>7, <1>8, <1>10 DEF Copied
<1>12. Rows(db') /\ AllEntries(ic')
  BY <1>1, Unpacked
<1>13. IInv'
  BY <1>1, <1>2, <1>3, <1>11, <1>12, Packed
<1> QED
  BY <1>1, <1>13, Silent

\* What a native call has still to set, once x is set.
LEMMA Remaining ==
  ASSUME NEW call, NEW i, NEW x, NEW na, na = Native(call, i, LeftBut(x)), na # NoCall
  PROVE  /\ na.call = call /\ na.id = i /\ na.left = LeftBut(x)
         /\ \A y \in DOMAIN na.left : y \in DOMAIN native.left /\ na.left[y] = native.left[y]
<1>1. na = [call |-> call, id |-> i, left |-> LeftBut(x)]
  BY DEF Native
<1>2. na.call = call /\ na.id = i /\ na.left = LeftBut(x)
  BY <1>1
<1>3. \A y \in DOMAIN LeftBut(x) : y \in DOMAIN native.left /\ LeftBut(x)[y] = native.left[y]
  BY DEF LeftBut, Restrict
<1> QED
  BY <1>2, <1>3

\* rollback(): a property of the snapshot.
LEMMA RestoreStep ==
  ASSUME IInv, NEW x \in DOMAIN native.left, RestoreProperty(x)
  PROVE  IInv' /\ AccessesAnswerRight'
<1> DEFINE i == native.id
           v == native.left[x]
           o == heap[i]
           t == told[i]
           u == With(t, x, v)
           p == Assigned(o, x, v, "rollback", {})
<1>1. /\ native.call = "rollback" /\ heap' = [heap EXCEPT ![i] = p] /\ Told(i, x, v)
      /\ native' = Native("rollback", i, LeftBut(x)) /\ last'.op = "none"
      /\ world' = world /\ classes' = classes /\ ic' = ic /\ db' = db /\ snap' = snap
      /\ since' = since /\ around' = around /\ foreign' = foreign
  BY DEF RestoreProperty, Quiet
<1>2. /\ Lineage /\ Tables /\ Holding(heap, told, since, around, foreign) /\ Rows(db)
      /\ AllEntries(ic) /\ Copied(snap, native, heap, around, foreign, db)
  BY Unpacked
<1>3. native # NoCall
  BY <1>1 DEF NoCall, None
<1>4. i \in DOMAIN heap /\ (i \notin around \cup foreign => Meets(native.left, heap[i].klass))
  BY <1>1, <1>2, <1>3 DEF Copied
<1>5. /\ o.klass \in DOMAIN classes /\ Sound(o, t, since[i]) /\ IsObject(o) /\ Booked(o, t)
      /\ i \in DOMAIN told /\ i \in DOMAIN since
      /\ i \notin around => Accounted(o, t, since[i]) /\ Fresh(o, t)
      /\ i \notin around \cup foreign => Meets(t, o.klass)
  BY <1>2, <1>4 DEF Holding, Sound
<1>6. /\ IsObject(p) /\ p.klass = o.klass
      /\ getPropertiesCopy(p) = With(getPropertiesCopy(o), x, v)
      /\ p.audit = Extended(o, x, v, "rollback") /\ p.cache = Spared(o, {})
  BY <1>5, AssignedIs
<1>7. i \notin around \cup foreign =>
        (x \in DOMAIN world.models[o.klass].rules => Permitted(o.klass, x, v))
  BY <1>4 DEF Meets
<1> HIDE DEF p, v
<1>8. Sound(p, u, since[i]) /\ Booked(p, u)
  <2>1. Booked(p, u)
    BY <1>5, <1>6, BookedAfter
  <2>2. getPropertiesCopy(p) = u
    BY <1>5, <1>6 DEF Sound
  <2>3. Sound(p, u, since[i])
    BY <1>5, <1>6, <2>2, ToldOne DEF Sound
  <2> QED
    BY <2>1, <2>3
<1>9. i \notin around => Accounted(p, u, since[i]) /\ Fresh(p, u)
  BY <1>2, <1>5, <1>6, AccountedAfter, FreshAfter
<1>10. i \notin around \cup foreign => Meets(u, p.klass)
  BY <1>5, <1>6, <1>7, MeetsAfter
<1>11. /\ Changed(heap, heap', i, p) /\ Changed(told, told', i, u) /\ Changed(since, since', i, since[i])
  BY <1>1, <1>4, <1>5, ChangedIs DEF Told, v
<1> HIDE DEF u
<1>12. Holding(heap', told', since', around', foreign')
  BY <1>1, <1>2, <1>4, <1>6, <1>8, <1>9, <1>10, <1>11, Put
<1>13. \A j \in DOMAIN heap : j \in DOMAIN heap' /\ heap'[j].klass = heap[j].klass
  BY <1>6, <1>11 DEF Changed
<1>14. Copied(snap', NoCall, heap', around', foreign', db')
  BY <1>1, <1>13, SnapshotStays
<1>15. native' # NoCall => /\ native'.call = "rollback" /\ native'.id = i
                           /\ i \notin around \cup foreign => Meets(native'.left, o.klass)
  <2> SUFFICES ASSUME native' # NoCall
               PROVE  /\ native'.call = "rollback" /\ native'.id = i
                      /\ i \notin around \cup foreign => Meets(native'.left, o.klass)
    OBVIOUS
  <2>1. /\ native'.call = "rollback" /\ native'.id = i
        /\ \A y \in DOMAIN native'.left : y \in DOMAIN native.left /\ native'.left[y] = native.left[y]
    BY <1>1, Remaining
  <2> QED
    BY <1>4, <2>1 DEF Meets
<1>16. Copied(snap', native', heap', around', foreign', db')
  BY <1>1, <1>4, <1>13, <1>14, <1>15 DEF Copied
<1>17. Lineage' /\ Tables' /\ DOMAIN classes \subseteq DOMAIN classes'
  BY <1>1, <1>2, SameClasses
<1>18. IInv'
  BY <1>1, <1>2, <1>12, <1>16, <1>17, Packed
<1> QED
  BY <1>1, <1>18, Silent

\* load(): a property of a row.
LEMMA LoadRowStep ==
  ASSUME IInv, NEW x \in DOMAIN native.left, LoadRow(x)
  PROVE  IInv' /\ AccessesAnswerRight'
<1> DEFINE i == native.id
           v == native.left[x]
           o == heap[i]
           t == told[i]
           s == since[i]
           u == With(t, x, v)
           su == With(s, x, v)
           p == setProperty(o, x, v)
<1>1. /\ native.call = "load" /\ heap' = [heap EXCEPT ![i] = p] /\ Told(i, x, v)
      /\ since' = [since EXCEPT ![i] = su]
      /\ native' = Native("load", i, LeftBut(x)) /\ last'.op = "none"
      /\ world' = world /\ classes' = classes /\ ic' = ic /\ db' = db /\ snap' = snap
      /\ around' = around /\ foreign' = foreign
  BY DEF LoadRow, Quiet
<1>2. /\ Lineage /\ Tables /\ Holding(heap, told, since, around, foreign) /\ Rows(db)
      /\ AllEntries(ic) /\ Copied(snap, native, heap, around, foreign, db)
  BY Unpacked
<1>3. native # NoCall
  BY <1>1 DEF NoCall, None
<1>4. /\ i \in DOMAIN heap /\ world.models[o.klass].persist
      /\ o.audit = <<>> /\ DOMAIN o.cache = {}
      /\ \A y \in DOMAIN native.left : y \in DOMAIN db /\ native.left[y] = Parsed(db[y])
  BY <1>1, <1>2, <1>3 DEF Copied
<1>5. /\ o.klass \in DOMAIN classes /\ Sound(o, t, s) /\ IsObject(o) /\ Booked(o, t)
      /\ i \in DOMAIN told /\ i \in DOMAIN since
      /\ i \notin around => Accounted(o, t, s)
      /\ i \notin around \cup foreign => Meets(t, o.klass)
  BY <1>2, <1>4 DEF Holding, Sound
<1>6. x \in DOMAIN world.models[o.klass].rules => Permitted(o.klass, x, v)
  <2> SUFFICES ASSUME x \in DOMAIN world.models[o.klass].rules
               PROVE  Permitted(o.klass, x, v)
    OBVIOUS
  <2>1. x \in DOMAIN db /\ v = Parsed(db[x])
    BY <1>4
  <2>2. o.klass \in DOMAIN world.models
    BY <1>2, <1>5, Lines
  <2>3. PICK r \in world.models[o.klass].rules[x] : r[2] = db[x]
    BY <1>2, <1>4, <2>1, <2>2 DEF Rows
  <2>4. v = Parsed(r[2])
    BY <2>1, <2>3
  <2> QED
    BY <1>4, <2>4 DEF Permitted
<1>7. IsWrite(o, x, v, p)
  BY <1>5, SetProperty
<1> HIDE DEF p, v
<1>8. /\ IsObject(p) /\ p.klass = o.klass /\ p.audit = <<>> /\ DOMAIN p.cache = {}
      /\ p.audit = o.audit /\ p.cache = o.cache /\ getPropertiesCopy(p) = u
  BY <1>4, <1>5, <1>7 DEF IsWrite, Sound
<1>9. Sound(p, u, su)
  BY <1>5, <1>8, ToldOne DEF Sound
<1>10. Booked(p, u) /\ Fresh(p, u)
  BY <1>8, NoneYet DEF Booked, Fresh
<1>11. i \notin around => Accounted(p, u, su)
  <2> SUFFICES ASSUME i \notin around, world.models[o.klass].audited, NEW y \in DOMAIN u
               PROVE  Leads(p.audit, y, ValueIn(su, o.klass, y), u[y])
    BY <1>8 DEF Accounted
  <2>1. \A b, n : Leads(<<>>, y, b, n) <=> n = b
    <3>1. {k \in DOMAIN <<>> : <<>>[k].field = y} = {}
      BY NoneYet
    <3> QED
      BY <3>1 DEF Leads
  <2>2. CASE y = x
    <3>1. u[y] = v /\ ValueIn(su, o.klass, y) = v
      BY <2>2, ToldOne
    <3> QED
      BY <1>8, <2>1, <3>1
  <2>3. CASE y # x
    <3>1. y \in DOMAIN t /\ u[y] = t[y] /\ ValueIn(su, o.klass, y) = ValueIn(s, o.klass, y)
      BY <2>3, ToldOne
    <3>2. Leads(<<>>, y, ValueIn(s, o.klass, y), t[y])
      BY <1>4, <1>5, <3>1 DEF Accounted
    <3> QED
      BY <1>8, <2>1, <3>1, <3>2
  <2> QED
    BY <2>2, <2>3
<1>12. i \notin around \cup foreign => Meets(u, p.klass)
  BY <1>5, <1>6, <1>8, MeetsAfter
<1>13. /\ Changed(heap, heap', i, p) /\ Changed(told, told', i, u) /\ Changed(since, since', i, su)
  BY <1>1, <1>4, <1>5, ChangedIs DEF Told, v
<1> HIDE DEF u, su
<1>14. Holding(heap', told', since', around', foreign')
  BY <1>1, <1>2, <1>4, <1>8, <1>9, <1>10, <1>11, <1>12, <1>13, Put
<1>15. /\ \A j \in DOMAIN heap : j \in DOMAIN heap' /\ heap'[j].klass = heap[j].klass
       /\ heap'[i] = p
  BY <1>8, <1>13 DEF Changed
<1>16. Copied(snap', NoCall, heap', around', foreign', db')
  BY <1>1, <1>15, SnapshotStays
<1>17. native' # NoCall =>
         /\ native'.call = "load" /\ native'.id = i
         /\ \A y \in DOMAIN native'.left : y \in DOMAIN native.left /\ native'.left[y] = native.left[y]
  BY <1>1, Remaining
<1>18. Copied(snap', native', heap', around', foreign', db')
  BY <1>1, <1>4, <1>8, <1>15, <1>16, <1>17 DEF Copied
<1>19. Lineage' /\ Tables' /\ DOMAIN classes \subseteq DOMAIN classes'
  BY <1>1, <1>2, SameClasses
<1>20. IInv'
  BY <1>1, <1>2, <1>14, <1>18, <1>19, Packed
<1> QED
  BY <1>1, <1>20, Silent

\* audit_clear()
LEMMA ClearStep ==
  ASSUME IInv, native = NoCall, NEW i \in DOMAIN heap, AuditClear(i)
  PROVE  IInv' /\ AccessesAnswerRight'
<1> DEFINE o == heap[i]
           t == told[i]
           p == [o EXCEPT !.audit = <<>>]
<1>1. /\ heap' = [heap EXCEPT ![i].audit = <<>>] /\ since' = [since EXCEPT ![i] = t]
      /\ last'.op = "none"
      /\ world' = world /\ classes' = classes /\ ic' = ic /\ db' = db /\ snap' = snap
      /\ native' = native /\ told' = told /\ around' = around /\ foreign' = foreign
  BY DEF AuditClear, Quiet
<1>2. heap' = [heap EXCEPT ![i] = p]
  BY <1>1
<1>3. /\ IsObject(o) /\ Sound(o, t, since[i]) /\ Booked(o, t)
  BY Known
<1>4. /\ Rows(db) /\ AllEntries(ic) /\ i \in DOMAIN told /\ i \in DOMAIN since
      /\ i \notin around => Fresh(o, t)
      /\ i \notin around \cup foreign => Meets(t, o.klass)
  BY Unpacked DEF Holding
<1>5. p = [klass |-> o.klass, shape |-> o.shape, values |-> o.values, audit |-> <<>>,
           cache |-> o.cache]
  BY <1>3, ObjectFields
<1> HIDE DEF p
<1>6. /\ p.klass = o.klass /\ p.shape = o.shape /\ p.values = o.values /\ p.audit = <<>>
      /\ p.cache = o.cache
  BY <1>5
<1>7. IsObject(p) /\ getPropertiesCopy(p) = getPropertiesCopy(o)
  BY <1>3, <1>5, <1>6, NoneYet DEF IsObject, getPropertiesCopy
<1>8. Sound(p, t, t) /\ Booked(p, t)
  BY <1>3, <1>6, <1>7, NoneYet DEF Sound, Booked
<1>9. Fresh(o, t) => Fresh(p, t)
  BY <1>6 DEF Fresh
<1>10. Accounted(p, t, t)
  <2> SUFFICES ASSUME NEW y \in DOMAIN t PROVE Leads(<<>>, y, ValueIn(t, o.klass, y), t[y])
    BY <1>6 DEF Accounted
  <2>1. {k \in DOMAIN <<>> : <<>>[k].field = y} = {}
    BY NoneYet
  <2> QED
    BY <2>1 DEF Leads, ValueIn
<1>11. /\ Changed(heap, heap', i, p) /\ Changed(told, told', i, t) /\ Changed(since, since', i, t)
  <2>1. Changed(heap, heap', i, p)
    BY <1>2, ChangedIs
  <2>2. Changed(told, told', i, t)
    BY <1>1, <1>4, ChangedIs
  <2>3. Changed(since, since', i, t)
    BY <1>1, <1>4, ChangedIs
  <2> QED
    BY <2>1, <2>2, <2>3
<1>12. IInv'
  <2>1. i \notin around' => Accounted(p, t, t) /\ Fresh(p, t)
    BY <1>1, <1>4, <1>9, <1>10
  <2>2. i \notin around' \cup foreign => Meets(t, p.klass)
    BY <1>1, <1>4, <1>6
  <2>3. p.klass = heap[i].klass /\ around \subseteq around' /\ Rows(db') /\ AllEntries(ic')
    BY <1>1, <1>4, <1>6
  <2> HIDE DEF t
  <2> QED
    BY <1>1, <1>8, <1>11, <2>1, <2>2, <2>3, PutStep
<1> QED
  BY <1>1, <1>12, Silent

\* snapshot()
LEMMA SnapshotStep ==
  ASSUME IInv, native = NoCall, NEW i \in DOMAIN heap, Snapshot(i)
  PROVE  IInv' /\ AccessesAnswerRight'
<1>1. /\ snap' = [props |-> getPropertiesCopy(heap[i]), of |-> i] /\ last'.op = "none"
      /\ world' = world /\ classes' = classes /\ ic' = ic /\ db' = db /\ heap' = heap
      /\ native' = native /\ told' = told /\ since' = since /\ around' = around /\ foreign' = foreign
  BY DEF Snapshot, Quiet
<1>2. snap'.of = i /\ snap'.props = told[i]
  BY <1>1, Known
<1>3. /\ Lineage /\ Tables /\ Holding(heap, told, since, around, foreign) /\ Rows(db)
      /\ AllEntries(ic)
  BY Unpacked
<1>4. i \notin around \cup foreign => Meets(told[i], heap[i].klass)
  BY <1>3 DEF Holding
<1>5. Copied(snap', native', heap', around', foreign', db')
  BY <1>1, <1>2, <1>4 DEF Copied
<1>6. Lineage' /\ Tables' /\ DOMAIN classes \subseteq DOMAIN classes'
  BY <1>1, <1>3, SameClasses
<1>7. Holding(heap', told', since', around', foreign') /\ Rows(db') /\ AllEntries(ic')
  BY <1>1, <1>3
<1>8. IInv'
  BY <1>1, <1>5, <1>6, <1>7, Packed
<1> QED
  BY <1>1, <1>8, Silent

\* rollback(): the properties it has still to set.
LEMMA RollbackStep ==
  ASSUME IInv, native = NoCall, NEW i \in DOMAIN heap, Rollback(i)
  PROVE  IInv' /\ AccessesAnswerRight'
<1>1. /\ snap # NoSnapshot /\ native' = Native("rollback", i, snap.props) /\ last'.op = "none"
      /\ world' = world /\ classes' = classes /\ ic' = ic /\ db' = db /\ heap' = heap
      /\ snap' = snap /\ told' = told /\ since' = since /\ around' = around
  BY DEF Rollback, Quiet
<1>2. /\ Lineage /\ Tables /\ Holding(heap, told, since, around, foreign) /\ Rows(db)
      /\ AllEntries(ic) /\ Copied(snap, native, heap, around, foreign, db)
  BY Unpacked
<1>3. /\ foreign \subseteq foreign'
      /\ i \notin foreign' => snap.of \notin around \cup foreign /\ heap[snap.of].klass = heap[i].klass
  BY DEF Rollback
<1>4. i \notin around \cup foreign' => Meets(snap.props, heap[i].klass)
  BY <1>1, <1>2, <1>3 DEF Copied
<1>5. native' # NoCall => /\ native'.call = "rollback" /\ native'.id = i /\ native'.left = snap.props
  <2>1. native' # NoCall => native' = [call |-> "rollback", id |-> i, left |-> snap.props]
    BY <1>1 DEF Native
  <2> QED
    BY <2>1
<1>6. Copied(snap', NoCall, heap', around', foreign', db')
  BY <1>1, <1>3, SnapshotStays
<1>7. Copied(snap', native', heap', around', foreign', db')
  BY <1>1, <1>4, <1>5, <1>6 DEF Copied
<1>8. Holding(heap', told', since', around', foreign')
  <2>1. Holding(heap, told, since, around, foreign')
    BY <1>2, <1>3 DEF Holding
  <2> QED
    BY <1>1, <2>1
<1>9. Lineage' /\ Tables' /\ DOMAIN classes \subseteq DOMAIN classes'
  BY <1>1, <1>2, SameClasses
<1>10. Rows(db') /\ AllEntries(ic')
  BY <1>1, <1>2
<1>11. IInv'
  BY <1>1, <1>7, <1>8, <1>9, <1>10, Packed
<1> QED
  BY <1>1, <1>11, Silent

-----------------------------------------------------------------------------
(* The theorems.                                                           *)

\* The invariant holds at the start.
LEMMA AtStart == Init => IInv /\ AccessesAnswerRight
<1> SUFFICES ASSUME Init PROVE IInv /\ AccessesAnswerRight
  OBVIOUS
<1>0. DOMAIN NoFields = {}
  BY DEF NoFields
<1>1. /\ DOMAIN classes = {} /\ DOMAIN heap = {} /\ DOMAIN told = {} /\ DOMAIN since = {}
      /\ DOMAIN db = {} /\ world \in Worlds /\ snap = NoSnapshot /\ native = NoCall
      /\ ic = [s \in world.sites |-> NoEntry] /\ last.op = "none"
  BY <1>0 DEF Init, Quiet
<1>2. Lineage /\ Tables
  BY <1>1 DEF Lineage, Tables
<1>3. Instances /\ Books
  BY <1>1 DEF Instances, Books
<1>4. Entries
  BY <1>1 DEF Entries, NoEntry
<1>5. Copies
  BY <1>1 DEF Copies
<1>6. AuditAccounts /\ CachedResultsFresh
  BY <1>1 DEF AuditAccounts, CachedResultsFresh
<1>7. RulesHold
  BY <1>1 DEF RulesHold
<1>8. AccessesAnswerRight
  BY <1>1 DEF AccessesAnswerRight
<1> QED
  BY <1>2, <1>3, <1>4, <1>5, <1>6, <1>7, <1>8 DEF IInv

\* A restart leaves only the database.
LEMMA RestartStep ==
  ASSUME IInv, Restart
  PROVE  IInv' /\ AccessesAnswerRight'
<1>0. DOMAIN NoFields = {}
  BY DEF NoFields
<1>1. /\ DOMAIN classes' = {} /\ DOMAIN heap' = {} /\ DOMAIN told' = {} /\ DOMAIN since' = {}
      /\ db' = db /\ world' = world /\ snap' = NoSnapshot /\ native' = NoCall
      /\ ic' = [s \in world.sites |-> NoEntry] /\ last'.op = "none"
  BY <1>0 DEF Restart, Quiet
<1>2. world \in Worlds /\ Rows(db)
  BY Unpacked DEF Lineage
<1>3. Lineage' /\ Tables'
  BY <1>1, <1>2 DEF Lineage, Tables
<1>4. Instances' /\ Books'
  BY <1>1 DEF Instances, Books
<1>5. Entries'
  BY <1>1 DEF Entries, NoEntry
<1>6. Copies'
  BY <1>1 DEF Copies
<1>7. AuditAccounts' /\ CachedResultsFresh'
  BY <1>1 DEF AuditAccounts, CachedResultsFresh
<1>8. RulesHold'
  BY <1>1, <1>2 DEF RulesHold, Rows
<1>9. IInv'
  BY <1>3, <1>4, <1>5, <1>6, <1>7, <1>8 DEF IInv
<1> QED
  BY <1>1, <1>9, Silent

\* A step that changes nothing.
LEMMA StutterStep ==
  ASSUME IInv, AccessesAnswerRight, UNCHANGED vars
  PROVE  IInv' /\ AccessesAnswerRight'
<1>1. /\ world' = world /\ classes' = classes /\ heap' = heap /\ ic' = ic /\ db' = db
      /\ snap' = snap /\ native' = native /\ last' = last /\ told' = told /\ since' = since
      /\ around' = around /\ foreign' = foreign
  BY DEF vars
<1>2. IInv'
  <2>1. SameObjects /\ AllEntries(ic')
    BY <1>1, Unpacked DEF SameObjects
  <2> QED
    BY <2>1, ReadKeeps
<1>3. \A n, x, y : /\ DeclaredValue(n, x)' = DeclaredValue(n, x)
                   /\ HookOf(n, x, y)' = HookOf(n, x, y)
                   /\ HiddenFrom(x, n, y)' <=> HiddenFrom(x, n, y)
  BY <1>1, SameWorld
<1>4. \A s, i : ExpectedRead(s, i)' = ExpectedRead(s, i)
  BY <1>1, <1>3 DEF ExpectedRead, Reading
<1>5. \A s, i, v : ExpectedWrite(s, i, v)' = ExpectedWrite(s, i, v)
  BY <1>1, <1>3 DEF ExpectedWrite
<1>6. \A s, i : Shadowed(s, i)' <=> Shadowed(s, i)
  BY <1>1 DEF Shadowed, ClassHit
<1>7. AccessesAnswerRight'
  BY <1>1, <1>3, <1>4, <1>5, <1>6 DEF AccessesAnswerRight
<1> QED
  BY <1>2, <1>7

\* Every step keeps the invariant, and answers right.
LEMMA EveryStep ==
  ASSUME IInv, Next
  PROVE  IInv' /\ AccessesAnswerRight'
<1>1. CASE native = NoCall /\ Step
  <2> USE <1>1
  <2>1. CASE \E n \in DOMAIN world.models : DeclareModel(n)
    BY <2>1, DeclareStep
  <2>2. CASE \E i \in world.ids, c \in DOMAIN world.models : NewInstance(i, c) \/ LoadPersisted(i, c)
    BY <2>2, NewStep, LoadPersistedStep
  <2>3. CASE \E s \in world.sites, i \in DOMAIN heap :
               LoadProperty(s, i) \/ InvokeMethod(s, i) \/ LoadSuper(s, i)
    BY <2>3, LoadStep, InvokeStep, SuperStep
  <2>4. CASE \E s \in world.sites, i \in DOMAIN heap, v \in world.values :
               StoreProperty(s, i, v) \/ InterceptedStoreProperty(s, i, v)
    BY <2>4, StoreStep, InterceptedStep
  <2>5. CASE \E s \in world.sites, c \in DOMAIN world.models : AccessClass(s, c)
    BY <2>5, AccessClassStep
  <2>6. CASE \E s \in world.sites, c \in DOMAIN world.models, v \in world.values : StoreInClass(s, c, v)
    BY <2>6, StoreInClassStep
  <2>7. CASE \E i \in DOMAIN heap, n \in world.asked : TestInstance(i, n)
    BY <2>7, TestStep
  <2>8. CASE \E i \in DOMAIN heap, x \in world.raw, v \in world.values : Setattr(i, x, v)
    BY <2>8, SetattrStep
  <2>9. CASE \E i \in DOMAIN heap, t \in world.tasks, a \in world.args : CallCached(i, t, a)
    BY <2>9, CallStep
  <2>10. CASE \E i \in DOMAIN heap : AuditClear(i) \/ Snapshot(i) \/ Rollback(i)
    BY <2>10, ClearStep, SnapshotStep, RollbackStep
  <2> QED
    BY <2>1, <2>2, <2>3, <2>4, <2>5, <2>6, <2>7, <2>8, <2>9, <2>10 DEF Step
<1>2. CASE \E x \in DOMAIN native.left : RestoreProperty(x) \/ LoadRow(x)
  BY <1>2, RestoreStep, LoadRowStep
<1>3. CASE Restart
  BY <1>3, RestartStep
<1> QED
  BY <1>1, <1>2, <1>3 DEF Next

\* The inductive invariant: the tables of the classes, the layout of the
\* instances, the entries of the sites, and the books agree with what the program
\* declared and assigned.  And every access answers as they say.
THEOREM ObjectsInvariance == Spec => [](IInv /\ AccessesAnswerRight)
<1>1. Init => IInv /\ AccessesAnswerRight
  BY AtStart
<1>2. (IInv /\ AccessesAnswerRight) /\ [Next]_vars => (IInv /\ AccessesAnswerRight)'
  <2> SUFFICES ASSUME IInv, AccessesAnswerRight, [Next]_vars
               PROVE  IInv' /\ AccessesAnswerRight'
    OBVIOUS
  <2>1. CASE Next
    BY <2>1, EveryStep
  <2>2. CASE UNCHANGED vars
    BY <2>2, StutterStep
  <2> QED
    BY <2>1, <2>2
<1> QED
  BY <1>1, <1>2, PTL DEF Spec

\* Every access answers as the declarations and the assignments say, whatever
\* its inline cache holds.
THEOREM EveryAccessRight == Spec => []AccessesAnswerRight
BY ObjectsInvariance, PTL

\* An audit log accounts for every intercepted assignment since it was cleared.
THEOREM EveryLogAccounts == Spec => []AuditAccounts
<1>1. IInv => AuditAccounts
  BY DEF IInv
<1> QED
  BY <1>1, ObjectsInvariance, PTL

\* A clean cached result is what the task would compute now.
THEOREM EveryResultFresh == Spec => []CachedResultsFresh
<1>1. IInv => CachedResultsFresh
  BY DEF IInv
<1> QED
  BY <1>1, ObjectsInvariance, PTL

\* A validated property holds a value its rule accepts, or what load() made of the
\* text of one, and the rows a restart would load are texts of values the rules accept.
THEOREM EveryRuleHolds == Spec => []RulesHold
<1>1. IInv => RulesHold
  BY DEF IInv
<1> QED
  BY <1>1, ObjectsInvariance, PTL

\* The tables of a class say what its line of models declares, and an instance has
\* a value for each name of its shape, the one the program assigned last.
THEOREM TablesAndLayoutsAgree == Spec => [](Tables /\ Instances)
<1>1. IInv => Tables /\ Instances
  BY DEF IInv
<1> QED
  BY <1>1, ObjectsInvariance, PTL

-----------------------------------------------------------------------------
(***************************************************************************)
(* The limiter's promises, for any number of threads, tasks, counts and    *)
(* periods, and any age a reading of the clock may reach.                  *)
(*                                                                         *)
(* The argument.  A window is what is left of the history: its stamps are  *)
(* those of the last calls let through (Suffix), and every call before     *)
(* them was made more than a period ago (Gone), because its stamp was      *)
(* expired by a reading of the clock, or its window was swept when its     *)
(* last stamp was older than the longest period.  A stamp is at most Stall *)
(* older than the call it stands for (History), which is what a period     *)
(* loses.  A call is let through only beside fewer stamps than the count,  *)
(* so the calls that are that many places apart are a period apart         *)
(* (Spaced).                                                               *)
(***************************************************************************)

(* A history of calls and a window.                                        *)

\* Calls are let through in the order of the clock, with stamps not older than Stall.
History(calls, c) ==
  /\ \A i \in 1 .. Len(calls) :
       /\ calls[i].stamp <= calls[i].at
       /\ calls[i].at <= calls[i].stamp + Stall
       /\ calls[i].at <= c
  /\ \A i, j \in 1 .. Len(calls) : i <= j => calls[i].at <= calls[j].at

\* A window holds the stamps of the last calls.
Suffix(calls, w) ==
  /\ Len(w) <= Len(calls)
  /\ \A i \in 1 .. Len(w) : w[i] = calls[Len(calls) - Len(w) + i].stamp

\* The calls before them were made more than a period ago.
Gone(calls, w, per, c) ==
  \A i \in 1 .. Len(calls) - Len(w) : calls[i].at + per < c + Stall

\* Calls as many places apart as the count are more than a period apart.
Spaced(calls, count, per) ==
  \A i, j \in 1 .. Len(calls) : i + count <= j => calls[i].at + per < calls[j].at + Stall

\* The parts of a history's entries are numbers.
LEMMA CallEntries ==
  ASSUME NEW calls \in Seq(Calls)
  PROVE  /\ Len(calls) \in Nat
         /\ \A i \in 1 .. Len(calls) : calls[i].stamp \in Nat /\ calls[i].at \in Nat
<1>1. Len(calls) \in Nat /\ \A i \in 1 .. Len(calls) : calls[i] \in Calls
  BY LenProperties, ElementOfSeq
<1> QED
  BY <1>1 DEF Calls

\* What popping the expired stamps leaves of a window.
LEMMA Popped ==
  ASSUME NEW w \in Seq(Nat), NEW now \in Nat, NEW per \in Nat, NEW v \in Unexpired(w, now, per)
  PROVE  \E k \in 0 .. Len(w) :
           /\ v \in Seq(Nat) /\ Len(v) = Len(w) - k
           /\ \A i \in 1 .. Len(v) : v[i] = w[k + i]
           /\ \A i \in 1 .. k : w[i] + per < now
           /\ Len(v) > 0 => now <= v[1] + per
<1>1. Len(w) \in Nat /\ \A i \in 1 .. Len(w) : w[i] \in Nat
  BY LenProperties, ElementOfSeq
<1>2. PICK k \in 0 .. Len(w) :
        /\ \A i \in 1 .. k : Expired(w[i], now, per)
        /\ k < Len(w) => ~Expired(w[k + 1], now, per)
        /\ v = SubSeq(w, k + 1, Len(w))
  BY DEF Unexpired
<1>3. k \in Nat /\ k <= Len(w) /\ k + 1 \in Int
  BY <1>1, <1>2
<1>4. \A i \in k + 1 .. Len(w) : w[i] \in Nat
  BY <1>1, <1>3
<1>5. /\ v \in Seq(Nat)
      /\ Len(v) = IF k + 1 <= Len(w) THEN Len(w) - (k + 1) + 1 ELSE 0
      /\ \A i \in 1 .. Len(w) - (k + 1) + 1 : v[i] = w[k + 1 + i - 1]
  <2>1. Len(w) \in Int
    BY <1>1
  <2> QED
    BY <1>2, <1>3, <1>4, <2>1, SubSeqProperties
<1>6. Len(v) = Len(w) - k
  BY <1>1, <1>3, <1>5
<1>7. \A i \in 1 .. Len(v) : v[i] = w[k + i]
  <2> TAKE i \in 1 .. Len(v)
  <2>1. i \in 1 .. Len(w) - (k + 1) + 1
    BY <1>1, <1>3, <1>6
  <2>2. k + 1 + i - 1 = k + i
    BY <1>3
  <2> QED
    BY <1>5, <2>1, <2>2
<1>8. \A i \in 1 .. k : w[i] + per < now
  BY <1>1, <1>2, <1>3 DEF Expired
<1>9. Len(v) > 0 => now <= v[1] + per
  <2> SUFFICES ASSUME Len(v) > 0
               PROVE  now <= v[1] + per
    OBVIOUS
  <2>1. k < Len(w) /\ k + 1 \in 1 .. Len(w) /\ v[1] = w[k + 1]
    BY <1>1, <1>3, <1>6, <1>7
  <2>2. w[k + 1] \in Nat /\ ~(now > w[k + 1] + per)
    BY <1>1, <1>2, <2>1 DEF Expired
  <2> QED
    BY <2>1, <2>2
<1> QED
  BY <1>2, <1>5, <1>6, <1>7, <1>8, <1>9

\* A call whose stamp has expired was made more than a period ago, but for the age
\* of its stamp.
LEMMA Before ==
  ASSUME NEW at \in Nat, NEW stamp \in Nat, NEW stall \in Nat, NEW per \in Nat,
         NEW now \in Nat, NEW c \in Nat,
         at <= stamp + stall, stamp + per < now, now <= c
  PROVE  at + per < c + stall
OBVIOUS

\* Popping leaves the stamps of the last calls, and what it pops was made more than
\* a period ago.
LEMMA PopKeeps ==
  ASSUME NEW calls \in Seq(Calls), NEW w \in Seq(Nat), NEW c \in Nat, NEW now \in Nat, NEW per \in Nat,
         now <= c, History(calls, c), Suffix(calls, w), NEW v \in Unexpired(w, now, per)
  PROVE  /\ v \in Seq(Nat) /\ Len(v) \in Nat /\ Suffix(calls, v)
         /\ Gone(calls, w, per, c) => Gone(calls, v, per, c)
         /\ Len(v) > 0 => now <= v[1] + per
<1>1. /\ Len(calls) \in Nat /\ Len(w) \in Nat
      /\ \A i \in 1 .. Len(calls) : calls[i].stamp \in Nat /\ calls[i].at \in Nat
  BY CallEntries, LenProperties
<1>2. PICK k \in 0 .. Len(w) :
        /\ v \in Seq(Nat) /\ Len(v) = Len(w) - k
        /\ \A i \in 1 .. Len(v) : v[i] = w[k + i]
        /\ \A i \in 1 .. k : w[i] + per < now
        /\ Len(v) > 0 => now <= v[1] + per
  BY Popped
<1>3. k \in Nat /\ k <= Len(w) /\ Len(v) \in Nat /\ Len(w) <= Len(calls)
  BY <1>1, <1>2 DEF Suffix
<1>4. Suffix(calls, v)
  <2> SUFFICES ASSUME NEW i \in 1 .. Len(v)
               PROVE  v[i] = calls[Len(calls) - Len(v) + i].stamp
    BY <1>1, <1>2, <1>3 DEF Suffix
  <2>1. k + i \in 1 .. Len(w) /\ Len(calls) - Len(w) + (k + i) = Len(calls) - Len(v) + i
    BY <1>1, <1>2, <1>3
  <2>2. v[i] = w[k + i] /\ w[k + i] = calls[Len(calls) - Len(w) + (k + i)].stamp
    BY <1>2, <2>1 DEF Suffix
  <2> QED
    BY <2>1, <2>2
<1>5. ASSUME Gone(calls, w, per, c)
      PROVE  Gone(calls, v, per, c)
  <2> SUFFICES ASSUME NEW i \in 1 .. Len(calls) - Len(v)
               PROVE  calls[i].at + per < c + Stall
    BY DEF Gone
  <2>1. i \in 1 .. Len(calls)
    BY <1>1, <1>3
  <2>2. CASE i <= Len(calls) - Len(w)
    <3>1. i \in 1 .. Len(calls) - Len(w)
      BY <1>1, <2>2
    <3> QED
      BY <1>5, <3>1 DEF Gone
  <2>3. CASE i > Len(calls) - Len(w)
    <3> DEFINE m == i - (Len(calls) - Len(w))
    <3>1. m \in 1 .. k /\ m \in 1 .. Len(w) /\ Len(calls) - Len(w) + m = i
      <4>1. i \in Nat /\ i <= Len(calls) - Len(w) + k
        BY <1>1, <1>2, <1>3
      <4>2. m \in Nat /\ m >= 1 /\ m <= k
        BY <1>1, <1>3, <2>3, <4>1
      <4>3. Len(calls) - Len(w) + m = i
        BY <1>1, <4>1
      <4> QED
        BY <1>1, <1>3, <4>2, <4>3
    <3> HIDE DEF m
    <3>2. w[m] = calls[i].stamp /\ w[m] + per < now
      BY <1>2, <3>1 DEF Suffix
    <3>3. calls[i].at <= calls[i].stamp + Stall /\ calls[i].at \in Nat /\ calls[i].stamp \in Nat
      BY <1>1, <2>1 DEF History
    <3>4. Stall \in Nat
      BY LimitsAssumption
    <3>5. calls[i].stamp + per < now
      BY <3>2
    <3> QED
      BY <3>3, <3>4, <3>5, Before
  <2> QED
    BY <1>1, <1>3, <2>2, <2>3
<1> QED
  BY <1>2, <1>3, <1>4, <1>5

\* A call let through beside fewer stamps than the count is more than a period after
\* the call that many places before it.
LEMMA AdmitKeeps ==
  ASSUME NEW calls \in Seq(Calls), NEW v \in Seq(Nat), NEW c \in Nat, NEW call \in Calls,
         call.at = c, call.stamp <= c, c <= call.stamp + Stall, History(calls, c), Suffix(calls, v)
  PROVE  /\ Append(calls, call) \in Seq(Calls) /\ Append(v, call.stamp) \in Seq(Nat)
         /\ History(Append(calls, call), c) /\ Suffix(Append(calls, call), Append(v, call.stamp))
         /\ \A per \in Nat : Gone(calls, v, per, c) =>
              /\ Gone(Append(calls, call), Append(v, call.stamp), per, c)
              /\ \A count \in Nat : Len(v) < count /\ Spaced(calls, count, per) =>
                    Spaced(Append(calls, call), count, per)
<1> DEFINE more == Append(calls, call)
           longer == Append(v, call.stamp)
<1>1. /\ Len(calls) \in Nat /\ Len(v) \in Nat /\ Len(v) <= Len(calls)
      /\ \A i \in 1 .. Len(calls) : calls[i].stamp \in Nat /\ calls[i].at \in Nat
  BY CallEntries, LenProperties DEF Suffix
<1>2. call.stamp \in Nat
  BY DEF Calls
<1>3. /\ more \in Seq(Calls) /\ Len(more) = Len(calls) + 1
      /\ \A i \in 1 .. Len(calls) : more[i] = calls[i]
      /\ more[Len(calls) + 1] = call
  BY AppendProperties
<1>4. /\ longer \in Seq(Nat) /\ Len(longer) = Len(v) + 1
      /\ \A i \in 1 .. Len(v) : longer[i] = v[i]
      /\ longer[Len(v) + 1] = call.stamp
  BY <1>2, AppendProperties
<1> HIDE DEF more, longer
<1>5. \A i \in 1 .. Len(more) : i \in 1 .. Len(calls) \/ i = Len(calls) + 1
  BY <1>1, <1>3
<1>6. History(more, c)
  <2>1. ASSUME NEW i \in 1 .. Len(more)
        PROVE  more[i].stamp <= more[i].at /\ more[i].at <= more[i].stamp + Stall /\ more[i].at <= c
    <3>1. CASE i \in 1 .. Len(calls)
      BY <1>3, <3>1 DEF History
    <3>2. CASE i = Len(calls) + 1
      BY <1>3, <3>2
    <3> QED
      BY <1>5, <3>1, <3>2
  <2>2. ASSUME NEW i \in 1 .. Len(more), NEW j \in 1 .. Len(more), i <= j
        PROVE  more[i].at <= more[j].at
    <3>1. CASE j \in 1 .. Len(calls)
      <4>1. i \in 1 .. Len(calls)
        BY <1>1, <1>5, <2>2, <3>1
      <4> QED
        BY <1>3, <2>2, <3>1, <4>1 DEF History
    <3>2. CASE j = Len(calls) + 1
      BY <1>3, <2>1, <3>2
    <3> QED
      BY <1>5, <3>1, <3>2
  <2> QED
    BY <2>1, <2>2 DEF History
<1>7. Len(more) - Len(longer) = Len(calls) - Len(v)
  BY <1>1, <1>3, <1>4
<1>8. Suffix(more, longer)
  <2>1. ASSUME NEW i \in 1 .. Len(longer)
        PROVE  longer[i] = more[Len(calls) - Len(v) + i].stamp
    <3>1. CASE i \in 1 .. Len(v)
      <4>1. Len(calls) - Len(v) + i \in 1 .. Len(calls)
        BY <1>1, <3>1
      <4> QED
        BY <1>3, <1>4, <3>1, <4>1 DEF Suffix
    <3>2. CASE i = Len(v) + 1
      <4>1. Len(calls) - Len(v) + i = Len(calls) + 1
        BY <1>1, <3>2
      <4> QED
        BY <1>3, <1>4, <3>2, <4>1
    <3> QED
      BY <1>1, <1>4, <3>1, <3>2
  <2>2. Len(longer) <= Len(more)
    BY <1>1, <1>3, <1>4
  <2> QED
    BY <1>7, <2>1, <2>2 DEF Suffix
<1>9. ASSUME NEW per \in Nat, Gone(calls, v, per, c)
      PROVE  Gone(more, longer, per, c)
  <2>1. ASSUME NEW i \in 1 .. Len(calls) - Len(v)
        PROVE  more[i].at + per < c + Stall
    <3>1. i \in 1 .. Len(calls)
      BY <1>1
    <3> QED
      BY <1>3, <1>9, <3>1 DEF Gone
  <2> QED
    BY <1>7, <2>1 DEF Gone
<1>10. ASSUME NEW per \in Nat, Gone(calls, v, per, c), NEW count \in Nat, Len(v) < count,
              Spaced(calls, count, per)
       PROVE  Spaced(more, count, per)
  <2> SUFFICES ASSUME NEW i \in 1 .. Len(more), NEW j \in 1 .. Len(more), i + count <= j
               PROVE  more[i].at + per < more[j].at + Stall
    BY DEF Spaced
  <2>1. i \in 1 .. Len(calls)
    BY <1>1, <1>3, <1>10
  <2>2. CASE j \in 1 .. Len(calls)
    BY <1>3, <1>10, <2>1, <2>2 DEF Spaced
  <2>3. CASE j = Len(calls) + 1
    <3>1. i \in 1 .. Len(calls) - Len(v)
      BY <1>1, <1>10, <2>3
    <3> QED
      BY <1>3, <1>10, <2>1, <2>3, <3>1 DEF Gone
  <2> QED
    BY <1>5, <2>2, <2>3
<1> QED
  BY <1>3, <1>4, <1>6, <1>8, <1>9, <1>10 DEF more, longer

\* A sweep drops a window only when all its calls were made more than a period ago.
LEMMA SweepKeeps ==
  ASSUME NEW calls \in Seq(Calls), NEW w \in Seq(Nat), NEW c \in Nat, NEW now \in Nat, now <= c,
         w # <<>>, Expired(Last(w), now, Day), History(calls, c), Suffix(calls, w)
  PROVE  /\ Suffix(calls, <<>>)
         /\ \A per \in Nat : per <= Day => Gone(calls, <<>>, per, c)
<1>1. /\ Len(calls) \in Nat /\ Len(w) \in Nat \ {0} /\ Len(w) <= Len(calls)
      /\ \A i \in 1 .. Len(calls) : calls[i].stamp \in Nat /\ calls[i].at \in Nat
  BY CallEntries, EmptySeq DEF Suffix
<1>2. Last(w) = calls[Len(calls)].stamp
  <2>1. Len(w) \in 1 .. Len(w) /\ Len(calls) - Len(w) + Len(w) = Len(calls)
    BY <1>1
  <2> QED
    BY <2>1 DEF Last, Suffix
<1>3. Len(<<>>) = 0
  BY EmptySeq
<1>4. ASSUME NEW per \in Nat, per <= Day, NEW i \in 1 .. Len(calls)
      PROVE  calls[i].at + per < c + Stall
  <2>1. Len(calls) \in 1 .. Len(calls) /\ i <= Len(calls)
    BY <1>1
  <2>2. calls[i].at <= calls[Len(calls)].at /\ calls[Len(calls)].at <= calls[Len(calls)].stamp + Stall
    BY <2>1 DEF History
  <2>3. calls[Len(calls)].stamp + Day < now
    BY <1>1, <1>2, <2>1, LimitsAssumption DEF Expired
  <2>4. calls[i].at \in Nat /\ calls[Len(calls)].at \in Nat /\ calls[Len(calls)].stamp \in Nat
    BY <1>1, <2>1
  <2>5. Stall \in Nat /\ Day \in Nat
    BY LimitsAssumption
  <2> DEFINE a == calls[i].at
             b == calls[Len(calls)].at
             d == calls[Len(calls)].stamp
  <2> HIDE DEF a, b, d
  <2>6. a <= d + Stall
    <3>1. a <= b /\ b <= d + Stall /\ a \in Nat /\ b \in Nat /\ d \in Nat
      BY <2>2, <2>4 DEF a, b, d
    <3> QED
      BY <2>5, <3>1
  <2>7. d + per < now
    <3>1. d + Day < now /\ d \in Nat
      BY <2>3, <2>4 DEF d
    <3> QED
      BY <1>4, <2>5, <3>1
  <2>8. a \in Nat /\ d \in Nat
    BY <2>4 DEF a, d
  <2>9. a + per < c + Stall
    BY <1>4, <2>5, <2>6, <2>7, <2>8, Before
  <2> QED
    BY <2>9 DEF a
<1>5. Suffix(calls, <<>>)
  BY <1>1, <1>3 DEF Suffix
<1>6. \A per \in Nat : per <= Day => Gone(calls, <<>>, per, c)
  BY <1>1, <1>3, <1>4 DEF Gone
<1> QED
  BY <1>5, <1>6

-----------------------------------------------------------------------------
(* The inductive invariant.                                                *)

\* Tasks of one name have one limit.
OneLimit ==
  \A a, b \in Tasks : Name[a] = Name[b] => Count[a] = Count[b] /\ Per[a] = Per[b]

\* A reading of the clock is not older than Stall.
FreshReadings ==
  \A th \in Threads : reading[th] # Idle =>
    reading[th].stamp <= clock /\ clock <= reading[th].stamp + Stall

Windows == \A n \in Names : History(admitted[n], clock) /\ Suffix(admitted[n], registry[n])

LimitsKept ==
  \A t \in Tasks :
    /\ Gone(admitted[Name[t]], registry[Name[t]], Per[t], clock)
    /\ Spaced(admitted[Name[t]], Count[t], Per[t])

LimiterInv == TypeOK /\ FreshReadings /\ Windows /\ RefusesOnlyWhenFull /\ (OneLimit => LimitsKept)

\* Before the first call.
LEMMA LimiterAtStart ==
  LimiterInit => LimiterInv
<1> SUFFICES ASSUME LimiterInit
             PROVE  LimiterInv
  OBVIOUS
<1>1. /\ clock = 0 /\ counter = 0 /\ refusal = NoRefusal /\ reading = [th \in Threads |-> Idle]
      /\ registry = [n \in Names |-> <<>>] /\ admitted = [n \in Names |-> <<>>]
  BY DEF LimiterInit
<1>2. Len(<<>>) = 0 /\ \A S : <<>> \in Seq(S)
  BY EmptySeq
<1>3. TypeOK
  BY <1>1, <1>2, LimitsAssumption DEF TypeOK
<1>4. FreshReadings
  BY <1>1 DEF FreshReadings
<1>5. Windows
  BY <1>1, <1>2 DEF Windows, History, Suffix
<1>6. RefusesOnlyWhenFull
  BY <1>1 DEF RefusesOnlyWhenFull
<1>7. LimitsKept
  BY <1>1, <1>2 DEF LimitsKept, Gone, Spaced, Names
<1> QED
  BY <1>3, <1>4, <1>5, <1>6, <1>7 DEF LimiterInv

\* Time passes.
LEMMA TickStep ==
  ASSUME LimiterInv, Tick
  PROVE  LimiterInv'
<1>1. /\ clock \in Nat /\ clock' = clock + 1 /\ UNCHANGED <<reading, registry, counter, admitted, refusal>>
      /\ Stall \in Nat /\ admitted \in [Names -> Seq(Calls)]
  BY LimitsAssumption DEF LimiterInv, TypeOK, Tick
<1>2. TypeOK'
  BY <1>1 DEF LimiterInv, TypeOK
<1>3. FreshReadings'
  <2> SUFFICES ASSUME NEW th \in Threads, reading[th] # Idle
               PROVE  reading[th].stamp <= clock + 1 /\ clock + 1 <= reading[th].stamp + Stall
    BY <1>1 DEF FreshReadings
  <2>1. reading[th].stamp <= clock /\ clock < reading[th].stamp + Stall
    BY DEF LimiterInv, FreshReadings, Tick
  <2>2. reading[th].stamp \in Nat
    BY DEF LimiterInv, TypeOK, Readings, Idle
  <2> QED
    BY <1>1, <2>1, <2>2
<1>4. Windows'
  <2> SUFFICES ASSUME NEW n \in Names
               PROVE  History(admitted[n], clock + 1) /\ Suffix(admitted[n], registry[n])
    BY <1>1 DEF Windows
  <2>1. \A i \in 1 .. Len(admitted[n]) : admitted[n][i].at \in Nat
    BY <1>1, CallEntries
  <2>2. History(admitted[n], clock) /\ Suffix(admitted[n], registry[n])
    BY DEF LimiterInv, Windows
  <2>3. \A i \in 1 .. Len(admitted[n]) : admitted[n][i].at <= clock + 1
    BY <1>1, <2>1, <2>2 DEF History
  <2> QED
    BY <2>2, <2>3 DEF History
<1>5. RefusesOnlyWhenFull'
  BY <1>1 DEF LimiterInv, RefusesOnlyWhenFull
<1>6. ASSUME LimitsKept
      PROVE  LimitsKept'
  <2> SUFFICES ASSUME NEW t \in Tasks
               PROVE  Gone(admitted[Name[t]], registry[Name[t]], Per[t], clock + 1)
    BY <1>1, <1>6 DEF LimitsKept
  <2> DEFINE calls == admitted[Name[t]]
             w == registry[Name[t]]
  <2>1. /\ calls \in Seq(Calls) /\ w \in Seq(Nat) /\ Per[t] \in Nat
        /\ Gone(calls, w, Per[t], clock)
    BY <1>6, LimitsAssumption DEF LimiterInv, TypeOK, LimitsKept, Names
  <2> HIDE DEF calls, w
  <2>2. /\ Len(calls) \in Nat /\ Len(w) \in Nat
        /\ \A i \in 1 .. Len(calls) : calls[i].at \in Nat
    BY <2>1, CallEntries, LenProperties
  <2>3. ASSUME NEW i \in 1 .. Len(calls) - Len(w)
        PROVE  calls[i].at + Per[t] < clock + 1 + Stall
    <3>1. i \in 1 .. Len(calls)
      BY <2>2
    <3>2. calls[i].at + Per[t] < clock + Stall /\ calls[i].at \in Nat
      BY <2>1, <2>2, <3>1 DEF Gone
    <3> QED
      BY <1>1, <2>1, <3>2
  <2> QED
    BY <2>3 DEF Gone, calls, w
<1> QED
  BY <1>2, <1>3, <1>4, <1>5, <1>6 DEF LimiterInv, OneLimit

\* A task is called.
LEMMA ReadStep ==
  ASSUME LimiterInv, NEW th \in Threads, NEW task \in Tasks, ReadClock(th, task)
  PROVE  LimiterInv'
<1>1. /\ reading \in [Threads -> Readings \union {Idle}] /\ clock \in Nat /\ Stall \in Nat
      /\ reading' = [reading EXCEPT ![th] = [task |-> task, stamp |-> clock]]
      /\ UNCHANGED <<clock, registry, counter, admitted, refusal>>
  BY LimitsAssumption DEF LimiterInv, TypeOK, ReadClock
<1>2. [task |-> task, stamp |-> clock] \in Readings
  BY <1>1 DEF Readings
<1>3. TypeOK'
  BY <1>1, <1>2 DEF LimiterInv, TypeOK
<1>4. FreshReadings'
  <2> SUFFICES ASSUME NEW other \in Threads, reading'[other] # Idle
               PROVE  reading'[other].stamp <= clock /\ clock <= reading'[other].stamp + Stall
    BY <1>1 DEF FreshReadings
  <2>1. CASE other = th
    BY <1>1, <2>1
  <2>2. CASE other # th
    BY <1>1, <2>2 DEF LimiterInv, FreshReadings
  <2> QED
    BY <2>1, <2>2
<1> QED
  BY <1>1, <1>3, <1>4 DEF LimiterInv, Windows, RefusesOnlyWhenFull, LimitsKept

-----------------------------------------------------------------------------
(* A check.                                                                *)

\* What a thread knows once it has popped the window.
LEMMA Looked ==
  ASSUME LimiterInv, NEW th \in Threads, reading[th] # Idle, NEW task, NEW now,
         task = reading[th].task, now = reading[th].stamp,
         NEW v \in Unexpired(registry[Name[task]], now, Per[task])
  PROVE  /\ task \in Tasks /\ Name[task] \in Names /\ now \in Nat /\ clock \in Nat /\ Stall \in Nat
         /\ now <= clock /\ clock <= now + Stall
         /\ admitted[Name[task]] \in Seq(Calls) /\ History(admitted[Name[task]], clock)
         /\ v \in Seq(Nat) /\ Len(v) \in Nat /\ Suffix(admitted[Name[task]], v)
         /\ Len(v) > 0 => now <= v[1] + Per[task]
         /\ LimitsKept /\ OneLimit => Gone(admitted[Name[task]], v, Per[task], clock)
<1>1. task \in Tasks /\ now \in Nat
  BY DEF LimiterInv, TypeOK, Readings
<1>2. Name[task] \in Names /\ Per[task] \in Nat /\ clock \in Nat /\ Stall \in Nat
  BY <1>1, LimitsAssumption DEF LimiterInv, TypeOK, Names
<1>3. now <= clock /\ clock <= now + Stall
  BY DEF LimiterInv, FreshReadings
<1>4. /\ admitted[Name[task]] \in Seq(Calls) /\ registry[Name[task]] \in Seq(Nat)
      /\ History(admitted[Name[task]], clock) /\ Suffix(admitted[Name[task]], registry[Name[task]])
  BY <1>2 DEF LimiterInv, TypeOK, Windows
<1>5. LimitsKept => Gone(admitted[Name[task]], registry[Name[task]], Per[task], clock)
  BY <1>1 DEF LimitsKept
<1>6. /\ v \in Seq(Nat) /\ Len(v) \in Nat /\ Suffix(admitted[Name[task]], v)
      /\ Len(v) > 0 => now <= v[1] + Per[task]
      /\ Gone(admitted[Name[task]], registry[Name[task]], Per[task], clock) =>
           Gone(admitted[Name[task]], v, Per[task], clock)
  BY <1>1, <1>2, <1>3, <1>4, PopKeeps
<1> QED
  BY <1>1, <1>2, <1>3, <1>4, <1>5, <1>6

\* A call is refused: the stamps that are left are as many as the count, and the
\* oldest of them is not expired.
LEMMA RefuseStep ==
  ASSUME LimiterInv, NEW th \in Threads, reading[th] # Idle, NEW task, NEW now,
         task = reading[th].task, now = reading[th].stamp,
         NEW v \in Unexpired(registry[Name[task]], now, Per[task]), Refuse(task, v),
         reading' = [reading EXCEPT ![th] = Idle], UNCHANGED clock
  PROVE  LimiterInv'
<1> DEFINE n == Name[task]
           calls == admitted[n]
<1>1. /\ task \in Tasks /\ n \in Names /\ now \in Nat /\ clock \in Nat /\ Stall \in Nat
      /\ now <= clock /\ clock <= now + Stall
      /\ calls \in Seq(Calls) /\ History(calls, clock)
      /\ v \in Seq(Nat) /\ Len(v) \in Nat /\ Suffix(calls, v)
      /\ Len(v) > 0 => now <= v[1] + Per[task]
      /\ LimitsKept /\ OneLimit => Gone(calls, v, Per[task], clock)
  BY Looked
<1>2. /\ Len(v) >= Count[task] /\ registry' = [registry EXCEPT ![n] = v]
      /\ refusal' = [task |-> task, at |-> clock] /\ UNCHANGED <<counter, admitted>>
  BY DEF Refuse
<1>3. registry \in [Names -> Seq(Nat)] /\ reading \in [Threads -> Readings \union {Idle}]
  BY DEF LimiterInv, TypeOK
<1>4. TypeOK'
  <2>1. registry' \in [Names -> Seq(Nat)] /\ reading' \in [Threads -> Readings \union {Idle}]
    BY <1>1, <1>2, <1>3
  <2>2. refusal' \in [task : Tasks, at : Nat] \union {NoRefusal}
    BY <1>1, <1>2
  <2> QED
    BY <1>2, <2>1, <2>2 DEF LimiterInv, TypeOK
<1>5. FreshReadings'
  <2> SUFFICES ASSUME NEW other \in Threads, reading'[other] # Idle
               PROVE  reading[other] # Idle /\ reading'[other] = reading[other]
    BY DEF LimiterInv, FreshReadings
  <2> QED
    BY <1>3
<1>6. Windows'
  <2> SUFFICES ASSUME NEW m \in Names
               PROVE  History(admitted[m], clock) /\ Suffix(admitted[m], registry'[m])
    BY <1>2 DEF Windows
  <2>1. CASE m = n
    BY <1>1, <1>2, <1>3, <2>1
  <2>2. CASE m # n
    BY <1>2, <1>3, <2>2 DEF LimiterInv, Windows
  <2> QED
    BY <2>1, <2>2
<1>7. RefusesOnlyWhenFull'
  <2> DEFINE used == Count[task]
  <2>1. used \in Nat /\ Per[task] \in Nat
    BY <1>1, LimitsAssumption
  <2>2. /\ Len(calls) \in Nat /\ Len(v) <= Len(calls) /\ used <= Len(v)
        /\ \A i \in 1 .. Len(calls) : calls[i].at \in Nat /\ calls[i].stamp \in Nat
    BY <1>1, <1>2, CallEntries DEF Suffix
  <2>3. used <= Len(calls)
    BY <1>1, <2>1, <2>2
  <2> HIDE DEF calls, used
  <2>4. ASSUME used > 0
        PROVE  clock <= calls[Len(calls) - used + 1].at + Per[task] + Stall
    <3> DEFINE i == Len(calls) - Len(v) + 1
               j == Len(calls) - used + 1
    <3>1. i \in 1 .. Len(calls) /\ j \in 1 .. Len(calls) /\ i <= j /\ 1 \in 1 .. Len(v) /\ Len(v) > 0
      BY <1>1, <2>1, <2>2, <2>4
    <3>2. v[1] = calls[i].stamp
      BY <3>1, <1>1 DEF Suffix
    <3> HIDE DEF i, j
    <3>3. now <= calls[i].stamp + Per[task] /\ calls[i].stamp <= calls[i].at /\ calls[i].at <= calls[j].at
      BY <1>1, <3>1, <3>2 DEF History
    <3>4. calls[i].stamp \in Nat /\ calls[i].at \in Nat /\ calls[j].at \in Nat
      BY <2>2, <3>1
    <3>5. clock <= calls[j].at + Per[task] + Stall
      <4>1. now \in Nat /\ clock \in Nat /\ Stall \in Nat /\ clock <= now + Stall
        BY <1>1
      <4>2. now <= calls[j].at + Per[task]
        BY <2>1, <3>3, <3>4, <4>1
      <4> QED
        BY <2>1, <3>4, <4>1, <4>2
    <3> QED
      BY <3>5 DEF j
  <2> QED
    BY <1>2, <2>3, <2>4 DEF RefusesOnlyWhenFull, calls, used
<1>8. ASSUME OneLimit, LimitsKept
      PROVE  LimitsKept'
  <2> SUFFICES ASSUME NEW t \in Tasks
               PROVE  Gone(admitted[Name[t]], registry'[Name[t]], Per[t], clock)
    BY <1>2, <1>8 DEF LimitsKept
  <2>1. CASE Name[t] = n
    <3>1. Per[t] = Per[task] /\ registry'[n] = v
      BY <1>1, <1>2, <1>3, <1>8, <2>1 DEF OneLimit
    <3> QED
      BY <1>1, <1>8, <2>1, <3>1
  <2>2. CASE Name[t] # n
    <3>1. registry'[Name[t]] = registry[Name[t]]
      BY <1>2, <1>3, <2>2 DEF Names
    <3> QED
      BY <1>8, <3>1 DEF LimitsKept
  <2> QED
    BY <2>1, <2>2
<1> QED
  BY <1>4, <1>5, <1>6, <1>7, <1>8 DEF LimiterInv, OneLimit

\* A call is let through, and the registry may be swept.
LEMMA AdmitStep ==
  ASSUME LimiterInv, NEW th \in Threads, reading[th] # Idle, NEW task, NEW now,
         task = reading[th].task, now = reading[th].stamp,
         NEW v \in Unexpired(registry[Name[task]], now, Per[task]), Admit(task, v, now),
         reading' = [reading EXCEPT ![th] = Idle], UNCHANGED clock
  PROVE  LimiterInv'
<1> DEFINE n == Name[task]
           calls == admitted[n]
           call == [task |-> task, stamp |-> now, at |-> clock]
           windows == [registry EXCEPT ![n] = Append(v, now)]
<1>1. /\ task \in Tasks /\ n \in Names /\ now \in Nat /\ clock \in Nat /\ Stall \in Nat
      /\ now <= clock /\ clock <= now + Stall
      /\ calls \in Seq(Calls) /\ History(calls, clock)
      /\ v \in Seq(Nat) /\ Len(v) \in Nat /\ Suffix(calls, v)
      /\ LimitsKept /\ OneLimit => Gone(calls, v, Per[task], clock)
  BY Looked
<1>2. /\ Len(v) < Count[task] /\ refusal' = NoRefusal
      /\ admitted' = [admitted EXCEPT ![n] = Append(calls, call)]
      /\ registry' = windows \/ registry' = Swept(windows, now)
  BY DEF Admit
<1>3. /\ registry \in [Names -> Seq(Nat)] /\ reading \in [Threads -> Readings \union {Idle}]
      /\ admitted \in [Names -> Seq(Calls)] /\ Count[task] \in Nat /\ Per[task] \in Nat
      /\ SweepEvery \in Nat /\ counter \in 0 .. SweepEvery
  BY <1>1, LimitsAssumption DEF LimiterInv, TypeOK
<1>4. counter' \in 0 .. SweepEvery
  BY <1>3 DEF Admit
<1>5. call \in Calls /\ call.at = clock /\ call.stamp = now
  BY <1>1 DEF Calls
<1> HIDE DEF call
<1>6. /\ Append(calls, call) \in Seq(Calls) /\ Append(v, now) \in Seq(Nat)
      /\ History(Append(calls, call), clock) /\ Suffix(Append(calls, call), Append(v, now))
      /\ \A per \in Nat : Gone(calls, v, per, clock) =>
           /\ Gone(Append(calls, call), Append(v, now), per, clock)
           /\ \A count \in Nat : Len(v) < count /\ Spaced(calls, count, per) =>
                 Spaced(Append(calls, call), count, per)
  BY <1>1, <1>5, AdmitKeeps
<1>7. /\ windows \in [Names -> Seq(Nat)] /\ windows[n] = Append(v, now)
      /\ \A m \in Names : m # n => windows[m] = registry[m]
  BY <1>1, <1>3, <1>6
<1>8. /\ admitted' \in [Names -> Seq(Calls)] /\ admitted'[n] = Append(calls, call)
      /\ \A m \in Names : m # n => admitted'[m] = admitted[m]
  BY <1>1, <1>2, <1>3, <1>6
<1> HIDE DEF windows, calls
<1>9. \A m \in Names : History(admitted'[m], clock) /\ Suffix(admitted'[m], windows[m])
  <2> SUFFICES ASSUME NEW m \in Names
               PROVE  History(admitted'[m], clock) /\ Suffix(admitted'[m], windows[m])
    OBVIOUS
  <2>1. CASE m = n
    BY <1>6, <1>7, <1>8, <2>1
  <2>2. CASE m # n
    BY <1>7, <1>8, <2>2 DEF LimiterInv, Windows
  <2> QED
    BY <2>1, <2>2
<1>10. \A m \in Names :
         \/ registry'[m] = windows[m]
         \/ windows[m] # <<>> /\ Expired(Last(windows[m]), now, Day) /\ registry'[m] = <<>>
  <2>1. CASE registry' = windows
    BY <2>1
  <2>2. CASE registry' = Swept(windows, now)
    BY <2>2 DEF Swept
  <2> QED
    BY <1>2, <2>1, <2>2
<1>11. \A m \in Names :
         /\ Suffix(admitted'[m], registry'[m])
         /\ \A per \in Nat : per <= Day /\ Gone(admitted'[m], windows[m], per, clock) =>
               Gone(admitted'[m], registry'[m], per, clock)
  <2> SUFFICES ASSUME NEW m \in Names
               PROVE  /\ Suffix(admitted'[m], registry'[m])
                      /\ \A per \in Nat : per <= Day /\ Gone(admitted'[m], windows[m], per, clock) =>
                            Gone(admitted'[m], registry'[m], per, clock)
    OBVIOUS
  <2>1. CASE registry'[m] = windows[m]
    BY <1>9, <2>1
  <2>2. CASE windows[m] # <<>> /\ Expired(Last(windows[m]), now, Day) /\ registry'[m] = <<>>
    <3>1. admitted'[m] \in Seq(Calls) /\ windows[m] \in Seq(Nat)
      BY <1>7, <1>8
    <3>2. /\ Suffix(admitted'[m], <<>>)
          /\ \A per \in Nat : per <= Day => Gone(admitted'[m], <<>>, per, clock)
      BY <1>1, <1>9, <2>2, <3>1, SweepKeeps
    <3> QED
      BY <2>2, <3>2
  <2> QED
    BY <1>10, <2>1, <2>2
<1>12. TypeOK'
  <2>1. reading' \in [Threads -> Readings \union {Idle}]
    BY <1>3
  <2>2. registry' \in [Names -> Seq(Nat)]
    <3>1. <<>> \in Seq(Nat)
      BY EmptySeq
    <3>2. Swept(windows, now) \in [Names -> Seq(Nat)]
      BY <1>7, <3>1 DEF Swept
    <3> QED
      BY <1>2, <1>7, <3>2
  <2> QED
    BY <1>2, <1>4, <1>8, <2>1, <2>2 DEF LimiterInv, TypeOK
<1>13. FreshReadings'
  <2> SUFFICES ASSUME NEW other \in Threads, reading'[other] # Idle
               PROVE  reading[other] # Idle /\ reading'[other] = reading[other]
    BY DEF LimiterInv, FreshReadings
  <2> QED
    BY <1>3
<1>14. Windows'
  BY <1>9, <1>11 DEF Windows
<1>15. RefusesOnlyWhenFull'
  BY <1>2 DEF RefusesOnlyWhenFull
<1>16. ASSUME OneLimit, LimitsKept
       PROVE  LimitsKept'
  <2> SUFFICES ASSUME NEW t \in Tasks
               PROVE  /\ Gone(admitted'[Name[t]], registry'[Name[t]], Per[t], clock)
                      /\ Spaced(admitted'[Name[t]], Count[t], Per[t])
    BY DEF LimitsKept
  <2>1. Name[t] \in Names /\ Per[t] \in Nat /\ Per[t] <= Day
    BY LimitsAssumption DEF Names
  <2>2. Gone(admitted[Name[t]], registry[Name[t]], Per[t], clock) /\ Spaced(admitted[Name[t]], Count[t], Per[t])
    BY <1>16 DEF LimitsKept
  <2>3. CASE Name[t] = n
    <3>1. Per[t] = Per[task] /\ Count[t] = Count[task]
      BY <1>1, <1>16, <2>3 DEF OneLimit
    <3>2. Gone(calls, v, Per[task], clock) /\ Spaced(calls, Count[task], Per[task])
      BY <1>1, <1>16, <2>2, <2>3, <3>1 DEF calls
    <3>3. /\ Gone(Append(calls, call), Append(v, now), Per[task], clock)
          /\ Spaced(Append(calls, call), Count[task], Per[task])
      BY <1>2, <1>3, <1>6, <3>2
    <3>4. Gone(admitted'[n], windows[n], Per[task], clock)
      BY <1>7, <1>8, <3>3
    <3> QED
      BY <1>8, <1>11, <2>1, <2>3, <3>1, <3>3, <3>4
  <2>4. CASE Name[t] # n
    <3>1. admitted'[Name[t]] = admitted[Name[t]] /\ windows[Name[t]] = registry[Name[t]]
      BY <1>7, <1>8, <2>1, <2>4
    <3> QED
      BY <1>11, <2>1, <2>2, <3>1
  <2> QED
    BY <2>3, <2>4
<1> QED
  BY <1>12, <1>13, <1>14, <1>15, <1>16 DEF LimiterInv, OneLimit

-----------------------------------------------------------------------------
(* The theorems.                                                           *)

\* The windows and the history of calls agree in every reachable state.
THEOREM LimiterInvariance ==
  LimiterSpec => []LimiterInv
<1>1. LimiterInit => LimiterInv
  BY LimiterAtStart
<1>2. LimiterInv /\ [LimiterNext]_limiterVars => LimiterInv'
  <2> SUFFICES ASSUME LimiterInv, [LimiterNext]_limiterVars
               PROVE  LimiterInv'
    OBVIOUS
  <2>1. CASE Tick
    BY <2>1, TickStep
  <2>2. ASSUME NEW th \in Threads, NEW task \in Tasks, ReadClock(th, task)
        PROVE  LimiterInv'
    BY <2>2, ReadStep
  <2>3. ASSUME NEW th \in Threads, Check(th)
        PROVE  LimiterInv'
    <3>1. reading[th] # Idle /\ reading' = [reading EXCEPT ![th] = Idle] /\ UNCHANGED clock
      BY <2>3 DEF Check
    <3>2. PICK v \in Unexpired(registry[Name[reading[th].task]], reading[th].stamp, Per[reading[th].task]) :
            Refuse(reading[th].task, v) \/ Admit(reading[th].task, v, reading[th].stamp)
      BY <2>3 DEF Check
    <3>3. CASE Refuse(reading[th].task, v)
      BY <3>1, <3>3, RefuseStep
    <3>4. CASE Admit(reading[th].task, v, reading[th].stamp)
      BY <3>1, <3>4, AdmitStep
    <3> QED
      BY <3>2, <3>3, <3>4
  <2>4. CASE UNCHANGED limiterVars
    BY <2>4 DEF limiterVars, LimiterInv, TypeOK, FreshReadings, Windows, RefusesOnlyWhenFull, LimitsKept
  <2> QED
    BY <2>1, <2>2, <2>3, <2>4 DEF LimiterNext
<1> QED
  BY <1>1, <1>2, PTL DEF LimiterSpec

\* The state keeps its types, and the sweep counter its range.
THEOREM LimiterTypeCorrect ==
  LimiterSpec => []TypeOK
<1>1. LimiterInv => TypeOK
  BY DEF LimiterInv
<1> QED
  BY <1>1, LimiterInvariance, PTL

\* A call is refused only while the count is used up, whichever thread checks it.
THEOREM RefusalsAreDue ==
  LimiterSpec => []RefusesOnlyWhenFull
<1>1. LimiterInv => RefusesOnlyWhenFull
  BY DEF LimiterInv
<1> QED
  BY <1>1, LimiterInvariance, PTL

\* In no period does a task run more often than its count, whatever threads call it
\* and whatever a sweep drops, when tasks of one name have one limit.
THEOREM LimitsHold ==
  ASSUME OneLimit
  PROVE  LimiterSpec => []RateBounded
<1>1. LimiterInv => RateBounded
  <2> SUFFICES ASSUME LimiterInv, NEW t \in Tasks, NEW x \in 1 .. Len(admitted[Name[t]])
               PROVE  Cardinality({i \in x .. Len(admitted[Name[t]]) :
                         /\ admitted[Name[t]][i].task = t
                         /\ admitted[Name[t]][i].at + Stall <= admitted[Name[t]][x].at + Per[t]}) <= Count[t]
    BY DEF RateBounded
  <2> DEFINE calls == admitted[Name[t]]
             S == {i \in x .. Len(calls) :
                     calls[i].task = t /\ calls[i].at + Stall <= calls[x].at + Per[t]}
  <2>1. calls \in Seq(Calls) /\ Spaced(calls, Count[t], Per[t]) /\ Count[t] \in Nat /\ Per[t] \in Nat /\ Stall \in Nat
    BY LimitsAssumption DEF LimiterInv, TypeOK, LimitsKept, Names
  <2>2. Len(calls) \in Nat /\ \A i \in 1 .. Len(calls) : calls[i].at \in Nat
    BY <2>1, CallEntries
  <2>3. x \in 1 .. Len(calls)
    OBVIOUS
  <2> HIDE DEF calls
  <2>4. S \subseteq x .. x + Count[t] - 1
    <3> SUFFICES ASSUME NEW i \in S, i \notin x .. x + Count[t] - 1
                 PROVE  FALSE
      OBVIOUS
    <3> DEFINE n == Count[t]
    <3>0. i \in x .. Len(calls) /\ i \notin x .. x + n - 1 /\ n \in Nat
      BY <2>1
    <3> HIDE DEF n
    <3>5. i \in 1 .. Len(calls) /\ x + n <= i
      BY <2>2, <2>3, <3>0
    <3>1. i \in 1 .. Len(calls) /\ x + Count[t] <= i
      BY <3>5 DEF n
    <3>2. calls[x].at + Per[t] < calls[i].at + Stall
      BY <2>1, <2>3, <3>1 DEF Spaced
    <3>3. calls[i].at + Stall <= calls[x].at + Per[t]
      OBVIOUS
    <3>4. calls[i].at \in Nat /\ calls[x].at \in Nat
      BY <2>2, <2>3, <3>1
    <3> QED
      BY <2>1, <3>2, <3>3, <3>4
  <2> HIDE DEF S
  <2>5. IsFiniteSet(x .. x + Count[t] - 1) /\ Cardinality(x .. x + Count[t] - 1) = Count[t]
    <3> DEFINE b == x + Count[t] - 1
    <3>1. x \in Int /\ b \in Int
      BY <2>1, <2>2, <2>3
    <3>2. (x > b => Count[t] = 0) /\ (~(x > b) => b - x + 1 = Count[t])
      BY <2>1, <2>2, <2>3
    <3> HIDE DEF b
    <3>3. IsFiniteSet(x .. b) /\ Cardinality(x .. b) = IF x > b THEN 0 ELSE b - x + 1
      BY <3>1, FS_Interval
    <3>4. Cardinality(x .. b) = Count[t]
      BY <3>2, <3>3
    <3> QED
      BY <3>3, <3>4 DEF b
  <2>6. Cardinality(S) <= Count[t]
    BY <2>4, <2>5, FS_Subset
  <2> QED
    BY <2>6 DEF S, calls
<1> QED
  BY <1>1, LimiterInvariance, PTL
=============================================================================
