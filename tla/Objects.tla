------------------------------ MODULE Objects ------------------------------
(***************************************************************************)
(* Models, instances and property access: shapes, inline caches,           *)
(* visibility, attribute hooks, and the behaviours a decorator attaches to *)
(* a model or a task (@validate, @audited, @cached, @snapshot, @persist).  *)
(*                                                                         *)
(* A world gives the models a program declares, the sites of its code that *)
(* access properties, its instances and its values.  Every                 *)
(* order of declarations and accesses the sites allow is a behaviour.  A   *)
(* value is its type and its text; a task that is a member is named by its *)
(* text.  An inline cache belongs to a site and outlives the access.       *)
(***************************************************************************)
EXTENDS Naturals, Sequences, FiniteSets, TLC, Functions

CONSTANTS Worlds,      \* the worlds of a run
          MaxLog       \* bound on the entries of an audit log

None == "none"

\* What a world is taken to be.  A model has a name.  A cached task does not
\* write the property its result is made of: a write by the task spares the
\* task's own results.  The table of a database is keyed by property alone, so
\* the models persisted in it have the same rules.
ASSUME WorldsAssumption ==
  /\ MaxLog \in Nat
  /\ \A w \in Worlds :
       /\ None \notin DOMAIN w.models
       /\ \A n \in DOMAIN w.models : \A t \in DOMAIN w.models[n].cached :
            w.models[n].cached[t].writes # w.models[n].cached[t].reads
       /\ \A m, n \in DOMAIN w.models :
            w.models[m].persist /\ w.models[n].persist => w.models[m].rules = w.models[n].rules

VARIABLES world,    \* the program
          classes,  \* class objects, by the name of their model
          heap,     \* instances
          ic,       \* inline cache entry of each site
          db,       \* rows of the EZ_Persist table
          snap,     \* the snapshot the program holds
          native,   \* the rollback() or load() in progress and what it has still to set
          last,     \* the last access and its answer
          told,     \* history: what the program last assigned to each property
          since,    \* history: told at the last audit_clear
          around,   \* history: instances written by STORE_PROPERTY or setattr()
          foreign   \* history: instances rolled back to values their rules never met
vars == <<world, classes, heap, ic, db, snap, native, last, told, since, around, foreign>>

Nil == <<"nil", "nil">>
Task(text) == <<"task", text>>
IsCallable(v) == v[1] = "task"
Digits == {"0", "1", "2", "3"}
NoFields == [x \in {} |-> Nil]
With(f, x, v) == [y \in DOMAIN f \cup {x} |-> IF y = x THEN v ELSE f[y]]

(***************************************************************************)
(* Lines of models.  A parent pointer is set once, when the class is made. *)
(***************************************************************************)
\* What a walk along the parents reaches, from the model or class c up.
Up(table, c) ==
  {k \in DOMAIN table :
     \A S \in SUBSET DOMAIN table :
       (c \in S /\ \A m \in S : table[m].parent \in DOMAIN table => table[m].parent \in S) => k \in S}

\* The one of S, on one line, that the walk meets first.
First(table, S) == CHOOSE k \in S : S \subseteq Up(table, k)

(***************************************************************************)
(* Shapes and instances.  A shape is its root and the names added on the   *)
(* way: transition() hands every instance that adds the same name to the   *)
(* same shape the same successor.                                          *)
(***************************************************************************)
\* Mutant: all models start from one shape.
initialShapeCommon(c) == [root |-> "all", names |-> <<>>]
initialShape(c) == [root |-> c, names |-> <<>>]
NoShape == [root |-> None, names |-> <<>>]
NoEntry == [shape |-> NoShape, offset |-> 0, klass |-> None, method |-> Nil]

hasProperty(o, name) == name \in Range(o.shape.names)
getOffset(shape, name) == CHOOSE k \in DOMAIN shape.names : shape.names[k] = name
transition(shape, name) == [shape EXCEPT !.names = Append(@, name)]

NewObject(c) == [klass |-> c, shape |-> initialShape(c), values |-> <<>>,
                 audit |-> <<>>, cache |-> NoFields]

\* findMethod() and findStaticMember() pass over a class whose member is nil.
findIn(c, table, name) ==
  LET owners == {k \in Up(classes, c) :
                   name \in DOMAIN classes[k][table] /\ classes[k][table][name] # Nil}
  IN IF owners = {} THEN Nil ELSE classes[First(classes, owners)][table][name]
findMethod(c, name) == findIn(c, "methods", name)
findStaticMember(c, name) == findIn(c, "statics", name)

\* The walk of getProperty() and of `super` ends at the first class that has the name.
classMember(c, name) ==
  LET owners == {k \in Up(classes, c) : name \in DOMAIN classes[k].methods}
  IN IF owners = {} THEN Nil ELSE classes[First(classes, owners)].methods[name]

getProperty(o, name) ==
  IF hasProperty(o, name) THEN o.values[getOffset(o.shape, name)]
  ELSE classMember(o.klass, name)

setProperty(o, name, v) ==
  IF hasProperty(o, name)
  THEN [o EXCEPT !.values[getOffset(o.shape, name)] = v]
  ELSE [o EXCEPT !.shape = transition(@, name), !.values = Append(@, v)]

(***************************************************************************)
(* Visibility and hooks                                                    *)
(***************************************************************************)
\* CHECK_VISIBILITY in a function whose className is fn.
MayUse(fn, c, name) ==
  (name \in DOMAIN classes[c].visibility /\ ~classes[c].visibility[name])
     => fn \in Up(classes, c)

Dunder == {"__getattr__", "__setattr__"}
findGetattrHook(c, name) ==
  IF name \in Dunder \/ ~classes[c].hasGetattrHook THEN Nil
  ELSE findMethod(c, "__getattr__")
findStaticHook(c, name) ==
  IF name \in Dunder \/ ~classes[c].hasGetattrHook THEN Nil
  ELSE findStaticMember(c, "__getattr__")
findSetattrHook(c, name) ==
  IF name \in Dunder \/ ~classes[c].hasSetattrHook THEN Nil
  ELSE findMethod(c, "__setattr__")

behaviors(c) ==
  \/ classes[c].audited
  \/ classes[c].snapshot
  \/ classes[c].persist
  \/ classes[c].rules # NoFields
  \/ classes[c].hasCached

(***************************************************************************)
(* Declaring a model.  compileModel() pushes the members with a            *)
(* synthesised init and two synthesised statics; MAKE_CLASS pops them,     *)
(* flattens the parent's methods and visibility in, and refuses a model    *)
(* that lacks a task one of its interfaces requires.                       *)
(***************************************************************************)
Member(v, static, public) == [value |-> v, static |-> static, public |-> public]
compileModel(n) ==
  world.models[n].members
    @@ ("init" :> Member(Task(world.models[n].init), FALSE, TRUE))
    @@ ("__properties__" :> Member(<<"dict", n>>, TRUE, TRUE))
    @@ ("__name__" :> Member(<<"str", n>>, TRUE, TRUE))

compileInterface(n) == world.models[n].requires

\* The members of a model that are static, or are not, by name.
Own(n, static) ==
  [x \in {m \in DOMAIN compileModel(n) : compileModel(n)[m].static = static} |->
     compileModel(n)[x].value]
Inherited(n, table) ==
  IF world.models[n].parent = None THEN NoFields ELSE classes[world.models[n].parent][table]
Over(f, g) == [x \in DOMAIN f \cup DOMAIN g |-> IF x \in DOMAIN f THEN f[x] ELSE g[x]]

\* Mutant: a subclass does not learn that a task it inherits is cached.
hasCachedOwn(n) == DOMAIN world.models[n].cached # {}
hasCached(n) ==
  \/ DOMAIN world.models[n].cached # {}
  \/ world.models[n].parent # None /\ classes[world.models[n].parent].hasCached

MakeClass(n) ==
  LET d == world.models[n]
      methods == Over(Own(n, FALSE), Inherited(n, "methods"))
      public == [x \in DOMAIN compileModel(n) |-> compileModel(n)[x].public]
  IN [audited |-> d.audited, snapshot |-> d.snapshot, persist |-> d.persist, rules |-> d.rules,
      parent |-> d.parent,
      methods |-> methods,
      statics |-> Own(n, TRUE),
      visibility |-> Over(public, Inherited(n, "visibility")),
      hasCached |-> hasCached(n),
      hasGetattrHook |-> \/ "__getattr__" \in DOMAIN methods \cup DOMAIN Own(n, TRUE)
                         \/ d.parent # None /\ classes[d.parent].hasGetattrHook,
      hasSetattrHook |-> \/ "__setattr__" \in DOMAIN methods
                         \/ d.parent # None /\ classes[d.parent].hasSetattrHook]

Quiet == [op |-> "none"]
DeclareModel(n) ==
  /\ n \notin DOMAIN classes
  /\ world.models[n].parent \in DOMAIN classes \cup {None}
  /\ LET klass == MakeClass(n)
         complete == compileInterface(n) \subseteq DOMAIN klass.methods
     IN /\ classes' = IF complete THEN With(classes, n, klass) ELSE classes
        /\ last' = [op |-> "declare", name |-> n, complete |-> complete]
  /\ UNCHANGED <<world, heap, ic, db, snap, native, told, since, around, foreign>>

\* instantiate(); the constructor's own assignments are accesses of sites.
NewInstance(i, c) ==
  /\ i \notin DOMAIN heap
  /\ c \in DOMAIN classes
  /\ heap' = With(heap, i, NewObject(c))
  /\ told' = With(told, i, NoFields)
  /\ since' = With(since, i, NoFields)
  /\ last' = [op |-> "new", id |-> i, init |-> classMember(c, "init")]
  /\ UNCHANGED <<world, classes, ic, db, snap, native, around, foreign>>

(***************************************************************************)
(* Reading a property and calling one.  An answer is what the access       *)
(* leaves: a value, a bound method, a call with or without self, a hook to *)
(* run, or a fault.                                                        *)
(***************************************************************************)
Answer(tag, v) == [tag |-> tag, value |-> v]
Access(s, i, v, a) == [op |-> s.op, site |-> s, id |-> i, value |-> v, answer |-> a]

ShapeHit(s, o) == ic[s].shape # NoShape /\ ic[s].shape = o.shape
ClassHit(s, o) == ic[s].klass = o.klass
CacheShape(s, o, name) ==
  [ic EXCEPT ![s] = [@ EXCEPT !.shape = o.shape, !.offset = getOffset(o.shape, name)]]
CacheMethod(s, o, m) == [ic EXCEPT ![s] = [@ EXCEPT !.klass = o.klass, !.method = m]]
MissedBy(c, name) ==
  LET hook == findGetattrHook(c, name)
  IN IF IsCallable(hook) THEN Answer("hook", hook) ELSE Answer("missing", Nil)

\* 1. The shape in the site's entry: the value at the remembered offset.
LoadFieldHit(s, i) ==
  /\ ShapeHit(s, heap[i])
  /\ last' = Access(s, i, Nil, Answer("value", heap[i].values[ic[s].offset]))
  /\ UNCHANGED ic

\* 2. The class in the site's entry: the remembered method, bound.
LoadMethodHit(s, i) ==
  /\ ~ShapeHit(s, heap[i])
  /\ ClassHit(s, heap[i])
  /\ last' = Access(s, i, Nil, Answer("bound", ic[s].method))
  /\ UNCHANGED ic

\* 3. The lookup, which fills the entry.
LoadLookup(s, i) ==
  LET o == heap[i]
      v == getProperty(o, s.name)
      isField == hasProperty(o, s.name)
      isMethod == ~isField /\ IsCallable(v)
      allowed == MayUse(s.fn, o.klass, s.name)
      found == isField \/ v # Nil
  IN /\ ~ShapeHit(s, o) /\ ~ClassHit(s, o)
     /\ ic' = IF ~allowed \/ ~found THEN ic
              ELSE IF isField THEN CacheShape(s, o, s.name)
              ELSE IF isMethod THEN CacheMethod(s, o, v)
              ELSE ic
     /\ last' = Access(s, i, Nil,
                  IF ~allowed THEN Answer("hidden", Nil)
                  ELSE IF ~found THEN MissedBy(o.klass, s.name)
                  ELSE Answer(IF isMethod THEN "bound" ELSE "value", v))

SameObjects == UNCHANGED <<world, classes, heap, db, snap, native, told, since, around, foreign>>

LoadProperty(s, i) ==
  /\ s.op = "load"
  /\ LoadFieldHit(s, i) \/ LoadMethodHit(s, i) \/ LoadLookup(s, i)
  /\ SameObjects

\* obj.name(...): a class hit calls the method with self; only a genuine
\* method fills the entry; a callable in a field is called as it is.
InvokeHit(s, i) ==
  /\ ClassHit(s, heap[i])
  /\ last' = Access(s, i, Nil, Answer("bound", ic[s].method))
  /\ UNCHANGED ic

InvokeLookup(s, i) ==
  LET o == heap[i]
      v == getProperty(o, s.name)
      isMethod == ~hasProperty(o, s.name) /\ IsCallable(v)
      allowed == MayUse(s.fn, o.klass, s.name)
  IN /\ ~ClassHit(s, o)
     /\ ic' = IF allowed /\ isMethod THEN CacheMethod(s, o, v) ELSE ic
     /\ last' = Access(s, i, Nil,
                  IF ~allowed THEN Answer("hidden", Nil)
                  ELSE IF v = Nil THEN MissedBy(o.klass, s.name)
                  ELSE Answer(IF isMethod THEN "bound" ELSE "value", v))

InvokeMethod(s, i) ==
  /\ s.op = "invoke"
  /\ InvokeHit(s, i) \/ InvokeLookup(s, i)
  /\ SameObjects

\* super.name in a task of model s.fn, which the compiler takes only of a
\* model with a parent: the walk from the parent, bound to self.
LoadSuper(s, i) ==
  /\ s.op = "super"
  /\ s.fn \in Up(classes, heap[i].klass)
  /\ classes[s.fn].parent # None
  /\ LET m == classMember(classes[s.fn].parent, s.name)
     IN last' = Access(s, i, Nil, IF m = Nil THEN Answer("missing", Nil)
                                  ELSE Answer(IF IsCallable(m) THEN "bound" ELSE "value", m))
  /\ UNCHANGED ic
  /\ SameObjects

\* Model.name: statics of the class itself, its methods, its name, a hook.
LoadFromClass(c, s) ==
  LET k == classes[c]
      hook == findStaticHook(c, s.name)
  IN IF ~MayUse(s.fn, c, s.name) THEN Answer("hidden", Nil)
     ELSE IF s.name \in DOMAIN k.statics THEN Answer("value", k.statics[s.name])
     ELSE IF s.name \in DOMAIN k.methods THEN Answer("value", k.methods[s.name])
     ELSE IF s.name = "name" THEN Answer("value", <<"str", c>>)
     ELSE IF IsCallable(hook) THEN Answer("hook", hook)
     ELSE Answer("missing", Nil)

\* Model.name(...): only the statics of the class itself.
InvokeOnClass(c, s) ==
  IF ~MayUse(s.fn, c, s.name) THEN Answer("hidden", Nil)
  ELSE IF s.name \in DOMAIN classes[c].statics /\ IsCallable(classes[c].statics[s.name])
       THEN Answer("value", classes[c].statics[s.name])
  ELSE Answer("missing", Nil)

AccessClass(s, c) ==
  /\ c \in DOMAIN classes
  /\ \/ s.op = "loadclass" /\ last' = Access(s, c, Nil, LoadFromClass(c, s))
     \/ s.op = "invokeclass" /\ last' = Access(s, c, Nil, InvokeOnClass(c, s))
  /\ UNCHANGED ic
  /\ SameObjects

StoreInClass(s, c, v) ==
  /\ s.op = "storeclass"
  /\ c \in DOMAIN classes
  /\ LET allowed == MayUse(s.fn, c, s.name)
     IN /\ classes' = IF allowed
                      THEN [classes EXCEPT ![c].statics = With(@, s.name, v)]
                      ELSE classes
        /\ last' = Access(s, c, v, Answer(IF allowed THEN "stored" ELSE "hidden", Nil))
  /\ UNCHANGED <<world, heap, ic, db, snap, native, told, since, around, foreign>>

\* obj is name: the models and the interfaces of the chain.
isInstanceOf(i, name) ==
  \E k \in Up(classes, heap[i].klass) : name = k \/ name \in world.models[k].interfaces

TestInstance(i, name) ==
  /\ last' = [op |-> "is", id |-> i, name |-> name, answer |-> isInstanceOf(i, name)]
  /\ UNCHANGED ic
  /\ SameObjects

(***************************************************************************)
(* Writing a property                                                      *)
(***************************************************************************)
Told(i, name, v) == told' = [told EXCEPT ![i] = With(@, name, v)]

\* The body of a __setattr__ is setattr(self, name, v), as the VM's comment
\* on the hooks prescribes: it writes the object itself.
RunSetattrHook(s, i, v) ==
  /\ IsCallable(findSetattrHook(heap[i].klass, s.name))
  /\ heap' = [heap EXCEPT ![i] = setProperty(@, s.name, v)]
  /\ Told(i, s.name, v)
  /\ around' = around \cup {i}
  /\ last' = Access(s, i, v, Answer("hook", findSetattrHook(heap[i].klass, s.name)))
  /\ UNCHANGED <<ic, db>>

\* Neither hook nor behaviour: through the site's entry, or by name.
StoreFieldHit(s, i, v) ==
  /\ ShapeHit(s, heap[i])
  /\ heap' = [heap EXCEPT ![i].values[ic[s].offset] = v]
  /\ Told(i, s.name, v)
  /\ last' = Access(s, i, v, Answer("stored", Nil))
  /\ UNCHANGED ic

StoreByName(s, i, v) ==
  LET o == setProperty(heap[i], s.name, v)
      allowed == MayUse(s.fn, o.klass, s.name)
  IN /\ ~ShapeHit(s, heap[i])
     /\ heap' = IF allowed THEN [heap EXCEPT ![i] = o] ELSE heap
     /\ ic' = IF allowed THEN CacheShape(s, o, s.name) ELSE ic
     /\ IF allowed THEN Told(i, s.name, v) ELSE UNCHANGED told
     /\ last' = Access(s, i, v, Answer(IF allowed THEN "stored" ELSE "hidden", Nil))

\* [.., obj.name] = ..: no behaviour of the model is consulted.
StoreProperty(s, i, v) ==
  /\ s.op = "store"
  /\ \/ RunSetattrHook(s, i, v)
     \/ /\ ~IsCallable(findSetattrHook(heap[i].klass, s.name))
        /\ StoreFieldHit(s, i, v) \/ StoreByName(s, i, v)
        /\ around' = IF behaviors(heap[i].klass) THEN around \cup {i} ELSE around
        /\ UNCHANGED db
  /\ UNCHANGED <<world, classes, snap, native, since, foreign>>

StorePlain(s, i, v) ==
  /\ ~behaviors(heap[i].klass)
  /\ ~IsCallable(findSetattrHook(heap[i].klass, s.name))
  /\ IF MayUse(s.fn, heap[i].klass, s.name)
     THEN StoreFieldHit(s, i, v) \/ StoreByName(s, i, v)
     ELSE /\ last' = Access(s, i, v, Answer("hidden", Nil))
          /\ UNCHANGED <<heap, ic, told>>
  /\ UNCHANGED <<around, db>>

\* The validators of the model itself; a rule is the set of values it accepts:
\* minlen, maxlen, email and pattern take strings only, min and max numbers
\* only (the others' asFloat() throws, which is a fault as well).
\* Mutant: a rule only looks at strings.
ValidatesStrings(c, name, v) ==
  name \in DOMAIN classes[c].rules /\ v[1] = "str" => v \in classes[c].rules[name]
Validates(c, name, v) == name \in DOMAIN classes[c].rules => v \in classes[c].rules[name]

Logged(o, name, v, via) ==
  IF classes[o.klass].audited
  THEN [o EXCEPT !.audit = Append(@, [field |-> name, old |-> getProperty(o, name),
                                      new |-> v, via |-> via])]
  ELSE o

\* A write made by a cached task of the same instance spares the entries of
\* its own.
Invalidated(o, own) ==
  [o EXCEPT !.cache = [k \in DOMAIN @ |-> [result |-> @[k].result,
                                           dirty |-> k[1] \notin own \/ @[k].dirty]]]

\* Mutant: the log entry is made after the write.
AssignedBeforeLog(o, name, v, via, own) ==
  LET written == Logged(setProperty(o, name, v), name, v, via)
  IN IF classes[o.klass].hasCached THEN Invalidated(written, own) ELSE written

\* The part of an intercepted write that is past validation and visibility.
Assigned(o, name, v, via, own) ==
  LET written == setProperty(Logged(o, name, v, via), name, v)
  IN IF classes[o.klass].hasCached THEN Invalidated(written, own) ELSE written

Persisted(c, name, v) == IF classes[c].persist THEN With(db, name, v[2]) ELSE db
LogHasRoom(i) == Len(heap[i].audit) < MaxLog

StoreWithBehaviors(s, i, v) ==
  LET c == heap[i].klass
      tag == IF ~Validates(c, s.name, v) THEN "invalid"
             ELSE IF ~MayUse(s.fn, c, s.name) THEN "hidden"
             ELSE "stored"
  IN /\ behaviors(c)
     /\ ~IsCallable(findSetattrHook(c, s.name))
     /\ LogHasRoom(i)
     /\ last' = Access(s, i, v, Answer(tag, Nil))
     /\ IF tag = "stored"
        THEN /\ heap' = [heap EXCEPT ![i] = Assigned(@, s.name, v, s.fn, {})]
             /\ db' = Persisted(c, s.name, v)
             /\ Told(i, s.name, v)
        ELSE UNCHANGED <<heap, db, told>>
     /\ UNCHANGED <<ic, around>>

\* obj.name = v
InterceptedStoreProperty(s, i, v) ==
  /\ s.op = "istore"
  /\ RunSetattrHook(s, i, v) \/ StorePlain(s, i, v) \/ StoreWithBehaviors(s, i, v)
  /\ UNCHANGED <<world, classes, snap, native, since, foreign>>

\* setattr(obj, name, v) outside a hook
Setattr(i, name, v) ==
  /\ heap' = [heap EXCEPT ![i] = setProperty(@, name, v)]
  /\ Told(i, name, v)
  /\ around' = around \cup {i}
  /\ last' = Quiet
  /\ UNCHANGED <<world, classes, ic, db, snap, native, since, foreign>>

(***************************************************************************)
(* @cached.  A cached task t(arg) reads one property, keeps its own books  *)
(* in another, and gives what it read with its argument.  The prologue     *)
(* looks for a clean result under the text of the arguments as passed,     *)
(* before defaults are filled in; the epilogue stores the result under the *)
(* arguments as they are then.                                             *)
(***************************************************************************)
\* The models of n's line that declare the task or property, and the one
\* whose task a call on an instance of n runs.
Declaring(n, name) == {k \in Up(world.models, n) : name \in DOMAIN Own(k, FALSE)}
Owner(n, t) == First(world.models, Declaring(n, t))
IsCached(n, t) == Declaring(n, t) # {} /\ t \in DOMAIN world.models[Owner(n, t)].cached
Body(n, t) == world.models[Owner(n, t)].cached[t]
Filled(body, arg) == IF arg = Nil THEN body.default ELSE arg

Miss == <<>>
CacheKey(t, arg) == <<t, arg[2]>>
GetCachedResult(o, t, arg) ==
  IF CacheKey(t, arg) \in DOMAIN o.cache /\ ~o.cache[CacheKey(t, arg)].dirty
  THEN o.cache[CacheKey(t, arg)].result ELSE Miss
StoreCachedResult(o, t, arg, r) ==
  [o EXCEPT !.cache = With(@, CacheKey(t, arg), [result |-> r, dirty |-> FALSE])]

\* The task's own `self.name = x`: a hook takes it, a rule refuses it and the
\* task ends with the fault, or it is stored and the result after it.
KeepBooks(i, t, name, x, result) ==
  LET o == heap[i]
      hooked == IsCallable(findSetattrHook(o.klass, name))
      Keep(p) == heap' = [heap EXCEPT ![i] = StoreCachedResult(p, t, x, result)]
  IN \/ /\ hooked
        /\ Keep(setProperty(o, name, x))
        /\ Told(i, name, x)
        /\ around' = around \cup {i}
        /\ UNCHANGED db
     \/ /\ ~hooked /\ ~Validates(o.klass, name, x)
        /\ UNCHANGED <<heap, told, around, db>>
     \/ /\ ~hooked /\ Validates(o.klass, name, x)
        /\ Keep(Assigned(o, name, x, t, {t}))
        /\ Told(i, name, x)
        /\ db' = Persisted(o.klass, name, x)
        /\ UNCHANGED around

CallCached(i, t, arg) ==
  LET o == heap[i]
      body == Body(o.klass, t)
      x == Filled(body, arg)
      hit == GetCachedResult(o, t, arg)
      result == <<getProperty(o, body.reads), x>>
  IN /\ IsCached(o.klass, t)
     /\ LogHasRoom(i)
     /\ \/ /\ hit # Miss
           /\ UNCHANGED <<heap, told, around, db>>
        \/ /\ hit = Miss /\ body.writes = None
           /\ heap' = [heap EXCEPT ![i] = StoreCachedResult(o, t, x, result)]
           /\ UNCHANGED <<told, around, db>>
        \/ /\ hit = Miss /\ body.writes # None
           /\ KeepBooks(i, t, body.writes, x, result)
     /\ last' = [op |-> "cached", id |-> i, task |-> t, arg |-> arg]
     /\ UNCHANGED <<world, classes, ic, snap, native, since, foreign>>

(***************************************************************************)
(* audit_clear(), snapshot(), rollback()                                   *)
(***************************************************************************)
AuditClear(i) ==
  /\ heap[i].audit # <<>>
  /\ heap' = [heap EXCEPT ![i].audit = <<>>]
  /\ since' = [since EXCEPT ![i] = told[i]]
  /\ last' = Quiet
  /\ UNCHANGED <<world, classes, ic, db, snap, native, told, around, foreign>>

getPropertiesCopy(o) ==
  [x \in Range(o.shape.names) |-> o.values[getOffset(o.shape, x)]]

NoSnapshot == [props |-> NoFields, of |-> None]
Snapshot(i) ==
  /\ classes[heap[i].klass].snapshot
  /\ snap' = [props |-> getPropertiesCopy(heap[i]), of |-> i]
  /\ last' = Quiet
  /\ UNCHANGED <<world, classes, heap, ic, db, native, told, since, around, foreign>>

\* A native call runs to its end; nothing else runs meanwhile.
NoCall == [call |-> None, id |-> None, left |-> NoFields]
Native(call, i, left) ==
  IF DOMAIN left = {} THEN NoCall ELSE [call |-> call, id |-> i, left |-> left]
LeftBut(x) == Restrict(native.left, DOMAIN native.left \ {x})

\* rollback() sets one property after the other, in the order of the
\* dictionary, which is any; it logs and invalidates but does not validate.
Rollback(i) ==
  /\ classes[heap[i].klass].snapshot
  /\ snap # NoSnapshot
  /\ Len(heap[i].audit) + Cardinality(DOMAIN snap.props) <= MaxLog
  /\ native' = Native("rollback", i, snap.props)
  /\ foreign' = IF snap.of \in around \cup foreign \/ heap[snap.of].klass # heap[i].klass
                THEN foreign \cup {i} ELSE foreign
  /\ last' = Quiet
  /\ UNCHANGED <<world, classes, heap, ic, db, snap, told, since, around>>

RestoreProperty(x) ==
  LET i == native.id
      v == native.left[x]
  IN /\ native.call = "rollback"
     /\ heap' = [heap EXCEPT ![i] = Assigned(@, x, v, "rollback", {})]
     /\ Told(i, x, v)
     /\ native' = Native("rollback", i, LeftBut(x))
     /\ last' = Quiet
     /\ UNCHANGED <<world, classes, ic, db, snap, since, around, foreign>>

(***************************************************************************)
(* @persist                                                                *)
(***************************************************************************)
\* What load() makes of a row's text.
Parsed(text) ==
  IF text \in {"true", "false"} THEN <<"bool", text>>
  ELSE IF text = "nil" THEN Nil
  ELSE IF text \in Digits THEN <<"float", text>>
  ELSE <<"str", text>>

\* load() makes an instance without its init and sets a property for each row.
LoadPersisted(i, c) ==
  /\ c \in DOMAIN classes
  /\ classes[c].persist
  /\ i \notin DOMAIN heap
  /\ heap' = With(heap, i, NewObject(c))
  /\ told' = With(told, i, NoFields)
  /\ since' = With(since, i, NoFields)
  /\ native' = Native("load", i, [x \in DOMAIN db |-> Parsed(db[x])])
  /\ last' = [op |-> "new", id |-> i, init |-> Nil]
  /\ UNCHANGED <<world, classes, ic, db, snap, around, foreign>>

LoadRow(x) ==
  LET i == native.id
      v == native.left[x]
  IN /\ native.call = "load"
     /\ heap' = [heap EXCEPT ![i] = setProperty(@, x, v)]
     /\ Told(i, x, v)
     /\ since' = [since EXCEPT ![i] = With(@, x, v)]
     /\ native' = Native("load", i, LeftBut(x))
     /\ last' = Quiet
     /\ UNCHANGED <<world, classes, ic, db, snap, around, foreign>>

\* The process ends and starts again: only the database is left.
Restart ==
  /\ world.restarts
  /\ classes' = NoFields /\ heap' = NoFields /\ ic' = [s \in world.sites |-> NoEntry]
  /\ told' = NoFields /\ since' = NoFields /\ around' = {} /\ foreign' = {}
  /\ snap' = NoSnapshot /\ native' = NoCall
  /\ last' = Quiet
  /\ UNCHANGED <<world, db>>

(***************************************************************************)
(* Specification                                                           *)
(***************************************************************************)
Init ==
  /\ world \in Worlds
  /\ classes = NoFields /\ heap = NoFields /\ db = NoFields
  /\ ic = [s \in world.sites |-> NoEntry]
  /\ snap = NoSnapshot
  /\ native = NoCall
  /\ last = Quiet
  /\ told = NoFields /\ since = NoFields /\ around = {} /\ foreign = {}

Step ==
  \/ \E n \in DOMAIN world.models : DeclareModel(n)
  \/ \E i \in world.ids, c \in DOMAIN world.models : NewInstance(i, c) \/ LoadPersisted(i, c)
  \/ \E s \in world.sites, i \in DOMAIN heap :
       LoadProperty(s, i) \/ InvokeMethod(s, i) \/ LoadSuper(s, i)
  \/ \E s \in world.sites, i \in DOMAIN heap, v \in world.values :
       StoreProperty(s, i, v) \/ InterceptedStoreProperty(s, i, v)
  \/ \E s \in world.sites, c \in DOMAIN world.models : AccessClass(s, c)
  \/ \E s \in world.sites, c \in DOMAIN world.models, v \in world.values : StoreInClass(s, c, v)
  \/ \E i \in DOMAIN heap, n \in world.asked : TestInstance(i, n)
  \/ \E i \in DOMAIN heap, x \in world.raw, v \in world.values : Setattr(i, x, v)
  \/ \E i \in DOMAIN heap, t \in world.tasks, a \in world.args : CallCached(i, t, a)
  \/ \E i \in DOMAIN heap : AuditClear(i) \/ Snapshot(i) \/ Rollback(i)

Next ==
  \/ native = NoCall /\ Step
  \/ \E x \in DOMAIN native.left : RestoreProperty(x) \/ LoadRow(x)
  \/ Restart

Spec == Init /\ [][Next]_vars

(***************************************************************************)
(* What the accesses should answer, from the declarations and the history  *)
(* of assignments alone: no shape, cache or flattened table is looked at.  *)
(***************************************************************************)
Line(n) == Up(world.models, n)

\* The nearest task or property of the name that a model of the line declares.
DeclaredValue(n, name) ==
  IF Declaring(n, name) = {} THEN Nil ELSE Own(Owner(n, name), FALSE)[name]

\* The nearest member of the name, static or not, says who may use it.
Naming(n, name) == {k \in Line(n) : name \in DOMAIN compileModel(k)}
HiddenFrom(fn, n, name) ==
  /\ Naming(n, name) # {}
  /\ ~compileModel(First(world.models, Naming(n, name)))[name].public
  /\ fn \notin Line(n)

\* The nearest hook that is not nil, if it can be called.
Hooking(n, hook) == {k \in Declaring(n, hook) : Own(k, FALSE)[hook] # Nil}
HookOf(n, hook, name) ==
  IF name \in Dunder \/ Hooking(n, hook) = {} THEN Nil
  ELSE Own(First(world.models, Hooking(n, hook)), FALSE)[hook]
Reading(i, name) ==
  IF name \in DOMAIN told[i] THEN told[i][name] ELSE DeclaredValue(heap[i].klass, name)

ExpectedRead(s, i) ==
  LET n == heap[i].klass
      v == Reading(i, s.name)
      isField == s.name \in DOMAIN told[i]
      hook == HookOf(n, "__getattr__", s.name)
  IN IF HiddenFrom(s.fn, n, s.name) THEN Answer("hidden", Nil)
     ELSE IF v = Nil /\ ~(isField /\ s.op = "load")
          THEN IF IsCallable(hook) THEN Answer("hook", hook) ELSE Answer("missing", Nil)
     ELSE Answer(IF ~isField /\ IsCallable(v) THEN "bound" ELSE "value", v)

ExpectedWrite(s, i, v) ==
  LET n == heap[i].klass
      hook == HookOf(n, "__setattr__", s.name)
      ruled == s.op = "istore" /\ s.name \in DOMAIN world.models[n].rules
  IN IF IsCallable(hook) THEN Answer("hook", hook)
     ELSE IF ruled /\ v \notin world.models[n].rules[s.name] THEN Answer("invalid", Nil)
     ELSE IF HiddenFrom(s.fn, n, s.name) THEN Answer("hidden", Nil)
     ELSE Answer("stored", Nil)

\* A task was remembered for the class at the site, and the instance was
\* given a property of the same name later: the entry still answers.
Shadowed(s, i) == ClassHit(s, heap[i]) /\ s.name \in DOMAIN told[i]

(***************************************************************************)
(* Properties                                                              *)
(***************************************************************************)
\* Every read, call and write through a site answers what the declarations
\* and the assignments say, whatever its inline cache holds: a property's
\* last value, the nearest task of the model's line, the hook, or the fault;
\* a hidden member answers only functions of the model's line.  The cache
\* may prefer a task to a property that was added later.
AccessesAnswerRight ==
  /\ last.op \in {"load", "invoke"} =>
       \/ last.answer = ExpectedRead(last.site, last.id)
       \/ Shadowed(last.site, last.id) /\ last.answer.tag = "bound"
  /\ last.op \in {"store", "istore"} =>
       last.answer = ExpectedWrite(last.site, last.id, last.value)
  /\ last.op = "super" =>
       last.answer.value = DeclaredValue(world.models[last.site.fn].parent, last.site.name)
  /\ last.op \in {"loadclass", "invokeclass", "storeclass"} =>
       (last.answer.tag = "hidden" <=> HiddenFrom(last.site.fn, last.id, last.site.name))

\* The log of an audited instance accounts for every assignment made
\* through `obj.name = v` or rollback() since it was cleared: the first entry
\* of a property starts from the value before, each later one from what the
\* entry before it left, and the last one is the value now.
AuditAccounts ==
  \A i \in DOMAIN heap \ around : world.models[heap[i].klass].audited =>
    \A x \in DOMAIN told[i] :
      LET log == heap[i].audit
          made == {k \in DOMAIN log : log[k].field = x}
          before == IF x \in DOMAIN since[i] THEN since[i][x]
                    ELSE DeclaredValue(heap[i].klass, x)
      IN /\ made = {} => told[i][x] = before
         /\ \A k \in made :
              /\ (\A j \in made : k <= j) => log[k].old = before
              /\ \A j \in made : j < k /\ (\A m \in made : m <= j \/ k <= m) => log[k].old = log[j].new
              /\ (\A j \in made : j <= k) => told[i][x] = log[k].new

\* A clean result is the one the task would compute now, for an argument of
\* the key's text, unless the instance was written around the interception.
CachedResultsFresh ==
  \A i \in DOMAIN heap \ around : \A k \in DOMAIN heap[i].cache :
    ~heap[i].cache[k].dirty =>
      /\ heap[i].cache[k].result[1] = Reading(i, Body(heap[i].klass, k[1]).reads)
      /\ heap[i].cache[k].result[2][2] = k[2]

\* The rule of a property accepts the value.
Accepted(n, x, v) == v \in world.models[n].rules[x]

\* A persisted model may also hold what load() makes of the text of a value
\* the rule accepted, which need not be a value it accepts.
Permitted(n, x, v) ==
  \/ Accepted(n, x, v)
  \/ world.models[n].persist /\ \E u \in world.models[n].rules[x] : v = Parsed(u[2])

\* Every property of a validated model holds a value its rule accepts, or one
\* load() read back from the text of such a value, and every row a restart
\* would load is the text of a value the rule accepts, unless the instance was
\* written around the interception or rolled back to values of one that was.
RulesHold ==
  /\ \A i \in DOMAIN heap \ (around \cup foreign) : \A x \in DOMAIN told[i] :
       x \in DOMAIN world.models[heap[i].klass].rules => Permitted(heap[i].klass, x, told[i][x])
  /\ \A n \in DOMAIN world.models : world.models[n].persist =>
       \A x \in DOMAIN db \cap DOMAIN world.models[n].rules :
         \E v \in world.models[n].rules[x] : v[2] = db[x]

\* load() gives "an instance carrying the saved values": of a property with a
\* rule only values the rule accepts are saved, so it carries one of those.
SavedValuesLoad ==
  \A i \in DOMAIN heap \ (around \cup foreign) : \A x \in DOMAIN told[i] :
    x \in DOMAIN world.models[heap[i].klass].rules => Accepted(heap[i].klass, x, told[i][x])

\* Writing to any property of an instance invalidates its cached results.
EveryWriteInvalidates ==
  \A i \in DOMAIN heap : \A k \in DOMAIN heap[i].cache :
    ~heap[i].cache[k].dirty =>
      heap[i].cache[k].result[1] = Reading(i, Body(heap[i].klass, k[1]).reads)
=============================================================================
