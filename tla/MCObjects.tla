----------------------------- MODULE MCObjects -----------------------------
(***************************************************************************)
(* Instances of Objects and RateLimiter: small programs around each        *)
(* mechanism of models, and one whose limited tasks two threads call.      *)
(***************************************************************************)
EXTENDS Objects, RateLimiter

CONSTANTS ping, poll, t1, t2

Whole(t) == <<"int", t>>
Word(t) == <<"str", t>>
Site(fn, op, name) == [fn |-> fn, op |-> op, name |-> name]
Open(v) == Member(v, FALSE, TRUE)
Hidden(v) == Member(v, FALSE, FALSE)
Static(v) == Member(v, TRUE, TRUE)
Model(parent, members) ==
  [parent |-> parent, members |-> members, init |-> "init", interfaces |-> {}, requires |-> {},
   audited |-> FALSE, snapshot |-> FALSE, persist |-> FALSE, rules |-> NoFields,
   cached |-> NoFields]
World(models, sites) ==
  [models |-> models, sites |-> sites, ids |-> {"i", "j"}, values |-> {Whole("1")},
   asked |-> {}, raw |-> {}, tasks |-> {}, args |-> {}, restarts |-> FALSE]

\* A hidden property and tasks along a line of two models; a subclass adds a
\* property, a third model declares the same names on its own.
Animal == Model(None, ("secret" :> Hidden(Whole("0"))) @@ ("speak" :> Open(Task("Animal.speak"))))
Dog == Model("Animal", ("speak" :> Open(Task("Dog.speak"))))
Rock == Model(None, ("secret" :> Open(Whole("2"))) @@ ("speak" :> Hidden(Task("Rock.speak"))))
Visibility ==
  World(("Animal" :> Animal) @@ ("Dog" :> Dog) @@ ("Rock" :> Rock),
        {Site("", "load", "secret"), Site("Animal", "istore", "secret"),
         Site("Animal", "load", "secret"), Site("", "invoke", "speak"), Site("Dog", "super", "speak")})

\* Two properties added in either order to two instances.
Layout ==
  [World(("Animal" :> Animal),
         {Site("", "istore", "a"), Site("", "store", "b"), Site("", "load", "a")})
     EXCEPT !.values = {Whole("1"), Whole("2")}]

\* A property that takes the name of a task, and one that holds a task.
Shadow ==
  [World(("Animal" :> Animal),
         {Site("", "istore", "speak"), Site("", "load", "speak"), Site("", "invoke", "speak"),
          Site("", "istore", "f"), Site("", "invoke", "f")})
     EXCEPT !.ids = {"i"}, !.values = {Whole("1"), Task("f")}]

\* Hooks, of an instance and of the class, inherited and not; interfaces.
Proxy ==
  [Model(None, ("__getattr__" :> Open(Task("Proxy.get"))) @@ ("__setattr__" :> Open(Task("Proxy.set")))
               @@ ("made" :> Static(Whole("0"))) @@ ("make" :> Member(Task("make"), TRUE, FALSE)))
     EXCEPT !.interfaces = {"Reader"}, !.requires = {"__getattr__"}]
Wrap == Model("Proxy", ("q" :> Open(Task("Wrap.q"))))
Broken == [Model(None, NoFields) EXCEPT !.interfaces = {"Reader"}, !.requires = {"read"}]
Hooked == Model(None, ("__getattr__" :> Static(Task("Hooked.get"))))
Hooks ==
  [World(("Proxy" :> Proxy) @@ ("Wrap" :> Wrap) @@ ("Broken" :> Broken) @@ ("Hooked" :> Hooked),
         {Site("", "istore", "q"), Site("", "store", "q"), Site("", "load", "q"),
          Site("", "invoke", "q"), Site("", "loadclass", "made"), Site("", "storeclass", "made"),
          Site("", "invokeclass", "make"), Site("Wrap", "invokeclass", "make")})
     EXCEPT !.ids = {"i"}, !.asked = {"Reader"}]

\* Cached tasks with their own books and defaults, on an audited model with
\* snapshots and a rule, and on a subclass that inherits the tasks only.
Cart ==
  [Model(None, ("area" :> Open(Task("Cart.area"))) @@ ("count" :> Open(Task("Cart.count")))
               @@ ("price" :> Open(Whole("0"))))
     EXCEPT !.audited = TRUE, !.snapshot = TRUE, !.rules = "price" :> {Whole("1"), Whole("2")},
            !.cached = ("area" :> [reads |-> "price", writes |-> "used", default |-> Whole("1")])
                       @@ ("count" :> [reads |-> "used", writes |-> None, default |-> Whole("1")])]
Carts ==
  [World(("Cart" :> Cart), {Site("", "istore", "price")})
     EXCEPT !.ids = {"i"}, !.values = {Whole("1"), Whole("3")},
            !.tasks = {"area", "count"}, !.args = {Nil, Whole("2")}]
Basket == [Cart EXCEPT !.audited = FALSE, !.snapshot = FALSE,
                       !.rules = ("price" :> {Whole("1"), Whole("2")}) @@ ("used" :> {Whole("1")})]
SubBasket == Model("Basket", NoFields)
SubBaskets ==
  [World(("Basket" :> Basket) @@ ("SubBasket" :> SubBasket),
         {Site("", "istore", "price"), Site("", "store", "price")})
     EXCEPT !.ids = {"i"}, !.values = {Whole("1"), Whole("2")}, !.raw = {"used"},
            !.tasks = {"area", "count"}, !.args = {Nil}]

\* A hook takes the writes of a cached task; a rule refuses one.
Meter ==
  [Cart EXCEPT !.members = @ @@ ("__setattr__" :> Open(Task("Meter.set"))), !.audited = FALSE,
               !.snapshot = FALSE]
Till == [Basket EXCEPT !.snapshot = TRUE]
Meters ==
  [World(("Meter" :> Meter) @@ ("Till" :> Till), {Site("", "istore", "price")})
     EXCEPT !.tasks = {"area"}, !.args = {Nil, Whole("2")}]

\* Settings kept in a database across restarts: a theme of at most five
\* characters and a size between 1 and 2.
Settings ==
  [Model(None, ("theme" :> Open(Word("dark"))) @@ ("size" :> Hidden(Whole("1"))))
     EXCEPT !.persist = TRUE,
            !.rules = ("theme" :> {Word("dark"), Word("light"), Word("2")})
                      @@ ("size" :> {"int", "float"} \X {"1", "2"})]
Persistence ==
  [World(("Settings" :> Settings),
         {Site("", "istore", "theme"), Site("", "istore", "size"), Site("Settings", "istore", "size")})
     EXCEPT !.values = {Word("light"), Word("2"), Whole("2"), Whole("3")},
            !.restarts = TRUE]
Saved == {Persistence}

\* Only assignments, plain and destructuring.
Assignments == {[SubBaskets EXCEPT !.raw = {}]}

-----------------------------------------------------------------------------
(* No models, and two limited tasks.                                       *)

Limits == World(NoFields, {})
MCThreads == {t1, t2}
MCTasks == {ping, poll}
OwnNames == (ping :> "ping") @@ (poll :> "poll")
MCCount == (ping :> 2) @@ (poll :> 1)
MCPer == (ping :> 2) @@ (poll :> 3)
Symmetric == Permutations(MCThreads)

\* Two tasks that happen to have one name, the one with a short period.
OneName == (ping :> "ping") @@ (poll :> "ping")
SharedCount == (ping :> 2) @@ (poll :> 2)
SharedPer == (ping :> 1) @@ (poll :> 3)

-----------------------------------------------------------------------------
MCWorlds == {Visibility, Layout, Shadow, Hooks, Carts, SubBaskets, Meters, Persistence, Limits}

MCInit == Init /\ LimiterInit
MCNext ==
  \/ world # Limits /\ Next /\ UNCHANGED limiterVars
  \/ world = Limits /\ LimiterNext /\ UNCHANGED vars
MCSpec == MCInit /\ [][MCNext]_<<vars, limiterVars>>
=============================================================================
