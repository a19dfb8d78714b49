--------------------------- MODULE VMUnwindProofs ---------------------------
(***************************************************************************)
(* Frames, try blocks and nested run() invocations, for any number of      *)
(* frames, of nested calls and of try statements.                          *)
(*                                                                         *)
(* The argument.  What the code is inside is written in the frames (a try  *)
(* statement whose body is being executed: a "body"), what the VM believes *)
(* in tryStack.  The two agree (Exact), entry for entry and in order, so   *)
(* the last try block is the innermost body: TRY_END, RETURN and a fault   *)
(* take away exactly the entries whose bodies they end.  For a fault that  *)
(* needs to know whose handlers are whose: every run() was started on a    *)
(* frame of its own, above those of the run() around it, and remembers how *)
(* many there were (OwnRuns).  A run() without a handler therefore drops   *)
(* only frames that have no body left.                                     *)
(***************************************************************************)
EXTENDS VMUnwind, SequenceTheorems, TLAPS

-----------------------------------------------------------------------------
(* Sequences.                                                              *)

\* The first n elements.
LEMMA Prefix ==
  ASSUME NEW S, NEW s \in Seq(S), NEW n \in Int, n <= Len(s)
  PROVE  /\ SubSeq(s, 1, n) \in Seq(S)
         /\ n >= 0 => Len(SubSeq(s, 1, n)) = n
         /\ \A i \in 1 .. n : SubSeq(s, 1, n)[i] = s[i]
<1>1. Len(s) \in Nat /\ \A i \in 1 .. Len(s) : s[i] \in S
  BY LenProperties, ElementOfSeq
<1>2. \A i \in 1 .. n : s[i] \in S
  BY <1>1
<1>3. /\ SubSeq(s, 1, n) \in Seq(S)
      /\ Len(SubSeq(s, 1, n)) = IF 1 <= n THEN n - 1 + 1 ELSE 0
      /\ \A i \in 1 .. n - 1 + 1 : SubSeq(s, 1, n)[i] = s[1 + i - 1]
  BY <1>2, SubSeqProperties
<1> QED
  BY <1>3

\* The last element and the others.
LEMMA Ends ==
  ASSUME NEW S, NEW s \in Seq(S), s # <<>>
  PROVE  /\ Len(s) \in Nat \ {0} /\ Last(s) = s[Len(s)] /\ Last(s) \in S
         /\ Front(s) \in Seq(S) /\ Len(Front(s)) = Len(s) - 1
         /\ \A i \in 1 .. Len(s) - 1 : Front(s)[i] = s[i]
<1>1. Len(s) \in Nat \ {0} /\ \A i \in 1 .. Len(s) : s[i] \in S
  BY LenProperties, ElementOfSeq, EmptySeq
<1>2. Last(s) = s[Len(s)] /\ Front(s) = SubSeq(s, 1, Len(s) - 1)
  BY DEF Last, Front
<1>3. /\ SubSeq(s, 1, Len(s) - 1) \in Seq(S) /\ Len(SubSeq(s, 1, Len(s) - 1)) = Len(s) - 1
      /\ \A i \in 1 .. Len(s) - 1 : SubSeq(s, 1, Len(s) - 1)[i] = s[i]
  <2>1. Len(s) - 1 \in Int /\ Len(s) - 1 <= Len(s) /\ Len(s) - 1 >= 0
    BY <1>1
  <2> QED
    BY <2>1, Prefix
<1> QED
  BY <1>1, <1>2, <1>3

\* One element more.
LEMMA Longer ==
  ASSUME NEW S, NEW s \in Seq(S), NEW e \in S
  PROVE  /\ Append(s, e) \in Seq(S) /\ Len(Append(s, e)) = Len(s) + 1 /\ Append(s, e) # <<>>
         /\ \A i \in 1 .. Len(s) : Append(s, e)[i] = s[i]
         /\ Append(s, e)[Len(s) + 1] = e
<1>1. Len(s) \in Nat
  BY LenProperties
<1> QED
  BY <1>1, AppendProperties

-----------------------------------------------------------------------------
(* The bodies of try statements that a frame, and the frames, are inside.  *)
(* A body is named by its frame and its depth in it, as in a TryBlock.     *)

Opens(act, d) == d + 1 \in 1 .. Len(act) /\ act[d + 1].kind = "try"
BodyIn(fs, i, d) == i \in 1 .. Len(fs) /\ Opens(fs[i].active, d)
Before(a, b) == a.frame < b.frame \/ (a.frame = b.frame /\ a.depth < b.depth)

\* Entering a try statement opens a body.
LEMMA Entered ==
  ASSUME NEW act \in Seq(TryStatements), NEW x \in TryStatements, x.kind = "try"
  PROVE  \A d \in Nat : Opens(Append(act, x), d) <=> Opens(act, d) \/ d = Len(act)
<1>1. Len(act) \in Nat
  BY LenProperties
<1>2. /\ Len(Append(act, x)) = Len(act) + 1 /\ Append(act, x)[Len(act) + 1] = x
      /\ \A i \in 1 .. Len(act) : Append(act, x)[i] = act[i]
  BY Longer
<1> QED
  BY <1>1, <1>2 DEF Opens

\* Leaving a try statement, its body or its catch block, ends it.
LEMMA Left ==
  ASSUME NEW act \in Seq(TryStatements), act # <<>>
  PROVE  /\ \A d \in Nat : Opens(Front(act), d) <=> Opens(act, d) /\ d # Len(act) - 1
         /\ Opens(act, Len(act) - 1) <=> Last(act).kind = "try"
         /\ Len(act) - 1 \in Nat
<1>1. /\ Len(act) \in Nat \ {0} /\ Last(act) = act[Len(act)] /\ Len(Front(act)) = Len(act) - 1
      /\ \A i \in 1 .. Len(act) - 1 : Front(act)[i] = act[i]
  BY Ends
<1> QED
  BY <1>1 DEF Opens

\* Entering the handler of the body at depth n closes it and those in it.
LEMMA Caught ==
  ASSUME NEW act \in Seq(TryStatements), NEW n \in Nat, n <= Len(act),
         NEW x \in TryStatements, x.kind = "catch"
  PROVE  /\ SubSeq(act, 1, n) \o <<x>> \in Seq(TryStatements)
         /\ \A d \in Nat : Opens(SubSeq(act, 1, n) \o <<x>>, d) <=> Opens(act, d) /\ d < n
<1> DEFINE s == SubSeq(act, 1, n)
<1>1. s \in Seq(TryStatements) /\ Len(s) = n /\ \A i \in 1 .. n : s[i] = act[i]
  BY Prefix
<1>2. Len(act) \in Nat
  BY LenProperties
<1> HIDE DEF s
<1>3. Append(s, x) = s \o <<x>>
  BY <1>1
<1>4. /\ Append(s, x) \in Seq(TryStatements) /\ Len(Append(s, x)) = n + 1 /\ Append(s, x)[n + 1] = x
      /\ \A i \in 1 .. n : Append(s, x)[i] = s[i]
  BY <1>1, Longer
<1>5. \A d \in Nat : Opens(Append(s, x), d) <=> Opens(act, d) /\ d < n
  <2> SUFFICES ASSUME NEW d \in Nat
               PROVE  Opens(Append(s, x), d) <=> Opens(act, d) /\ d < n
    OBVIOUS
  <2>1. CASE d < n
    BY <1>1, <1>2, <1>4, <2>1 DEF Opens
  <2>2. CASE d = n
    BY <1>1, <1>2, <1>4, <2>2 DEF Opens
  <2>3. CASE d > n
    BY <1>1, <1>2, <1>4, <2>3 DEF Opens
  <2> QED
    BY <2>1, <2>2, <2>3
<1> QED
  BY <1>3, <1>4, <1>5 DEF s

\* A frame that is not inside a try statement has no body.
LEMMA NoneOpen ==
  \A d \in Nat : ~Opens(<<>>, d)
BY EmptySeq DEF Opens

\* The bodies of the frames below.
LEMMA FramesCut ==
  ASSUME NEW fs \in Seq(Frames), NEW n \in Nat, n <= Len(fs)
  PROVE  /\ SubSeq(fs, 1, n) \in Seq(Frames) /\ Len(SubSeq(fs, 1, n)) = n
         /\ \A i \in Nat, d \in Nat : BodyIn(SubSeq(fs, 1, n), i, d) <=> BodyIn(fs, i, d) /\ i <= n
<1>1. /\ SubSeq(fs, 1, n) \in Seq(Frames) /\ Len(SubSeq(fs, 1, n)) = n
      /\ \A i \in 1 .. n : SubSeq(fs, 1, n)[i] = fs[i]
  BY Prefix
<1>2. Len(fs) \in Nat
  BY LenProperties
<1> QED
  BY <1>1, <1>2 DEF BodyIn

\* The bodies when one more frame is pushed.
LEMMA FramePushed ==
  ASSUME NEW fs \in Seq(Frames), NEW f \in Frames, f.active = <<>>
  PROVE  /\ Append(fs, f) \in Seq(Frames) /\ Len(Append(fs, f)) = Len(fs) + 1
         /\ \A i \in Nat, d \in Nat : BodyIn(Append(fs, f), i, d) <=> BodyIn(fs, i, d)
<1>1. /\ Append(fs, f) \in Seq(Frames) /\ Len(Append(fs, f)) = Len(fs) + 1
      /\ \A i \in 1 .. Len(fs) : Append(fs, f)[i] = fs[i]
      /\ Append(fs, f)[Len(fs) + 1] = f /\ Len(fs) \in Nat
  BY Longer, LenProperties
<1>2. \A d \in Nat : ~Opens(f.active, d)
  BY NoneOpen
<1> QED
  BY <1>1, <1>2 DEF BodyIn

\* The bodies when the innermost frame is replaced.
LEMMA FrameChanged ==
  ASSUME NEW fs \in Seq(Frames), fs # <<>>, NEW f \in Frames
  PROVE  /\ [fs EXCEPT ![Len(fs)] = f] \in Seq(Frames)
         /\ Len([fs EXCEPT ![Len(fs)] = f]) = Len(fs)
         /\ \A i \in Nat, d \in Nat : BodyIn([fs EXCEPT ![Len(fs)] = f], i, d) <=>
              IF i = Len(fs) THEN Opens(f.active, d) ELSE BodyIn(fs, i, d)
<1> DEFINE gs == [fs EXCEPT ![Len(fs)] = f]
<1>1. Len(fs) \in Nat \ {0}
  BY LenProperties, EmptySeq
<1>2. gs \in Seq(Frames) /\ Len(gs) = Len(fs) /\ \A i \in 1 .. Len(fs) : gs[i] = IF i = Len(fs) THEN f ELSE fs[i]
  BY <1>1, ExceptSeq, LenProperties
<1> HIDE DEF gs
<1>3. \A i \in Nat, d \in Nat : BodyIn(gs, i, d) <=>
              IF i = Len(fs) THEN Opens(f.active, d) ELSE BodyIn(fs, i, d)
  BY <1>1, <1>2 DEF BodyIn
<1> QED
  BY <1>2, <1>3 DEF gs

-----------------------------------------------------------------------------
(* The inductive invariant.                                                *)

\* While the program runs a run() is on the stack, and a raised fault is in flight
\* only in a native.
Modes ==
  /\ mode \in {"exec", "native"} => runs # <<>> /\ runs[1].base = 1 /\ (running <=> pendingException # "raised")
  /\ mode \in {"ok", "uncaught"} => frames = <<>> /\ tryStack = <<>> /\ runs = <<>>
  /\ pendingException = "raised" => mode = "native"

\* Every run() was started on a frame of its own.
OwnRuns ==
  /\ \A k \in 1 .. Len(runs) : runs[k].base <= Len(frames)
  /\ \A k \in 1 .. Len(runs) : k > 1 => runs[k].framesBefore = runs[k].base - 1 /\ runs[k].saved
  /\ \A k, l \in 1 .. Len(runs) : k < l => runs[k].base < runs[l].base
  /\ Len(frames) <= Len(frameUpvalues)

\* The try blocks are the bodies the frames are inside, outermost first.
Exact ==
  /\ \A k \in 1 .. Len(tryStack) : BodyIn(frames, tryStack[k].frame, tryStack[k].depth)
  /\ \A i \in Nat, d \in Nat : BodyIn(frames, i, d) =>
        \E k \in 1 .. Len(tryStack) : tryStack[k].frame = i /\ tryStack[k].depth = d
  /\ \A k, l \in 1 .. Len(tryStack) : k < l => Before(tryStack[k], tryStack[l])

IInv == TypeOK /\ Modes /\ OwnRuns /\ Exact
Live == mode \in {"exec", "native"}

\* While the program runs there is a run(), and a frame that it owns.
LEMMA Alive ==
  ASSUME IInv, Live
  PROVE  /\ Len(frames) \in Nat \ {0} /\ frames # <<>> /\ Top = frames[Len(frames)] /\ Top \in Frames
         /\ Top.active \in Seq(TryStatements) /\ TempsFloor \in Nat
         /\ Len(runs) \in Nat \ {0} /\ Run = runs[Len(runs)] /\ Run \in Runs
         /\ Run.base \in 1 .. Len(frames)
         /\ \A k \in 1 .. Len(runs) : runs[k] \in Runs /\ 1 <= runs[k].base /\ runs[k].base <= Run.base
         /\ Len(runs) = 1 => Run.base = 1
         /\ frameUpvalues # <<>> /\ Len(frameUpvalues) \in Nat
<1>1. /\ frames \in Seq(Frames) /\ runs \in Seq(Runs) /\ frameUpvalues \in Seq(Closures)
      /\ runs # <<>> /\ runs[1].base = 1
  BY DEF IInv, TypeOK, Modes, Live
<1>2. /\ Len(runs) \in Nat \ {0} /\ Run = runs[Len(runs)] /\ Run \in Runs
      /\ \A k \in 1 .. Len(runs) : runs[k] \in Runs
  BY <1>1, Ends, ElementOfSeq DEF Run
<1>3. \A k \in 1 .. Len(runs) : 1 <= runs[k].base /\ runs[k].base <= Run.base
  <2> SUFFICES ASSUME NEW k \in 1 .. Len(runs)
               PROVE  1 <= runs[k].base /\ runs[k].base <= Run.base
    OBVIOUS
  <2>1. runs[k].base \in Nat /\ Run.base \in Nat
    BY <1>2 DEF Runs
  <2>2. k > 1 => 1 < runs[k].base
    BY <1>1, <1>2 DEF IInv, OwnRuns
  <2>3. k < Len(runs) => runs[k].base < Run.base
    BY <1>2 DEF IInv, OwnRuns
  <2>4. k = 1 \/ k > 1
    BY <1>2
  <2>5. k = Len(runs) \/ k < Len(runs)
    BY <1>2
  <2>6. 1 <= runs[k].base
    BY <1>1, <2>1, <2>2, <2>4
  <2>7. runs[k].base <= Run.base
    BY <1>2, <2>1, <2>3, <2>5
  <2> QED
    BY <2>6, <2>7
<1>4. Len(frames) \in Nat /\ Len(frameUpvalues) \in Nat
  BY <1>1, LenProperties
<1>5. Run.base \in 1 .. Len(frames)
  <2>1. Run.base <= Len(frames) /\ 1 <= Run.base /\ Run.base \in Nat
    BY <1>2, <1>3 DEF IInv, OwnRuns, Runs
  <2> QED
    BY <1>4, <2>1
<1>6. Len(frames) \in Nat \ {0} /\ frames # <<>>
  BY <1>4, <1>5, EmptySeq
<1>7. Top = frames[Len(frames)] /\ Top \in Frames
  BY <1>1, <1>6, Ends DEF Top
<1>8. Top.active \in Seq(TryStatements)
  BY <1>7 DEF Frames
<1>9. TempsFloor \in Nat
  <2>1. Top.active # <<>> => Last(Top.active) \in TryStatements
    BY <1>8, Ends
  <2> QED
    BY <2>1 DEF TempsFloor, TryStatements
<1>10. frameUpvalues # <<>>
  BY <1>4, <1>6, EmptySeq DEF IInv, OwnRuns
<1> QED
  BY <1>1, <1>2, <1>3, <1>4, <1>5, <1>6, <1>7, <1>8, <1>9, <1>10

\* The last try block is the innermost body of the frames.
LEMMA Innermost ==
  ASSUME IInv, Live, tryStack # <<>>
  PROVE  /\ Last(tryStack) = tryStack[Len(tryStack)] /\ Last(tryStack) \in TryBlocks
         /\ BodyIn(frames, Last(tryStack).frame, Last(tryStack).depth)
         /\ \A i \in Nat, d \in Nat : BodyIn(frames, i, d) =>
              \/ i < Last(tryStack).frame
              \/ i = Last(tryStack).frame /\ d <= Last(tryStack).depth
         /\ Last(tryStack).frame \in 1 .. Len(frames)
         /\ \A k \in 1 .. Len(tryStack) - 1 : Before(tryStack[k], Last(tryStack))
         /\ \A k \in 1 .. Len(tryStack) : tryStack[k] \in TryBlocks
<1>1. tryStack \in Seq(TryBlocks)
  BY DEF IInv, TypeOK
<1>2. /\ Len(tryStack) \in Nat \ {0} /\ Last(tryStack) = tryStack[Len(tryStack)]
      /\ Last(tryStack) \in TryBlocks /\ \A k \in 1 .. Len(tryStack) : tryStack[k] \in TryBlocks
  BY <1>1, Ends, ElementOfSeq
<1>3. \A k \in 1 .. Len(tryStack) - 1 : Before(tryStack[k], Last(tryStack))
  BY <1>2 DEF IInv, Exact
<1>4. BodyIn(frames, Last(tryStack).frame, Last(tryStack).depth)
  BY <1>2 DEF IInv, Exact
<1>5. ASSUME NEW i \in Nat, NEW d \in Nat, BodyIn(frames, i, d)
      PROVE  \/ i < Last(tryStack).frame
             \/ i = Last(tryStack).frame /\ d <= Last(tryStack).depth
  <2>1. PICK k \in 1 .. Len(tryStack) : tryStack[k].frame = i /\ tryStack[k].depth = d
    BY <1>5 DEF IInv, Exact
  <2>2. CASE k = Len(tryStack)
    BY <1>2, <2>1, <2>2
  <2>3. CASE k # Len(tryStack)
    <3>1. Before(tryStack[k], Last(tryStack))
      BY <1>2, <1>3, <2>3
    <3>2. Last(tryStack).depth \in Nat
      BY <1>2 DEF TryBlocks
    <3> QED
      BY <2>1, <3>1, <3>2 DEF Before
  <2> QED
    BY <2>2, <2>3
<1> QED
  BY <1>2, <1>3, <1>4, <1>5 DEF BodyIn

\* A frame whose operands and try statements change.
LEMMA FrameUpdated ==
  ASSUME NEW g \in Frames, NEW t \in Nat, NEW a \in Seq(TryStatements)
  PROVE  /\ [g EXCEPT !.temps = t, !.active = a] \in Frames
         /\ [g EXCEPT !.temps = t, !.active = a].active = a
         /\ [g EXCEPT !.temps = t] \in Frames /\ [g EXCEPT !.temps = t].active = g.active
         /\ [g EXCEPT !.active = a] \in Frames /\ [g EXCEPT !.active = a].active = a
BY DEF Frames

-----------------------------------------------------------------------------
(* What a step does to the try blocks and to the bodies, one lemma for     *)
(* each way.                                                               *)

\* Neither changes.
LEMMA SameBodies ==
  ASSUME Exact, UNCHANGED tryStack, tryStack \in Seq(TryBlocks),
         \A i \in Nat, d \in Nat : BodyIn(frames', i, d) <=> BodyIn(frames, i, d)
  PROVE  Exact'
<1>1. \A k \in 1 .. Len(tryStack) : tryStack[k] \in TryBlocks
  BY ElementOfSeq
<1>2. \A k \in 1 .. Len(tryStack) : tryStack[k].frame \in Nat /\ tryStack[k].depth \in Nat
  BY <1>1 DEF TryBlocks
<1> QED
  BY <1>2 DEF Exact

\* The first m try blocks are left, and theirs are the bodies that go on.
LEMMA FewerBodies ==
  ASSUME Exact, tryStack \in Seq(TryBlocks), NEW m \in Nat, m <= Len(tryStack),
         tryStack' = SubSeq(tryStack, 1, m),
         \A k \in 1 .. m : BodyIn(frames', tryStack[k].frame, tryStack[k].depth),
         \A k \in 1 .. Len(tryStack) :
            k > m => ~BodyIn(frames', tryStack[k].frame, tryStack[k].depth),
         \A i \in Nat, d \in Nat : BodyIn(frames', i, d) => BodyIn(frames, i, d)
  PROVE  Exact' /\ tryStack' \in Seq(TryBlocks)
<1>1. /\ tryStack' \in Seq(TryBlocks) /\ Len(tryStack') = m /\ \A k \in 1 .. m : tryStack'[k] = tryStack[k]
      /\ Len(tryStack) \in Nat
  BY Prefix, LenProperties
<1>2. \A k \in 1 .. Len(tryStack') : BodyIn(frames', tryStack'[k].frame, tryStack'[k].depth)
  BY <1>1
<1>3. ASSUME NEW i \in Nat, NEW d \in Nat, BodyIn(frames', i, d)
      PROVE  \E k \in 1 .. Len(tryStack') : tryStack'[k].frame = i /\ tryStack'[k].depth = d
  <2>1. PICK k \in 1 .. Len(tryStack) : tryStack[k].frame = i /\ tryStack[k].depth = d
    BY <1>3 DEF Exact
  <2>2. k <= m
    BY <1>1, <1>3, <2>1
  <2>3. k \in 1 .. Len(tryStack') /\ tryStack'[k] = tryStack[k]
    BY <1>1, <2>2
  <2> QED
    BY <2>1, <2>3
<1>4. \A k, l \in 1 .. Len(tryStack') : k < l => Before(tryStack'[k], tryStack'[l])
  <2> SUFFICES ASSUME NEW k \in 1 .. Len(tryStack'), NEW l \in 1 .. Len(tryStack'), k < l
               PROVE  Before(tryStack'[k], tryStack'[l])
    OBVIOUS
  <2>1. k \in 1 .. Len(tryStack) /\ l \in 1 .. Len(tryStack) /\ tryStack'[k] = tryStack[k] /\ tryStack'[l] = tryStack[l]
    BY <1>1
  <2> QED
    BY <2>1 DEF Exact
<1> QED
  BY <1>1, <1>2, <1>3, <1>4 DEF Exact

\* The innermost body ends, and its try block with it.
LEMMA InnermostEnds ==
  ASSUME IInv, Live, tryStack # <<>>, tryStack' = Front(tryStack),
         \A i \in Nat, d \in Nat : BodyIn(frames', i, d) <=>
            BodyIn(frames, i, d) /\ ~(i = Last(tryStack).frame /\ d = Last(tryStack).depth)
  PROVE  Exact' /\ tryStack' \in Seq(TryBlocks)
<1> DEFINE tb == Last(tryStack)
           m == Len(tryStack) - 1
<1>1. tryStack \in Seq(TryBlocks) /\ Exact
  BY DEF IInv, TypeOK
<1>2. Len(tryStack) \in Nat \ {0} /\ tryStack' = SubSeq(tryStack, 1, m)
  BY <1>1, LenProperties, EmptySeq DEF Front
<1>3. /\ tb = tryStack[Len(tryStack)] /\ \A k \in 1 .. m : Before(tryStack[k], tb)
      /\ \A k \in 1 .. Len(tryStack) : tryStack[k] \in TryBlocks
  BY Innermost
<1>4. \A k \in 1 .. Len(tryStack) : tryStack[k].frame \in Nat /\ tryStack[k].depth \in Nat
  BY <1>3 DEF TryBlocks
<1>5. \A k \in 1 .. m : BodyIn(frames', tryStack[k].frame, tryStack[k].depth)
  <2> SUFFICES ASSUME NEW k \in 1 .. m
               PROVE  BodyIn(frames', tryStack[k].frame, tryStack[k].depth)
    OBVIOUS
  <2>1. k \in 1 .. Len(tryStack) /\ Before(tryStack[k], tb) /\ tb.frame \in Nat /\ tb.depth \in Nat
    BY <1>2, <1>3, <1>4
  <2>2. BodyIn(frames, tryStack[k].frame, tryStack[k].depth)
    BY <1>1, <2>1 DEF Exact
  <2>3. ~(tryStack[k].frame = tb.frame /\ tryStack[k].depth = tb.depth)
    BY <1>4, <2>1 DEF Before
  <2> QED
    BY <1>4, <2>1, <2>2, <2>3
<1>6. \A k \in 1 .. Len(tryStack) : k > m => ~BodyIn(frames', tryStack[k].frame, tryStack[k].depth)
  BY <1>2, <1>3, <1>4
<1>7. m \in Nat /\ m <= Len(tryStack)
  BY <1>2
<1> HIDE DEF m, tb
<1> QED
  BY <1>1, <1>2, <1>5, <1>6, <1>7, FewerBodies

\* A fault reaches the innermost handler, and this run() owns it.
LEMMA EnterStep ==
  ASSUME IInv, Live, OwnsTryBlock, NEW top \in Int, EnterHandler(top)
  PROVE  IInv'
<1> DEFINE tb == Last(tryStack)
           n == tb.frame
           entered == frames[n].active[tb.depth + 1]
           gs == SubSeq(frames, 1, n)
           x == [kind |-> "catch", temps |-> entered.temps]
           a == SubSeq(frames[n].active, 1, tb.depth) \o <<x>>
           f == [frames[n] EXCEPT !.temps = entered.temps + 1, !.active = a]
<1>1. /\ tryStack # <<>> /\ n >= Run.base
  BY DEF OwnsTryBlock
<1>2. /\ tb \in TryBlocks /\ BodyIn(frames, n, tb.depth) /\ n \in 1 .. Len(frames)
      /\ \A i \in Nat, d \in Nat : BodyIn(frames, i, d) => i < n \/ (i = n /\ d <= tb.depth)
  BY <1>1, Innermost
<1>3. tb.depth \in Nat /\ n \in Nat
  BY <1>2 DEF TryBlocks
<1>4. /\ Len(frames) \in Nat \ {0} /\ Run.base \in 1 .. Len(frames)
      /\ \A k \in 1 .. Len(runs) : runs[k] \in Runs /\ runs[k].base <= Run.base
      /\ Len(runs) \in Nat \ {0} /\ Len(frameUpvalues) \in Nat
  BY Alive
<1>5. frames \in Seq(Frames) /\ frameUpvalues \in Seq(Closures)
  BY DEF IInv, TypeOK
<1>6. frames[n] \in Frames
  BY <1>2, <1>5, ElementOfSeq
<1>7. frames[n].active \in Seq(TryStatements) /\ frames[n].slots \in Int /\ frames[n].clo \in Closures
  BY <1>6 DEF Frames
<1>8. tb.depth + 1 \in 1 .. Len(frames[n].active) /\ Len(frames[n].active) \in Nat
  BY <1>2, <1>7, LenProperties DEF BodyIn, Opens
<1>9. entered \in TryStatements
  BY <1>7, <1>8, ElementOfSeq
<1>10. x \in TryStatements /\ x.kind = "catch" /\ entered.temps \in Nat
  BY <1>9 DEF TryStatements
<1>11. /\ SubSeq(frames[n].active, 1, tb.depth) \o <<x>> \in Seq(TryStatements)
       /\ \A d \in Nat : Opens(SubSeq(frames[n].active, 1, tb.depth) \o <<x>>, d)
                            <=> Opens(frames[n].active, d) /\ d < tb.depth
  <2>1. tb.depth <= Len(frames[n].active)
    BY <1>3, <1>8
  <2> HIDE DEF x
  <2> QED
    BY <1>3, <1>7, <1>10, <2>1, Caught
<1>12. f \in Frames /\ f.active = a
  <2>1. entered.temps + 1 \in Nat /\ a \in Seq(TryStatements)
    BY <1>10, <1>11
  <2> HIDE DEF a, entered
  <2> QED
    BY <1>6, <2>1, FrameUpdated
<1>13. /\ gs \in Seq(Frames) /\ Len(gs) = n /\ gs[n] = frames[n] /\ gs # <<>>
       /\ \A i \in Nat, d \in Nat : BodyIn(gs, i, d) <=> BodyIn(frames, i, d) /\ i <= n
  <2>1. n <= Len(frames) /\ 1 <= n
    BY <1>2, <1>4
  <2>2. /\ gs \in Seq(Frames) /\ Len(gs) = n
        /\ \A i \in Nat, d \in Nat : BodyIn(gs, i, d) <=> BodyIn(frames, i, d) /\ i <= n
    BY <1>3, <1>5, <2>1, FramesCut
  <2>3. gs[n] = frames[n]
    BY <1>3, <1>5, <2>1, Prefix
  <2>4. gs # <<>>
    BY <2>1, <2>2, EmptySeq
  <2> QED
    BY <2>2, <2>3, <2>4
<1>14. Min({n, Len(frames)}) = n
  <2>1. n \in Int /\ Len(frames) \in Int /\ n <= Len(frames)
    BY <1>2, <1>4
  <2>2. \E y \in {n, Len(frames)} : \A z \in {n, Len(frames)} : y <= z
    BY <2>1
  <2> QED
    BY <2>1, <2>2 DEF Min
<1>15. frames' = [gs EXCEPT ![n].temps = entered.temps + 1,
                            ![n].active = SubSeq(@, 1, tb.depth) \o <<x>>]
  BY <1>14 DEF EnterHandler
<1>16. frames' = [gs EXCEPT ![n] = f]
  <2>1. n \in DOMAIN gs
    BY <1>2, <1>13, LenProperties
  <2> HIDE DEF gs, entered, tb, x
  <2>2. frames' = [gs EXCEPT ![n] = [gs[n] EXCEPT !.temps = entered.temps + 1,
                                                  !.active = SubSeq(@, 1, tb.depth) \o <<x>>]]
    BY <1>15, <2>1
  <2>3. [gs[n] EXCEPT !.temps = entered.temps + 1, !.active = SubSeq(@, 1, tb.depth) \o <<x>>] = f
    BY <1>13
  <2> QED
    BY <2>2, <2>3
<1> HIDE DEF gs, f
<1>17. /\ frames' \in Seq(Frames) /\ Len(frames') = n
       /\ \A i \in Nat, d \in Nat : BodyIn(frames', i, d) <=>
            IF i = n THEN Opens(f.active, d) ELSE BodyIn(gs, i, d)
  BY <1>12, <1>13, <1>16, FrameChanged
<1>18. \A d \in Nat : Opens(f.active, d) <=> Opens(frames[n].active, d) /\ d < tb.depth
  BY <1>11, <1>12
<1>19. \A i \in Nat, d \in Nat : BodyIn(frames', i, d) <=>
          BodyIn(frames, i, d) /\ ~(i = n /\ d = tb.depth)
  <2> SUFFICES ASSUME NEW i \in Nat, NEW d \in Nat
               PROVE  BodyIn(frames', i, d) <=> BodyIn(frames, i, d) /\ ~(i = n /\ d = tb.depth)
    OBVIOUS
  <2>1. BodyIn(frames, i, d) => i < n \/ (i = n /\ d <= tb.depth)
    BY <1>2
  <2>2. CASE i = n
    <3>1. BodyIn(frames, i, d) <=> Opens(frames[n].active, d)
      BY <1>2, <2>2 DEF BodyIn
    <3> HIDE DEF tb, n
    <3> QED
      BY <1>3, <1>17, <1>18, <2>1, <2>2, <3>1
  <2>3. CASE i # n
    BY <1>3, <1>13, <1>17, <2>1, <2>3
  <2> QED
    BY <2>2, <2>3
<1>20. Exact' /\ tryStack' \in Seq(TryBlocks)
  BY <1>1, <1>19, InnermostEnds DEF EnterHandler
<1>21. /\ frameUpvalues' \in Seq(Closures) /\ n <= Len(frameUpvalues')
  <2>1. frameUpvalues' = SubSeq(frameUpvalues, 1, Len(frameUpvalues) - (Len(frames) - n))
    BY <1>14 DEF EnterHandler
  <2>2. /\ Len(frameUpvalues) - (Len(frames) - n) \in Nat
        /\ Len(frameUpvalues) - (Len(frames) - n) <= Len(frameUpvalues)
        /\ n <= Len(frameUpvalues) - (Len(frames) - n)
    BY <1>2, <1>4 DEF IInv, OwnRuns
  <2> QED
    BY <1>5, <2>1, <2>2, Prefix
<1>22. /\ stackTop' = top + 1 /\ memTop' = top /\ pendingException' = "nil" /\ running' = TRUE
       /\ mode' = "exec" /\ runs' = runs
  BY DEF EnterHandler
<1>23. TypeOK'
  <2>1. Len(frames') <= MaxFrames
    BY <1>2, <1>4, <1>17, BoundsAssumption DEF IInv, TypeOK
  <2>2. /\ running' \in BOOLEAN /\ pendingException' \in Pendings /\ stackTop' \in Int /\ memTop' \in Int
        /\ mode' \in {"exec", "native", "ok", "uncaught"}
    <3>1. running' \in BOOLEAN /\ pendingException' \in Pendings
      BY <1>22 DEF Pendings
    <3>2. stackTop' \in Int /\ memTop' \in Int
      BY <1>22
    <3> QED
      BY <1>22, <3>1, <3>2
  <2>3. runs' \in Seq(Runs) /\ Len(runs') <= MaxDepth
    BY <1>22 DEF IInv, TypeOK
  <2> QED
    BY <1>17, <1>20, <1>21, <2>1, <2>2, <2>3 DEF TypeOK
<1>24. Modes'
  BY <1>22 DEF IInv, Modes, Live
<1>25. OwnRuns'
  <2>1. \A k \in 1 .. Len(runs) : runs[k].base <= n
    <3> SUFFICES ASSUME NEW k \in 1 .. Len(runs)
                 PROVE  runs[k].base <= n
      OBVIOUS
    <3>1. runs[k].base \in Nat /\ runs[k].base <= Run.base
      BY <1>4 DEF Runs
    <3> QED
      BY <1>1, <1>3, <1>4, <3>1
  <2> QED
    BY <1>17, <1>21, <1>22, <2>1 DEF IInv, OwnRuns
<1> QED
  BY <1>20, <1>23, <1>24, <1>25 DEF IInv

\* A run() without a handler hands the fault on: the frames it drops have no body
\* left, whatever they did.
LEMMA LeaveStep ==
  ASSUME IInv, Live, ~OwnsTryBlock, LeaveRun
  PROVE  IInv'
<1>1. /\ Len(frames) \in Nat \ {0} /\ Len(runs) \in Nat \ {0} /\ Run = runs[Len(runs)] /\ Run \in Runs
      /\ Run.base \in 1 .. Len(frames) /\ \A k \in 1 .. Len(runs) : runs[k] \in Runs
      /\ runs # <<>>
  BY Alive, EmptySeq
<1>2. /\ frames \in Seq(Frames) /\ frameUpvalues \in Seq(Closures) /\ tryStack \in Seq(TryBlocks)
      /\ runs \in Seq(Runs) /\ Exact
  BY DEF IInv, TypeOK
<1>3. CASE Len(runs) > 1
  <2> DEFINE n == Run.base - 1
  <2>1. /\ frames' = SubSeq(frames, 1, Run.framesBefore) /\ runs' = Front(runs) /\ mode' = "native"
        /\ memTop' = Run.stackBefore /\ stackTop' = Run.stackBefore
        /\ pendingException' = "raised" /\ running' = FALSE /\ UNCHANGED <<frameUpvalues, tryStack>>
    <3>1. ~(Len(runs) = 1)
      BY <1>1, <1>3
    <3> QED
      BY <3>1 DEF LeaveRun
  <2>2. Run.framesBefore = n /\ Run.stackBefore \in Int /\ n \in Nat /\ n <= Len(frames)
    BY <1>1, <1>3 DEF IInv, OwnRuns, Runs
  <2>3. frames' = SubSeq(frames, 1, n)
    BY <2>1, <2>2
  <2>4. /\ frames' \in Seq(Frames) /\ Len(frames') = n
        /\ \A i \in Nat, d \in Nat : BodyIn(frames', i, d) <=> BodyIn(frames, i, d) /\ i <= n
    BY <1>2, <2>2, <2>3, FramesCut
  <2>5. ASSUME NEW i \in Nat, NEW d \in Nat, BodyIn(frames, i, d)
        PROVE  i <= n
    <3>1. CASE tryStack = <<>>
      <4>1. Len(tryStack) = 0
        BY <3>1, EmptySeq
      <4> QED
        BY <1>2, <2>5, <4>1 DEF Exact
    <3>2. CASE tryStack # <<>>
      <4>1. ~(Last(tryStack).frame >= Run.base)
        BY <3>2 DEF OwnsTryBlock
      <4>2. i <= Last(tryStack).frame /\ Last(tryStack).frame \in 1 .. Len(frames)
        BY <2>5, <3>2, Innermost
      <4> QED
        BY <1>1, <4>1, <4>2
    <3> QED
      BY <3>1, <3>2
  <2>6. Exact'
    <3>1. \A i \in Nat, d \in Nat : BodyIn(frames', i, d) <=> BodyIn(frames, i, d)
      BY <2>4, <2>5
    <3> QED
      BY <1>2, <2>1, <3>1, SameBodies
  <2>7. /\ runs' \in Seq(Runs) /\ Len(runs') = Len(runs) - 1
        /\ \A k \in 1 .. Len(runs) - 1 : runs'[k] = runs[k]
    BY <1>1, <1>2, <2>1, Ends
  <2>8. TypeOK'
    <3>1. Len(frames') <= MaxFrames /\ Len(runs') <= MaxDepth
      <4>1. /\ Len(frames) <= MaxFrames /\ Len(runs) <= MaxDepth
            /\ MaxFrames \in Nat /\ MaxDepth \in Nat
        BY BoundsAssumption DEF IInv, TypeOK
      <4>2. Len(frames') <= Len(frames) /\ Len(frames') \in Nat /\ Len(frames) \in Nat
        BY <1>1, <2>2, <2>4
      <4>3. Len(runs') <= Len(runs) /\ Len(runs') \in Nat /\ Len(runs) \in Nat
        BY <1>1, <2>7
      <4> QED
        BY <4>1, <4>2, <4>3
    <3>2. running' \in BOOLEAN /\ pendingException' \in Pendings
      BY <2>1 DEF Pendings
    <3> QED
      BY <1>2, <2>1, <2>2, <2>4, <2>7, <3>1, <3>2 DEF TypeOK
  <2>9. Modes'
    <3>1. runs'[1].base = 1 /\ runs' # <<>>
      BY <1>1, <1>3, <2>7, EmptySeq DEF IInv, Modes, Live
    <3>2. running' <=> pendingException' # "raised"
      BY <2>1
    <3> QED
      BY <2>1, <3>1, <3>2 DEF Modes
  <2>10. OwnRuns'
    <3>1. \A k \in 1 .. Len(runs) - 1 : runs[k].base <= n
      <4> SUFFICES ASSUME NEW k \in 1 .. Len(runs) - 1
                   PROVE  runs[k].base <= n
        OBVIOUS
      <4>1. k \in 1 .. Len(runs) /\ runs[k].base < Run.base
        BY <1>1 DEF IInv, OwnRuns
      <4>2. runs[k].base \in Nat
        BY <1>1, <4>1 DEF Runs
      <4> QED
        BY <1>1, <4>1, <4>2
    <3>2. n <= Len(frameUpvalues')
      BY <1>1, <1>2, <2>1, <2>2, LenProperties DEF IInv, OwnRuns
    <3> HIDE DEF n
    <3>3. \A k \in 1 .. Len(runs') : k \in 1 .. Len(runs) /\ runs'[k] = runs[k]
      BY <1>1, <2>7
    <3>4. \A k \in 1 .. Len(runs') : runs'[k].base <= Len(frames')
      BY <2>4, <2>7, <3>1, <3>3
    <3>5. /\ \A k \in 1 .. Len(runs') : k > 1 => runs'[k].framesBefore = runs'[k].base - 1 /\ runs'[k].saved
          /\ \A k, l \in 1 .. Len(runs') : k < l => runs'[k].base < runs'[l].base
      BY <3>3 DEF IInv, OwnRuns
    <3> QED
      BY <2>4, <3>2, <3>4, <3>5 DEF OwnRuns
  <2> QED
    BY <2>6, <2>8, <2>9, <2>10 DEF IInv
<1>4. CASE Len(runs) = 1
  <2>1. /\ mode' = "uncaught" /\ frames' = <<>> /\ frameUpvalues' = <<>> /\ tryStack' = <<>> /\ runs' = <<>>
        /\ pendingException' = "nil" /\ running' = FALSE /\ UNCHANGED <<stackTop, memTop>>
    BY <1>4 DEF LeaveRun
  <2>2. Len(<<>>) = 0 /\ \A S : <<>> \in Seq(S)
    BY EmptySeq
  <2>3. running' \in BOOLEAN /\ pendingException' \in Pendings
    BY <2>1 DEF Pendings
  <2>4. TypeOK'
    BY <2>1, <2>2, <2>3, BoundsAssumption DEF IInv, TypeOK
  <2>5. Modes' /\ OwnRuns' /\ Exact'
    BY <2>1, <2>2 DEF Modes, OwnRuns, Exact, BodyIn
  <2> QED
    BY <2>4, <2>5 DEF IInv
<1>5. Len(runs) > 1 \/ Len(runs) = 1
  <2>1. Len(runs) \in Nat \ {0}
    BY <1>1
  <2> QED
    BY <2>1
<1> QED
  BY <1>3, <1>4, <1>5

\* A fault, however it arises.
LEMMA DeliverStep ==
  ASSUME IInv, Live, NEW top \in Int, Deliver(top)
  PROVE  IInv'
BY EnterStep, LeaveStep DEF Deliver

\* A step within the innermost frame.
LEMMA WithinFrame ==
  ASSUME IInv, Live, NEW f \in Frames, frames' = WithTop(f),
         UNCHANGED <<frameUpvalues, runs, memTop, running, pendingException, mode>>,
         stackTop' \in Int, tryStack' \in Seq(TryBlocks), Exact'
  PROVE  IInv'
<1>1. frames \in Seq(Frames) /\ frames # <<>>
  BY Alive DEF IInv, TypeOK
<1>2. frames' \in Seq(Frames) /\ Len(frames') = Len(frames)
  BY <1>1, FrameChanged DEF WithTop
<1>3. TypeOK'
  BY <1>2 DEF IInv, TypeOK
<1>4. Modes' /\ OwnRuns'
  BY <1>2 DEF IInv, Modes, OwnRuns, Live
<1> QED
  BY <1>3, <1>4 DEF IInv

\* A step within the innermost frame that neither opens nor ends a body.
LEMMA WithinBody ==
  ASSUME IInv, Live, NEW f \in Frames, frames' = WithTop(f),
         \A d \in Nat : Opens(f.active, d) <=> Opens(Top.active, d), UNCHANGED tryStack
  PROVE  Exact' /\ tryStack' \in Seq(TryBlocks)
<1>1. /\ frames \in Seq(Frames) /\ frames # <<>> /\ tryStack \in Seq(TryBlocks) /\ Exact
      /\ Top = frames[Len(frames)] /\ Len(frames) \in Nat \ {0}
  BY Alive DEF IInv, TypeOK
<1>2. \A i \in Nat, d \in Nat : BodyIn(frames', i, d) <=>
              IF i = Len(frames) THEN Opens(f.active, d) ELSE BodyIn(frames, i, d)
  BY <1>1, FrameChanged DEF WithTop
<1>3. \A i \in Nat, d \in Nat : BodyIn(frames', i, d) <=> BodyIn(frames, i, d)
  BY <1>1, <1>2 DEF BodyIn
<1> QED
  BY <1>1, <1>3, SameBodies

-----------------------------------------------------------------------------
(* Every action keeps the invariant.                                       *)

\* An instruction that pushes or pops an operand.
LEMMA OperandStep ==
  ASSUME IInv, Push \/ Pop
  PROVE  IInv'
<1>1. Live
  BY DEF Push, Pop, Dispatching, Live
<1>2. Top \in Frames /\ TempsFloor \in Nat /\ stackTop \in Int /\ tryStack \in Seq(TryBlocks)
  BY <1>1, Alive DEF IInv, TypeOK
<1>3. Top.temps \in Nat
  BY <1>2 DEF Frames
<1>4. \E t \in Nat : frames' = WithTop([Top EXCEPT !.temps = t])
  <2>1. Top.temps + 1 \in Nat /\ (Top.temps > TempsFloor => Top.temps - 1 \in Nat)
    BY <1>2, <1>3
  <2>2. CASE Push
    BY <2>1, <2>2 DEF Push
  <2>3. CASE Pop
    BY <2>1, <2>3 DEF Pop
  <2> QED
    BY <2>2, <2>3
<1>5. PICK t \in Nat : frames' = WithTop([Top EXCEPT !.temps = t])
  BY <1>4
<1> DEFINE f == [Top EXCEPT !.temps = t]
<1>6. f \in Frames /\ f.active = Top.active
  BY <1>2 DEF Frames
<1>7. frames' = WithTop(f)
  BY <1>5
<1>8. /\ UNCHANGED <<frameUpvalues, tryStack, runs, memTop, running, pendingException, mode>>
      /\ stackTop' \in Int
  BY <1>2 DEF Push, Pop
<1> HIDE DEF f
<1>9. Exact' /\ tryStack' \in Seq(TryBlocks)
  BY <1>1, <1>6, <1>7, <1>8, WithinBody
<1> QED
  BY <1>1, <1>6, <1>7, <1>8, <1>9, WithinFrame

\* TRY_START opens the innermost body, above all that are open.
LEMMA TryStartStep ==
  ASSUME IInv, TryStart
  PROVE  IInv'
<1> DEFINE x == [kind |-> "try", temps |-> Top.temps]
           tb == [frame |-> Len(frames), top |-> stackTop, depth |-> Len(Top.active)]
           f == [Top EXCEPT !.active = Append(Top.active, x)]
<1>1. Live
  BY DEF TryStart, Dispatching, Live
<1>2. /\ Top \in Frames /\ Top = frames[Len(frames)] /\ Top.active \in Seq(TryStatements)
      /\ Len(frames) \in Nat \ {0} /\ frames # <<>>
      /\ tryStack \in Seq(TryBlocks) /\ frames \in Seq(Frames) /\ stackTop \in Int /\ Exact
  BY <1>1, Alive DEF IInv, TypeOK
<1>3. Top.temps \in Nat /\ Len(Top.active) \in Nat /\ Len(tryStack) \in Nat
  BY <1>2, LenProperties DEF Frames
<1>4. x \in TryStatements /\ x.kind = "try" /\ tb \in TryBlocks
  BY <1>2, <1>3 DEF TryStatements, TryBlocks
<1>5. tb.frame = Len(frames) /\ tb.depth = Len(Top.active)
  OBVIOUS
<1>6. /\ UNCHANGED <<frameUpvalues, runs, stackTop, memTop, running, pendingException, mode>>
      /\ tryStack' = Append(tryStack, tb) /\ frames' = WithTop(f)
  BY DEF TryStart
<1> HIDE DEF x, tb
<1>7. Append(Top.active, x) \in Seq(TryStatements)
  BY <1>2, <1>4, Longer
<1>8. f \in Frames /\ f.active = Append(Top.active, x)
  BY <1>2, <1>7 DEF Frames
<1> HIDE DEF f
<1>9. \A i \in Nat, d \in Nat : BodyIn(frames', i, d) <=> BodyIn(frames, i, d) \/ (i = tb.frame /\ d = tb.depth)
  <2>1. \A i \in Nat, d \in Nat : BodyIn(frames', i, d) <=>
              IF i = Len(frames) THEN Opens(f.active, d) ELSE BodyIn(frames, i, d)
    BY <1>2, <1>6, <1>8, FrameChanged DEF WithTop
  <2>2. \A d \in Nat : Opens(f.active, d) <=> Opens(Top.active, d) \/ d = Len(Top.active)
    BY <1>2, <1>4, <1>8, Entered
  <2>3. \A d \in Nat : BodyIn(frames, Len(frames), d) <=> Opens(Top.active, d)
    BY <1>2 DEF BodyIn
  <2> QED
    BY <1>2, <1>5, <2>1, <2>2, <2>3
<1>10. /\ tryStack' \in Seq(TryBlocks) /\ Len(tryStack') = Len(tryStack) + 1
       /\ \A k \in 1 .. Len(tryStack) : tryStack'[k] = tryStack[k] /\ tryStack[k] \in TryBlocks
       /\ tryStack'[Len(tryStack) + 1] = tb
  BY <1>2, <1>4, <1>6, Longer, ElementOfSeq
<1>11. \A k \in 1 .. Len(tryStack) : tryStack[k].frame \in Nat /\ tryStack[k].depth \in Nat
  BY <1>10 DEF TryBlocks
<1>12. \A k \in 1 .. Len(tryStack') : k \in 1 .. Len(tryStack) \/ k = Len(tryStack) + 1
  BY <1>3, <1>10
<1>13. Exact'
  <2>1. \A k \in 1 .. Len(tryStack') : BodyIn(frames', tryStack'[k].frame, tryStack'[k].depth)
    <3>1. BodyIn(frames', tb.frame, tb.depth)
      BY <1>2, <1>3, <1>5, <1>9
    <3>2. \A k \in 1 .. Len(tryStack) : BodyIn(frames', tryStack[k].frame, tryStack[k].depth)
      BY <1>2, <1>9, <1>11 DEF Exact
    <3> QED
      BY <1>10, <1>12, <3>1, <3>2
  <2>2. ASSUME NEW i \in Nat, NEW d \in Nat, BodyIn(frames', i, d)
        PROVE  \E k \in 1 .. Len(tryStack') : tryStack'[k].frame = i /\ tryStack'[k].depth = d
    <3>1. CASE BodyIn(frames, i, d)
      <4>1. PICK k \in 1 .. Len(tryStack) : tryStack[k].frame = i /\ tryStack[k].depth = d
        BY <1>2, <3>1 DEF Exact
      <4>2. k \in 1 .. Len(tryStack')
        BY <1>3, <1>10
      <4> QED
        BY <1>10, <4>1, <4>2
    <3>2. CASE i = tb.frame /\ d = tb.depth
      <4>1. Len(tryStack) + 1 \in 1 .. Len(tryStack')
        BY <1>3, <1>10
      <4> QED
        BY <1>10, <3>2, <4>1
    <3> QED
      BY <1>9, <2>2, <3>1, <3>2
  <2>3. \A k \in 1 .. Len(tryStack) : Before(tryStack[k], tb)
    <3> SUFFICES ASSUME NEW k \in 1 .. Len(tryStack)
                 PROVE  Before(tryStack[k], tb)
      OBVIOUS
    <3>1. BodyIn(frames, tryStack[k].frame, tryStack[k].depth)
      BY <1>2 DEF Exact
    <3>2. tryStack[k].frame <= Len(frames)
      BY <1>2, <3>1 DEF BodyIn
    <3>3. tryStack[k].frame = Len(frames) => tryStack[k].depth < Len(Top.active)
      BY <1>2, <1>3, <1>11, <3>1 DEF BodyIn, Opens
    <3> QED
      BY <1>2, <1>5, <1>11, <3>2, <3>3 DEF Before
  <2>4. ASSUME NEW k \in 1 .. Len(tryStack'), NEW l \in 1 .. Len(tryStack'), k < l
        PROVE  Before(tryStack'[k], tryStack'[l])
    <3>1. CASE l \in 1 .. Len(tryStack)
      <4>1. k \in 1 .. Len(tryStack)
        BY <1>3, <2>4, <3>1
      <4> QED
        BY <1>2, <1>10, <2>4, <3>1, <4>1 DEF Exact
    <3>2. CASE l = Len(tryStack) + 1
      <4>1. k \in 1 .. Len(tryStack)
        BY <1>3, <2>4, <3>2
      <4> QED
        BY <1>10, <2>3, <3>2, <4>1
    <3> QED
      BY <1>12, <3>1, <3>2
  <2> QED
    BY <2>1, <2>2, <2>4 DEF Exact
<1> QED
  BY <1>1, <1>2, <1>6, <1>8, <1>10, <1>13, WithinFrame

\* TRY_END and the end of a catch block leave the innermost try statement.
LEMMA LeaveTryStep ==
  ASSUME IInv, TryEnd \/ CatchEnd
  PROVE  IInv'
<1> DEFINE act == Front(Top.active)
           f == [Top EXCEPT !.active = act]
<1>1. Live
  BY DEF TryEnd, CatchEnd, Dispatching, Live
<1>2. /\ Top \in Frames /\ Top = frames[Len(frames)] /\ Top.active \in Seq(TryStatements)
      /\ Len(frames) \in Nat \ {0} /\ frames # <<>>
      /\ tryStack \in Seq(TryBlocks) /\ frames \in Seq(Frames) /\ stackTop \in Int /\ Exact
  BY <1>1, Alive DEF IInv, TypeOK
<1>3. /\ UNCHANGED <<frameUpvalues, runs, stackTop, memTop, running, pendingException, mode>>
      /\ frames' = WithTop(f) /\ Top.active # <<>>
  BY DEF TryEnd, CatchEnd, LeaveTry, Inside
<1>4. /\ \A d \in Nat : Opens(act, d) <=> Opens(Top.active, d) /\ d # Len(Top.active) - 1
      /\ Opens(Top.active, Len(Top.active) - 1) <=> Last(Top.active).kind = "try"
      /\ act \in Seq(TryStatements) /\ Len(Top.active) - 1 \in Nat
  BY <1>2, <1>3, Left, Ends
<1> HIDE DEF act
<1>5. f \in Frames /\ f.active = act
  BY <1>2, <1>4 DEF Frames
<1> HIDE DEF f
<1>6. CASE CatchEnd
  <2>1. Last(Top.active).kind = "catch" /\ UNCHANGED tryStack
    BY <1>6 DEF CatchEnd, Inside
  <2>2. \A d \in Nat : Opens(f.active, d) <=> Opens(Top.active, d)
    BY <1>4, <1>5, <2>1
  <2>3. Exact' /\ tryStack' \in Seq(TryBlocks)
    BY <1>1, <1>3, <1>5, <2>1, <2>2, WithinBody
  <2> QED
    BY <1>1, <1>2, <1>3, <1>5, <2>3, WithinFrame
<1>7. CASE TryEnd
  <2> DEFINE n == Len(frames)
             m == Len(Top.active) - 1
  <2>1. Last(Top.active).kind = "try" /\ tryStack' = IF tryStack = <<>> THEN <<>> ELSE Front(tryStack)
    BY <1>7 DEF TryEnd, Inside
  <2>2. BodyIn(frames, n, m) /\ n \in Nat /\ m \in Nat
    BY <1>2, <1>4, <2>1 DEF BodyIn
  <2>3. tryStack # <<>>
    <3>1. \E k \in 1 .. Len(tryStack) : tryStack[k].frame = n /\ tryStack[k].depth = m
      BY <1>2, <2>2 DEF Exact
    <3> QED
      BY <3>1, EmptySeq
  <2>4. Last(tryStack).frame = n /\ Last(tryStack).depth = m
    <3>1. /\ Last(tryStack).frame \in 1 .. Len(frames) /\ Last(tryStack) \in TryBlocks
          /\ BodyIn(frames, Last(tryStack).frame, Last(tryStack).depth)
          /\ n < Last(tryStack).frame \/ (n = Last(tryStack).frame /\ m <= Last(tryStack).depth)
      BY <1>1, <2>2, <2>3, Innermost
    <3>2. n = Last(tryStack).frame /\ m <= Last(tryStack).depth
      BY <1>2, <3>1
    <3>3. Last(tryStack).depth \in Nat /\ Opens(Top.active, Last(tryStack).depth)
      BY <1>2, <3>1, <3>2 DEF BodyIn, TryBlocks
    <3>4. Last(tryStack).depth + 1 <= Len(Top.active)
      BY <1>4, <3>3 DEF Opens
    <3> QED
      BY <1>4, <3>2, <3>3, <3>4
  <2>5. \A i \in Nat, d \in Nat : BodyIn(frames', i, d) <=>
              IF i = n THEN Opens(f.active, d) ELSE BodyIn(frames, i, d)
    BY <1>2, <1>3, <1>5, FrameChanged DEF WithTop
  <2>6. \A d \in Nat : BodyIn(frames, n, d) <=> Opens(Top.active, d)
    BY <1>2 DEF BodyIn
  <2>7. \A i \in Nat, d \in Nat : BodyIn(frames', i, d) <=>
            BodyIn(frames, i, d) /\ ~(i = Last(tryStack).frame /\ d = Last(tryStack).depth)
    BY <1>4, <1>5, <2>4, <2>5, <2>6
  <2>8. Exact' /\ tryStack' \in Seq(TryBlocks)
    BY <1>1, <2>1, <2>3, <2>7, InnermostEnds
  <2> QED
    BY <1>1, <1>2, <1>3, <1>5, <2>8, WithinFrame
<1> QED
  BY <1>6, <1>7

\* A frame pushed has no body of its own.
LEMMA Pushed ==
  ASSUME IInv, NEW c \in Closures, NEW slots \in Int, UNCHANGED tryStack,
         frames' = Append(frames, Frame(slots, c)), frameUpvalues' = Append(frameUpvalues, c)
  PROVE  /\ frames' \in Seq(Frames) /\ Len(frames') = Len(frames) + 1 /\ Len(frames) \in Nat
         /\ frameUpvalues' \in Seq(Closures) /\ Len(frameUpvalues') = Len(frameUpvalues) + 1
         /\ Len(frameUpvalues) \in Nat
         /\ Exact' /\ tryStack' \in Seq(TryBlocks)
<1> DEFINE f == Frame(slots, c)
<1>1. /\ frames \in Seq(Frames) /\ frameUpvalues \in Seq(Closures) /\ tryStack \in Seq(TryBlocks)
      /\ Exact
  BY DEF IInv, TypeOK
<1>2. f \in Frames /\ f.active = <<>>
  <2>1. <<>> \in Seq(TryStatements)
    BY EmptySeq
  <2> QED
    BY <2>1 DEF Frame, Frames
<1> HIDE DEF f
<1>3. /\ frames' \in Seq(Frames) /\ Len(frames') = Len(frames) + 1
      /\ \A i \in Nat, d \in Nat : BodyIn(frames', i, d) <=> BodyIn(frames, i, d)
  <2>1. frames' = Append(frames, f)
    BY DEF f
  <2> QED
    BY <1>1, <1>2, <2>1, FramePushed
<1>4. frameUpvalues' \in Seq(Closures) /\ Len(frameUpvalues') = Len(frameUpvalues) + 1
  BY <1>1, Longer
<1>5. Exact'
  BY <1>1, <1>3, SameBodies
<1> QED
  BY <1>1, <1>3, <1>4, <1>5, LenProperties

\* CALL of EZ code.
LEMMA CallStep ==
  ASSUME IInv, NEW c \in Closures, Call(c)
  PROVE  IInv'
<1>1. /\ Live /\ frames' = Append(frames, Frame(stackTop, c)) /\ frameUpvalues' = Append(frameUpvalues, c)
      /\ UNCHANGED <<tryStack, runs, running, pendingException, mode>>
      /\ stackTop' = stackTop + Locals /\ memTop' = stackTop + Locals /\ Len(frames) < MaxFrames
  BY DEF Call, Dispatching, HasRoom, Live
<1>2. stackTop \in Int /\ stackTop' \in Int /\ memTop' \in Int
  BY <1>1, BoundsAssumption DEF IInv, TypeOK
<1>3. /\ frames' \in Seq(Frames) /\ Len(frames') = Len(frames) + 1 /\ Len(frames) \in Nat
      /\ frameUpvalues' \in Seq(Closures) /\ Len(frameUpvalues') = Len(frameUpvalues) + 1
      /\ Len(frameUpvalues) \in Nat /\ Exact' /\ tryStack' \in Seq(TryBlocks)
  BY <1>1, <1>2, Pushed
<1>4. TypeOK'
  <2>1. Len(frames') <= MaxFrames
    BY <1>1, <1>3, BoundsAssumption
  <2> QED
    BY <1>1, <1>2, <1>3, <2>1 DEF IInv, TypeOK
<1>5. Modes'
  BY <1>1 DEF IInv, Modes, Live
<1>6. OwnRuns'
  <2>1. \A k \in 1 .. Len(runs) : runs[k].base <= Len(frames')
    <3> SUFFICES ASSUME NEW k \in 1 .. Len(runs)
                 PROVE  runs[k].base <= Len(frames')
      OBVIOUS
    <3>1. runs[k] \in Runs /\ runs[k].base <= Len(frames)
      BY <1>1, Alive DEF IInv, OwnRuns
    <3>2. runs[k].base \in Nat
      BY <3>1 DEF Runs
    <3> QED
      BY <1>3, <3>1, <3>2
  <2>2. Len(frames') <= Len(frameUpvalues')
    BY <1>3 DEF IInv, OwnRuns
  <2> QED
    BY <1>1, <2>1, <2>2 DEF IInv, OwnRuns
<1> QED
  BY <1>3, <1>4, <1>5, <1>6 DEF IInv

\* A native calls back: a run() with a frame of its own.
LEMMA CallBackStep ==
  ASSUME IInv, NEW c \in Closures, NativeCallsBack(c)
  PROVE  IInv'
<1> DEFINE r == [base |-> Len(frames) + 1, stackBefore |-> memTop,
                 framesBefore |-> Len(frames), saved |-> running]
<1>1. /\ mode = "native" /\ pendingException = "nil" /\ Len(runs) < MaxDepth /\ Len(frames) < MaxFrames
      /\ runs' = Append(runs, r)
      /\ frames' = Append(frames, Frame(memTop + 1, c)) /\ frameUpvalues' = Append(frameUpvalues, c)
      /\ stackTop' = memTop + 1 + Locals /\ memTop' = memTop + 1 + Locals
      /\ running' = TRUE /\ mode' = "exec" /\ UNCHANGED <<tryStack, pendingException>>
  BY DEF NativeCallsBack, HasRoom
<1>2. memTop \in Int /\ memTop + 1 \in Int /\ stackTop' \in Int /\ memTop' \in Int
  BY <1>1, BoundsAssumption DEF IInv, TypeOK
<1>3. /\ frames' \in Seq(Frames) /\ Len(frames') = Len(frames) + 1 /\ Len(frames) \in Nat
      /\ frameUpvalues' \in Seq(Closures) /\ Len(frameUpvalues') = Len(frameUpvalues) + 1
      /\ Len(frameUpvalues) \in Nat /\ Exact' /\ tryStack' \in Seq(TryBlocks)
  BY <1>1, <1>2, Pushed
<1>4. Live
  BY <1>1 DEF Live
<1>5. running \in BOOLEAN /\ running /\ pendingException \in Pendings
  BY <1>1 DEF IInv, Modes, TypeOK
<1>6. r \in Runs
  BY <1>2, <1>3, <1>5 DEF Runs
<1>7. r.base = Len(frames) + 1 /\ r.framesBefore = r.base - 1 /\ r.saved
  BY <1>3, <1>5
<1> HIDE DEF r
<1>8. /\ runs' \in Seq(Runs) /\ Len(runs') = Len(runs) + 1 /\ runs' # <<>>
      /\ \A k \in 1 .. Len(runs) : runs'[k] = runs[k]
      /\ runs'[Len(runs) + 1] = r
  BY <1>1, <1>6, Longer DEF IInv, TypeOK
<1>9. /\ Len(runs) \in Nat \ {0} /\ \A k \in 1 .. Len(runs) : runs[k] \in Runs
  BY <1>4, Alive
<1>10. TypeOK'
  <2>1. Len(frames') <= MaxFrames /\ Len(runs') <= MaxDepth
    BY <1>1, <1>3, <1>8, <1>9, BoundsAssumption
  <2>2. running' \in BOOLEAN /\ pendingException' \in Pendings
    BY <1>1, <1>5
  <2> QED
    BY <1>1, <1>2, <1>3, <1>8, <2>1, <2>2 DEF TypeOK
<1>11. Modes'
  <2>1. runs'[1].base = 1
    BY <1>1, <1>8, <1>9 DEF IInv, Modes
  <2>2. running' <=> pendingException' # "raised"
    BY <1>1
  <2> QED
    BY <1>1, <1>8, <2>1, <2>2 DEF Modes
<1>12. OwnRuns'
  <2>1. \A k \in 1 .. Len(runs) : runs'[k] = runs[k] /\ runs[k].base <= Len(frames) /\ runs[k].base \in Nat
    BY <1>8, <1>9 DEF IInv, OwnRuns, Runs
  <2>2. \A k \in 1 .. Len(runs') : k \in 1 .. Len(runs) \/ (k = Len(runs) + 1 /\ runs'[k] = r)
    BY <1>8, <1>9
  <2>3. ASSUME NEW k \in 1 .. Len(runs') PROVE runs'[k].base <= Len(frames')
    <3>1. CASE k \in 1 .. Len(runs)
      <4>1. runs'[k].base \in Nat /\ runs'[k].base <= Len(frames)
        BY <2>1, <3>1
      <4> QED
        BY <1>3, <4>1
    <3>2. CASE runs'[k] = r
      BY <1>3, <1>7, <3>2
    <3> QED
      BY <2>2, <3>1, <3>2
  <2>4. \A k \in 1 .. Len(runs') : k > 1 => runs'[k].framesBefore = runs'[k].base - 1 /\ runs'[k].saved
    BY <1>7, <2>1, <2>2 DEF IInv, OwnRuns
  <2>5. ASSUME NEW k \in 1 .. Len(runs'), NEW l \in 1 .. Len(runs'), k < l
        PROVE  runs'[k].base < runs'[l].base
    <3>1. k \in 1 .. Len(runs)
      BY <1>8, <1>9, <2>5
    <3>2. CASE l \in 1 .. Len(runs)
      BY <2>1, <2>5, <3>1, <3>2 DEF IInv, OwnRuns
    <3>3. CASE l = Len(runs) + 1 /\ runs'[l] = r
      BY <1>3, <1>7, <2>1, <3>1, <3>3
    <3> QED
      BY <2>2, <3>2, <3>3
  <2>6. Len(frames') <= Len(frameUpvalues')
    BY <1>3 DEF IInv, OwnRuns
  <2> QED
    BY <2>3, <2>4, <2>5, <2>6 DEF OwnRuns
<1> QED
  BY <1>3, <1>10, <1>11, <1>12 DEF IInv

\* TAIL_CALL reuses the frame, which is not inside a try statement.
LEMMA TailCallStep ==
  ASSUME IInv, NEW c \in Closures, TailCall(c)
  PROVE  IInv'
<1> DEFINE f == Frame(Top.slots, c)
<1>1. Live
  BY DEF TailCall, Dispatching, Live
<1>2. /\ Top \in Frames /\ frames # <<>> /\ frames \in Seq(Frames) /\ tryStack \in Seq(TryBlocks)
      /\ frameUpvalues \in Seq(Closures) /\ Len(frameUpvalues) \in Nat /\ frameUpvalues # <<>>
  BY <1>1, Alive DEF IInv, TypeOK
<1>3. Top.slots \in Int /\ Top.active = <<>>
  BY <1>2 DEF Frames, TailCall
<1>4. f \in Frames /\ f.active = <<>>
  <2>1. <<>> \in Seq(TryStatements)
    BY EmptySeq
  <2> QED
    BY <1>3, <2>1 DEF Frame, Frames
<1>5. /\ frames' = WithTop(f) /\ stackTop' = Top.slots + Locals
      /\ frameUpvalues' = [frameUpvalues EXCEPT ![Len(frameUpvalues)] = c]
      /\ UNCHANGED <<tryStack, runs, memTop, running, pendingException, mode>>
  BY DEF TailCall
<1> HIDE DEF f
<1>6. Exact' /\ tryStack' \in Seq(TryBlocks)
  BY <1>1, <1>3, <1>4, <1>5, WithinBody
<1>7. frames' \in Seq(Frames) /\ Len(frames') = Len(frames)
  BY <1>2, <1>4, <1>5, FrameChanged DEF WithTop
<1>8. frameUpvalues' \in Seq(Closures) /\ Len(frameUpvalues') = Len(frameUpvalues)
  <2>1. Len(frameUpvalues) \in 1 .. Len(frameUpvalues)
    BY <1>2, EmptySeq
  <2> QED
    BY <1>2, <1>5, <2>1, ExceptSeq
<1>9. stackTop' \in Int
  BY <1>3, <1>5, BoundsAssumption
<1>10. TypeOK'
  BY <1>5, <1>6, <1>7, <1>8, <1>9 DEF IInv, TypeOK
<1>11. Modes' /\ OwnRuns'
  BY <1>1, <1>5, <1>7, <1>8 DEF IInv, Modes, OwnRuns, Live
<1> QED
  BY <1>6, <1>10, <1>11 DEF IInv

\* RETURN takes away the try blocks of the frame it leaves and no other.
LEMMA Popped ==
  ASSUME IInv, Live, PopTryBlocks(Len(frames)),
         \A i \in Nat, d \in Nat : BodyIn(frames', i, d) <=> BodyIn(frames, i, d) /\ i < Len(frames)
  PROVE  Exact' /\ tryStack' \in Seq(TryBlocks)
<1>1. tryStack \in Seq(TryBlocks) /\ Exact /\ Len(frames) \in Nat \ {0}
  BY Alive DEF IInv, TypeOK
<1>2. /\ Len(tryStack) \in Nat
      /\ \A k \in 1 .. Len(tryStack) : tryStack[k] \in TryBlocks
  BY <1>1, LenProperties, ElementOfSeq
<1>3. \A k \in 1 .. Len(tryStack) : tryStack[k].frame \in Nat /\ tryStack[k].depth \in Nat
  BY <1>2 DEF TryBlocks
<1>4. PICK m \in 0 .. Len(tryStack) :
        /\ m > 0 => tryStack[m].frame < Len(frames)
        /\ \A k \in m + 1 .. Len(tryStack) : tryStack[k].frame >= Len(frames)
        /\ tryStack' = SubSeq(tryStack, 1, m)
  BY DEF PopTryBlocks
<1>5. m \in Nat /\ m <= Len(tryStack)
  BY <1>2, <1>4
<1>6. ASSUME NEW k \in 1 .. m
      PROVE  BodyIn(frames', tryStack[k].frame, tryStack[k].depth)
  <2>1. k \in 1 .. Len(tryStack) /\ m \in 1 .. Len(tryStack) /\ m > 0
    BY <1>2, <1>5, <1>6
  <2>2. BodyIn(frames, tryStack[k].frame, tryStack[k].depth)
    BY <1>1, <2>1 DEF Exact
  <2>3. tryStack[k].frame <= tryStack[m].frame
    <3>1. CASE k = m
      BY <1>3, <2>1, <3>1
    <3>2. CASE k # m
      <4>1. k < m
        BY <1>5, <1>6, <3>2
      <4>2. Before(tryStack[k], tryStack[m])
        BY <1>1, <2>1, <4>1 DEF Exact
      <4> QED
        BY <1>3, <2>1, <4>2 DEF Before
    <3> QED
      BY <3>1, <3>2
  <2>4. tryStack[k].frame < Len(frames)
    BY <1>1, <1>3, <1>4, <2>1, <2>3
  <2> QED
    BY <1>3, <2>1, <2>2, <2>4
<1>7. ASSUME NEW k \in 1 .. Len(tryStack), k > m
      PROVE  ~BodyIn(frames', tryStack[k].frame, tryStack[k].depth)
  <2>1. k \in m + 1 .. Len(tryStack)
    BY <1>2, <1>5, <1>7
  <2>2. tryStack[k].frame >= Len(frames)
    BY <1>4, <2>1
  <2> QED
    BY <1>1, <1>3, <2>2
<1>8. tryStack' = SubSeq(tryStack, 1, m)
  BY <1>4
<1> QED
  BY <1>1, <1>5, <1>6, <1>7, <1>8, FewerBodies

\* RETURN within run(), from run() to the native that called it, and at the end.
LEMMA ReturnStep ==
  ASSUME IInv, Return
  PROVE  IInv'
<1> DEFINE n == Len(frames) - 1
<1>1. Live /\ PopTryBlocks(Len(frames)) /\ frameUpvalues' = Front(frameUpvalues)
      /\ mode = "exec"
  BY DEF Return, Dispatching, Live
<1>2. /\ Len(frames) \in Nat \ {0} /\ frames # <<>> /\ Top \in Frames
      /\ Len(runs) \in Nat \ {0} /\ Run = runs[Len(runs)] /\ Run \in Runs /\ Run.base \in 1 .. Len(frames)
      /\ \A k \in 1 .. Len(runs) : runs[k] \in Runs /\ runs[k].base <= Run.base
      /\ Len(runs) = 1 => Run.base = 1
      /\ frameUpvalues # <<>> /\ runs # <<>>
  BY <1>1, Alive, EmptySeq
<1>3. /\ frames \in Seq(Frames) /\ frameUpvalues \in Seq(Closures) /\ runs \in Seq(Runs)
      /\ stackTop \in Int /\ memTop \in Int
  BY DEF IInv, TypeOK
<1>4. n \in Nat /\ n <= Len(frames) /\ Top.slots \in Int /\ Run.stackBefore \in Int
  BY <1>2 DEF Frames, Runs
<1>5. frameUpvalues' \in Seq(Closures) /\ n <= Len(frameUpvalues')
  <2>1. /\ frameUpvalues' \in Seq(Closures) /\ Len(frameUpvalues') = Len(frameUpvalues) - 1
        /\ Len(frameUpvalues) \in Nat
    BY <1>1, <1>2, <1>3, Ends
  <2> QED
    BY <1>2, <2>1 DEF IInv, OwnRuns
<1>6. ASSUME frames' = Front(frames)
      PROVE  /\ frames' \in Seq(Frames) /\ Len(frames') = n /\ Len(frames') <= MaxFrames
             /\ Exact' /\ tryStack' \in Seq(TryBlocks)
  <2>1. frames' = SubSeq(frames, 1, n)
    BY <1>6 DEF Front
  <2>2. /\ frames' \in Seq(Frames) /\ Len(frames') = n
        /\ \A i \in Nat, d \in Nat : BodyIn(frames', i, d) <=> BodyIn(frames, i, d) /\ i <= n
    BY <1>3, <1>4, <2>1, FramesCut
  <2>3. \A i \in Nat, d \in Nat : BodyIn(frames', i, d) <=> BodyIn(frames, i, d) /\ i < Len(frames)
    BY <1>2, <2>2
  <2>4. Len(frames') <= MaxFrames
    BY <1>2, <2>2, BoundsAssumption DEF IInv, TypeOK
  <2> QED
    BY <1>1, <2>2, <2>3, <2>4, Popped
<1>7. ASSUME n >= Run.base, frames' = Front(frames), stackTop' = Top.slots, memTop' = stackTop - 1,
             UNCHANGED <<runs, running, pendingException, mode>>
      PROVE  IInv'
  <2>1. TypeOK'
    BY <1>1, <1>3, <1>4, <1>5, <1>6, <1>7 DEF IInv, TypeOK
  <2>2. Modes'
    BY <1>1, <1>7 DEF IInv, Modes, Live
  <2>3. OwnRuns'
    <3>1. \A k \in 1 .. Len(runs) : runs[k].base <= n
      <4> SUFFICES ASSUME NEW k \in 1 .. Len(runs)
                   PROVE  runs[k].base <= n
        OBVIOUS
      <4>1. runs[k].base \in Nat /\ runs[k].base <= Run.base
        BY <1>2 DEF Runs
      <4> QED
        BY <1>2, <1>4, <1>7, <4>1
    <3> QED
      BY <1>5, <1>6, <1>7, <3>1 DEF IInv, OwnRuns
  <2> QED
    BY <1>6, <1>7, <2>1, <2>2, <2>3 DEF IInv
<1>8. ASSUME n < Run.base, Len(runs) > 1, frames' = Front(frames), stackTop' = Run.stackBefore,
             memTop' = Run.stackBefore, runs' = Front(runs), mode' = "native",
             running' = (Run.saved /\ pendingException = "nil"),
             pendingException' = IF pendingException = "nil" THEN "nil" ELSE "raised"
      PROVE  IInv'
  <2>1. Run.base = Len(frames) /\ n = Run.base - 1
    BY <1>2, <1>8
  <2>2. /\ runs' \in Seq(Runs) /\ Len(runs') = Len(runs) - 1
        /\ \A k \in 1 .. Len(runs) - 1 : runs'[k] = runs[k]
    BY <1>2, <1>3, <1>8, Ends
  <2>3. Run.saved /\ Run.saved \in BOOLEAN
    BY <1>2, <1>8 DEF IInv, OwnRuns, Runs
  <2>4. /\ running' \in BOOLEAN /\ pendingException' \in Pendings
        /\ running' <=> pendingException' # "raised"
    <3>1. CASE pendingException = "nil"
      BY <1>8, <2>3, <3>1 DEF Pendings
    <3>2. CASE pendingException # "nil"
      BY <1>8, <3>2 DEF Pendings
    <3> QED
      BY <3>1, <3>2
  <2>5. TypeOK'
    <3>1. Len(runs') <= MaxDepth
      BY <1>2, <2>2, BoundsAssumption DEF IInv, TypeOK
    <3>2. running' \in BOOLEAN /\ pendingException' \in Pendings
      BY <2>4
    <3> QED
      BY <1>4, <1>5, <1>6, <1>8, <2>2, <3>1, <3>2 DEF TypeOK
  <2>6. Modes'
    <3>1. runs'[1].base = 1 /\ runs' # <<>>
      BY <1>1, <1>2, <1>8, <2>2, EmptySeq DEF IInv, Modes
    <3> QED
      BY <1>8, <2>4, <3>1 DEF Modes
  <2>7. OwnRuns'
    <3>1. \A k \in 1 .. Len(runs') : k \in 1 .. Len(runs) /\ runs'[k] = runs[k] /\ runs[k].base < Run.base
      BY <1>2, <2>2 DEF IInv, OwnRuns
    <3>2. \A k \in 1 .. Len(runs') : runs'[k].base <= Len(frames')
      <4> SUFFICES ASSUME NEW k \in 1 .. Len(runs')
                   PROVE  runs'[k].base <= Len(frames')
        OBVIOUS
      <4>1. runs[k].base \in Nat /\ runs'[k] = runs[k] /\ runs[k].base < Run.base
        BY <1>2, <3>1 DEF Runs
      <4>2. Len(frames') = n
        BY <1>6, <1>8
      <4> QED
        BY <1>2, <2>1, <4>1, <4>2
    <3>3. /\ \A k \in 1 .. Len(runs') : k > 1 => runs'[k].framesBefore = runs'[k].base - 1 /\ runs'[k].saved
          /\ \A k, l \in 1 .. Len(runs') : k < l => runs'[k].base < runs'[l].base
      BY <3>1 DEF IInv, OwnRuns
    <3>4. Len(frames') <= Len(frameUpvalues')
      BY <1>5, <1>6, <1>8
    <3> QED
      BY <3>2, <3>3, <3>4 DEF OwnRuns
  <2> QED
    BY <1>6, <1>8, <2>5, <2>6, <2>7 DEF IInv
<1>9. ASSUME n < Run.base, Len(runs) = 1, mode' \in {"ok", "uncaught"}, frames' = <<>>, runs' = <<>>,
             running' = FALSE, pendingException' = "nil", UNCHANGED <<stackTop, memTop>>
      PROVE  IInv'
  <2>1. Len(frames) = 1
    <3>1. Run.base = 1
      BY <1>2, <1>9
    <3>2. n \in Nat /\ n < 1
      BY <1>4, <1>9, <3>1
    <3>3. \A m \in Nat \ {0} : m - 1 < 1 => m = 1
      OBVIOUS
    <3> QED
      BY <1>2, <3>2, <3>3
  <2>2. Len(<<>>) = 0 /\ \A S : <<>> \in Seq(S)
    BY EmptySeq
  <2>3. \A i \in Nat, d \in Nat : BodyIn(frames', i, d) <=> BodyIn(frames, i, d) /\ i < Len(frames)
    BY <1>9, <2>1, <2>2 DEF BodyIn
  <2>4. Exact' /\ tryStack' \in Seq(TryBlocks)
    BY <1>1, <2>3, Popped
  <2>5. tryStack' = <<>>
    <3>1. \A k \in 1 .. Len(tryStack') : FALSE
      BY <1>9, <2>2, <2>4 DEF Exact, BodyIn
    <3>2. Len(tryStack') \in Nat
      BY <2>4, LenProperties
    <3>3. Len(tryStack') = 0
      BY <3>1, <3>2
    <3> QED
      BY <2>4, <3>3, EmptySeq
  <2>6. running' \in BOOLEAN /\ pendingException' \in Pendings /\ pendingException' # "raised"
    BY <1>9 DEF Pendings
  <2>7. TypeOK'
    BY <1>3, <1>5, <1>9, <2>2, <2>4, <2>6, BoundsAssumption DEF TypeOK
  <2>8. Modes' /\ OwnRuns'
    <3>1. Len(frames') <= Len(frameUpvalues')
      BY <1>5, <1>9, <2>1, <2>2
    <3> QED
      BY <1>9, <2>2, <2>5, <2>6, <3>1 DEF Modes, OwnRuns
  <2> QED
    BY <2>4, <2>7, <2>8 DEF IInv
<1> QED
  BY <1>7, <1>8, <1>9 DEF Return

\* A fault, wherever it is raised: in an instruction, between two, in a native, or
\* as a C++ exception.
LEMMA FaultStep ==
  ASSUME IInv, Throw \/ BudgetFault \/ Fault \/ CallAtLimit \/ NativeReturnsFault \/ CxxException
  PROVE  IInv'
<1>1. Live
  BY DEF Live, Throw, BudgetFault, Fault, CallAtLimit, NativeReturnsFault, CxxException, Dispatching
<1>2. stackTop \in Int /\ memTop \in Int
  BY DEF IInv, TypeOK
<1>3. CASE Deliver(memTop) \/ Deliver(stackTop)
  BY <1>1, <1>2, <1>3, DeliverStep
<1>4. CASE CxxException
  <2>1. CASE OwnsTryBlock /\ EnterHandler(Last(tryStack).top)
    <3>1. Last(tryStack) \in TryBlocks
      BY <1>1, <2>1, Innermost DEF OwnsTryBlock
    <3>2. Last(tryStack).top \in Int
      BY <3>1 DEF TryBlocks
    <3> QED
      BY <1>1, <2>1, <3>2, EnterStep
  <2>2. CASE ~OwnsTryBlock /\ LeaveRun
    BY <1>1, <2>2, LeaveStep
  <2> QED
    BY <1>4, <2>1, <2>2 DEF CxxException
<1> QED
  BY <1>3, <1>4 DEF Throw, BudgetFault, Fault, CallAtLimit, NativeReturnsFault

\* A native starts, records a fault, has a callback refused, or returns.
LEMMA NativeStep ==
  ASSUME IInv, CallNative \/ NativeReturns \/ NativeFaults \/ RefusedCallback
  PROVE  IInv'
<1>1. UNCHANGED <<frames, frameUpvalues, tryStack, runs>>
  BY DEF CallNative, NativeReturns, NativeFaults, RefusedCallback
<1>2. TypeOK'
  <2>1. stackTop' \in Int /\ memTop' \in Int
    BY DEF CallNative, NativeReturns, NativeFaults, RefusedCallback, IInv, TypeOK
  <2>2. running' \in BOOLEAN /\ pendingException' \in Pendings
    BY DEF CallNative, NativeReturns, NativeFaults, RefusedCallback, IInv, TypeOK, Pendings
  <2>3. mode' \in {"exec", "native"}
    BY DEF CallNative, NativeReturns, NativeFaults, RefusedCallback
  <2> QED
    BY <1>1, <2>1, <2>2, <2>3 DEF IInv, TypeOK
<1>3. Modes'
  <2>1. Live /\ Live'
    BY DEF CallNative, NativeReturns, NativeFaults, RefusedCallback, Live, Dispatching
  <2>2. runs' # <<>> /\ runs'[1].base = 1
    BY <1>1, <2>1 DEF IInv, Modes, Live
  <2>3. (running <=> pendingException # "raised") /\ (pendingException = "raised" => mode = "native")
    BY <2>1 DEF IInv, Modes, Live
  <2>4. (running' <=> pendingException' # "raised") /\ (pendingException' = "raised" => mode' = "native")
    BY <2>3 DEF CallNative, NativeReturns, NativeFaults, RefusedCallback
  <2> QED
    BY <2>1, <2>2, <2>4 DEF Modes, Live
<1>4. OwnRuns' /\ Exact'
  BY <1>1 DEF IInv, OwnRuns, Exact
<1> QED
  BY <1>2, <1>3, <1>4 DEF IInv

-----------------------------------------------------------------------------
(* The theorems.                                                           *)

\* execute() starts with one frame, one run() and no try block.
LEMMA InitHolds ==
  Init => IInv
<1> SUFFICES ASSUME Init
             PROVE  IInv
  OBVIOUS
<1> DEFINE r == [base |-> 1, stackBefore |-> 0, framesBefore |-> 0, saved |-> FALSE]
<1>1. PICK c \in Closures : frames = <<Frame(1, c)>> /\ frameUpvalues = <<c>>
  BY DEF Init
<1>2. /\ tryStack = <<>> /\ runs = <<r>> /\ stackTop = 1 + Locals /\ memTop = 1 + Locals
      /\ running = TRUE /\ pendingException = "nil" /\ mode = "exec"
  BY DEF Init
<1>3. Frame(1, c) \in Frames /\ Frame(1, c).active = <<>> /\ r \in Runs
  BY EmptySeq DEF Frame, Frames, Runs
<1>4. r.base = 1
  OBVIOUS
<1> HIDE DEF r
<1>5. /\ frames \in Seq(Frames) /\ Len(frames) = 1 /\ frames[1] = Frame(1, c)
      /\ frameUpvalues \in Seq(Closures) /\ Len(frameUpvalues) = 1
      /\ runs \in Seq(Runs) /\ Len(runs) = 1 /\ runs[1] = r /\ runs # <<>>
      /\ tryStack \in Seq(TryBlocks) /\ Len(tryStack) = 0
  BY <1>1, <1>2, <1>3, EmptySeq
<1>6. TypeOK
  <2>1. stackTop \in Int /\ memTop \in Int
    BY <1>2, BoundsAssumption
  <2>2. Len(frames) <= MaxFrames /\ Len(runs) <= MaxDepth
    BY <1>5, BoundsAssumption
  <2>3. running \in BOOLEAN /\ pendingException \in Pendings
    BY <1>2 DEF Pendings
  <2> QED
    BY <1>2, <1>5, <2>1, <2>2, <2>3 DEF TypeOK
<1>7. Modes
  BY <1>2, <1>4, <1>5 DEF Modes
<1>8. OwnRuns
  BY <1>4, <1>5 DEF OwnRuns
<1>9. Exact
  <2>1. ASSUME NEW i \in Nat, NEW d \in Nat
        PROVE  ~BodyIn(frames, i, d)
    <3>1. i \in 1 .. Len(frames) => frames[i].active = <<>>
      BY <1>3, <1>5
    <3> QED
      BY <3>1, EmptySeq DEF BodyIn, Opens
  <2> QED
    BY <1>5, <2>1 DEF Exact
<1> QED
  BY <1>6, <1>7, <1>8, <1>9 DEF IInv

\* The frames, the try blocks and the run() invocations agree in every reachable
\* state.
THEOREM Invariance ==
  Spec => []IInv
<1>1. Init => IInv
  BY InitHolds
<1>2. IInv /\ [Next]_vars => IInv'
  <2> SUFFICES ASSUME IInv, [Next]_vars
               PROVE  IInv'
    OBVIOUS
  <2>1. CASE Push \/ Pop
    BY <2>1, OperandStep
  <2>2. CASE TryStart
    BY <2>2, TryStartStep
  <2>3. CASE TryEnd \/ CatchEnd
    BY <2>3, LeaveTryStep
  <2>4. CASE Throw \/ BudgetFault \/ Fault \/ CxxException \/ CallAtLimit \/ NativeReturnsFault
    BY <2>4, FaultStep
  <2>5. ASSUME NEW c \in Closures, Call(c) \/ TailCall(c) \/ NativeCallsBack(c)
        PROVE  IInv'
    BY <2>5, CallStep, TailCallStep, CallBackStep
  <2>6. CASE Return
    BY <2>6, ReturnStep
  <2>7. CASE CallNative \/ NativeReturns \/ NativeFaults \/ RefusedCallback
    BY <2>7, NativeStep
  <2>8. CASE UNCHANGED vars
    BY <2>8 DEF vars, IInv, TypeOK, Modes, OwnRuns, Exact
  <2> QED
    BY <2>1, <2>2, <2>3, <2>4, <2>5, <2>6, <2>7, <2>8 DEF Next, Ended, Undefined
<1> QED
  BY <1>1, <1>2, PTL DEF Spec

\* The state keeps its types; frames stay below maxFrames and nested run()
\* invocations below the limit on C++ calls.
THEOREM TypeCorrect ==
  Spec => []TypeOK
<1>1. IInv => TypeOK
  BY DEF IInv
<1> QED
  BY <1>1, Invariance, PTL

\* The try blocks registered are, in order, the try statements whose body the live
\* frames are in, after every RETURN, TRY_END, tail call, callback and fault.
THEOREM TryBlocksExact ==
  Spec => []TryStackExact
<1>1. IInv => TryStackExact
  <2> SUFFICES ASSUME IInv
               PROVE  TryStackExact
    OBVIOUS
  <2> DEFINE Bodies(i) == {j \in DOMAIN frames[i].active : frames[i].active[j].kind = "try"}
             Open == UNION {{<<i, j>> : j \in Bodies(i)} : i \in DOMAIN frames}
             Registered == {<<tryStack[k].frame, tryStack[k].depth + 1>> : k \in DOMAIN tryStack}
  <2>1. frames \in Seq(Frames) /\ tryStack \in Seq(TryBlocks) /\ Exact
    BY DEF IInv, TypeOK
  <2>2. DOMAIN frames = 1 .. Len(frames) /\ DOMAIN tryStack = 1 .. Len(tryStack)
    BY <2>1, LenProperties
  <2>3. \A i \in DOMAIN frames : DOMAIN frames[i].active = 1 .. Len(frames[i].active)
    <3> SUFFICES ASSUME NEW i \in DOMAIN frames
                 PROVE  DOMAIN frames[i].active = 1 .. Len(frames[i].active)
      OBVIOUS
    <3>1. frames[i] \in Frames
      BY <2>1, <2>2, ElementOfSeq
    <3> QED
      BY <3>1, LenProperties DEF Frames
  <2>4. \A k \in DOMAIN tryStack : tryStack[k].frame \in Nat /\ tryStack[k].depth \in Nat
    <3> SUFFICES ASSUME NEW k \in DOMAIN tryStack
                 PROVE  tryStack[k].frame \in Nat /\ tryStack[k].depth \in Nat
      OBVIOUS
    <3>1. tryStack[k] \in TryBlocks
      BY <2>1, <2>2, ElementOfSeq
    <3> QED
      BY <3>1 DEF TryBlocks
  <2>5. Registered \subseteq Open
    <3> SUFFICES ASSUME NEW k \in DOMAIN tryStack
                 PROVE  <<tryStack[k].frame, tryStack[k].depth + 1>> \in Open
      OBVIOUS
    <3>1. BodyIn(frames, tryStack[k].frame, tryStack[k].depth)
      BY <2>1, <2>2 DEF Exact
    <3>2. tryStack[k].frame \in DOMAIN frames
      BY <2>2, <3>1 DEF BodyIn
    <3>3. tryStack[k].depth + 1 \in Bodies(tryStack[k].frame)
      BY <2>3, <3>1, <3>2 DEF BodyIn, Opens
    <3> QED
      BY <3>2, <3>3
  <2>6. Open \subseteq Registered
    <3> SUFFICES ASSUME NEW i \in DOMAIN frames, NEW j \in Bodies(i)
                 PROVE  <<i, j>> \in Registered
      OBVIOUS
    <3>1. i \in 1 .. Len(frames) /\ j \in 1 .. Len(frames[i].active) /\ frames[i].active[j].kind = "try"
      BY <2>2, <2>3
    <3>2. j \in Nat /\ j >= 1 /\ i \in Nat
      BY <3>1
    <3> DEFINE d == j - 1
    <3>3. d \in Nat /\ d + 1 = j
      BY <3>2
    <3> HIDE DEF d
    <3>4. BodyIn(frames, i, d)
      BY <3>1, <3>3 DEF BodyIn, Opens
    <3>5. PICK k \in 1 .. Len(tryStack) : tryStack[k].frame = i /\ tryStack[k].depth = d
      BY <2>1, <3>2, <3>3, <3>4 DEF Exact
    <3> QED
      BY <2>2, <3>3, <3>5
  <2>7. \A k, l \in DOMAIN tryStack : k < l =>
              \/ tryStack[k].frame < tryStack[l].frame
              \/ tryStack[k].frame = tryStack[l].frame /\ tryStack[k].depth < tryStack[l].depth
    BY <2>1, <2>2 DEF Exact, Before
  <2>8. Registered = Open
    BY <2>5, <2>6
  <2> QED
    BY <2>7, <2>8 DEF TryStackExact
<1> QED
  BY <1>1, Invariance, PTL

\* A nested run() never pops, and never resumes, a frame of the run() around it,
\* whatever callbacks, returns and faults do.
THEOREM EveryRunOwnsItsFrames ==
  Spec => []RunsOwnFrames
<1>1. IInv => RunsOwnFrames
  <2> SUFFICES ASSUME IInv
               PROVE  RunsOwnFrames
    OBVIOUS
  <2>1. DOMAIN runs = 1 .. Len(runs)
    BY LenProperties DEF IInv, TypeOK
  <2> QED
    BY <2>1 DEF IInv, OwnRuns, RunsOwnFrames
<1> QED
  BY <1>1, Invariance, PTL

\* While a raised fault is in flight no instruction is dispatched: the native it was
\* recorded in is on the stack, and running is FALSE.  Refused callbacks happen in
\* these behaviours; their own fault is the one that is not raised.
THEOREM NothingRunsPastAFault ==
  Spec => []NoCodeRunsPastAFault
<1>1. IInv => NoCodeRunsPastAFault
  BY DEF IInv, Modes, NoCodeRunsPastAFault
<1> QED
  BY <1>1, Invariance, PTL
==============================================================================
