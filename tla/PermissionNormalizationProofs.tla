-------------------- MODULE PermissionNormalizationProofs --------------------
(***************************************************************************)
(* Proofs about PermissionNormalization, for every catalog over every      *)
(* finite set of codes: the recursive walks of PermissionService.php       *)
(* compute the closures that PermissionCatalog defines.  What a recursive  *)
(* function returns is here an invariant of its call stack.                *)
(***************************************************************************)
EXTENDS PermissionNormalization, TLAPS, FiniteSetTheorems

-----------------------------------------------------------------------------
(***************************************************************************)
(* The call stack                                                          *)
(***************************************************************************)

Frames == [code : CatalogCodes, left : SUBSET CatalogCodes]

NormalizationTypeOK ==
    /\ dependsOn \in [CatalogCodes -> SUBSET CatalogCodes]
    /\ current \in SUBSET CatalogCodes
    /\ requested \in SUBSET CatalogCodes
    /\ result \in SUBSET CatalogCodes
    /\ loop \in {"remove", "add", "done"}
    /\ pending \in SUBSET CatalogCodes
    /\ stack \in Seq(Frames)

\* The calls in progress are for different codes, and what a call has still to
\* visit are neighbours of its code.
StackInv ==
    /\ \A i, j \in DOMAIN stack : stack[i].code = stack[j].code => i = j
    /\ \A i \in DOMAIN stack : stack[i].left \subseteq Neighbours(stack[i].code)
    /\ loop = "done" => stack = <<>> /\ pending = {}

\* The stack after a turn of the innermost foreach.
Turned(k) == [stack EXCEPT ![Len(stack)].left = @ \ {k}]

\* A turn takes one code off the innermost call and leaves the others alone.
LEMMA TurnedFacts ==
    ASSUME stack \in Seq(Frames), stack # <<>>, NEW k
    PROVE  /\ Turned(k) \in Seq(Frames)
           /\ Len(Turned(k)) = Len(stack)
           /\ Len(stack) \in DOMAIN stack
           /\ DOMAIN stack = 1..Len(stack)
           /\ DOMAIN Turned(k) = 1..Len(stack)
           /\ Len(stack) \in Nat
           /\ \A i \in DOMAIN stack :
                 /\ stack[i] \in Frames
                 /\ Turned(k)[i].code = stack[i].code
                 /\ Turned(k)[i].left =
                        IF i = Len(stack) THEN stack[i].left \ {k}
                        ELSE stack[i].left
<1>1. Len(stack) \in 1..Len(stack) /\ Len(stack) \in Nat
  OBVIOUS
<1>2. DOMAIN stack = 1..Len(stack) /\ \A i \in 1..Len(stack) : stack[i] \in Frames
  OBVIOUS
<1>3. [stack[Len(stack)] EXCEPT !.left = @ \ {k}] \in Frames
  BY <1>1, <1>2 DEF Frames
<1>4. Turned(k) = [stack EXCEPT ![Len(stack)] =
                       [stack[Len(stack)] EXCEPT !.left = @ \ {k}]]
  BY DEF Turned
<1>5. Turned(k) \in Seq(Frames) /\ Len(Turned(k)) = Len(stack)
      /\ DOMAIN Turned(k) = 1..Len(stack)
  BY <1>1, <1>2, <1>3, <1>4
<1>6. ASSUME NEW i \in DOMAIN stack
      PROVE  /\ stack[i] \in Frames
             /\ Turned(k)[i].code = stack[i].code
             /\ Turned(k)[i].left =
                    IF i = Len(stack) THEN stack[i].left \ {k}
                    ELSE stack[i].left
  BY <1>1, <1>2, <1>4 DEF Frames
<1>7. QED
  BY <1>1, <1>2, <1>5, <1>6

LEMMA NeighboursType ==
    ASSUME NormalizationTypeOK, NEW c \in CatalogCodes
    PROVE  Neighbours(c) \in SUBSET CatalogCodes
BY DEF NormalizationTypeOK, Neighbours, Dependents

\* Type correctness.
LEMMA NormalizationTyping == Spec => []NormalizationTypeOK
<1>1. Init => NormalizationTypeOK
  BY DEF Init, NormalizationTypeOK
<1>2. NormalizationTypeOK /\ [Next]_vars => NormalizationTypeOK'
  <2> SUFFICES ASSUME NormalizationTypeOK, [Next]_vars
               PROVE  NormalizationTypeOK'
    OBVIOUS
  <2>1. CASE Visit
    <3>1. PICK c \in pending : /\ pending' = pending \ {c}
                               /\ stack' = <<Frame(c)>>
      BY <2>1 DEF Visit
    <3>2. Frame(c) \in Frames
      BY <3>1, NeighboursType DEF NormalizationTypeOK, Frame, Frames
    <3>3. stack' \in Seq(Frames)
      BY <3>1, <3>2
    <3>4. QED
      BY <2>1, <3>1, <3>3 DEF Visit, NormalizationTypeOK, input
  <2>2. CASE Descend
    <3>1. PICK k \in Top.left :
              /\ result' = Edit(k)
              /\ stack' = IF k \in Visited THEN Turned(k)
                                           ELSE Append(Turned(k), Frame(k))
      BY <2>2 DEF Descend, Turned
    <3>2. stack # <<>> /\ UNCHANGED <<input, loop, pending>>
      BY <2>2 DEF Descend
    <3>3. stack \in Seq(Frames)
      BY DEF NormalizationTypeOK
    <3>4. Turned(k) \in Seq(Frames) /\ Top \in Frames
      BY <3>2, <3>3, TurnedFacts DEF Top
    <3>5. k \in CatalogCodes
      BY <3>1, <3>4 DEF Frames
    <3>6. Frame(k) \in Frames
      BY <3>5, NeighboursType DEF Frame, Frames
    <3>7. stack' \in Seq(Frames)
      BY <3>1, <3>4, <3>6
    <3>8. result' \in SUBSET CatalogCodes
      BY <3>1, <3>5 DEF Edit, NormalizationTypeOK
    <3>9. QED
      BY <3>2, <3>7, <3>8 DEF NormalizationTypeOK, input
  <2>3. CASE Return
    <3>1. stack' \in Seq(Frames)
      BY <2>3 DEF Return, NormalizationTypeOK
    <3>2. QED
      BY <2>3, <3>1 DEF Return, NormalizationTypeOK, input
  <2>4. CASE RemoveDone
    BY <2>4 DEF RemoveDone, NormalizationTypeOK, input
  <2>5. CASE AddDone
    BY <2>5 DEF AddDone, NormalizationTypeOK, input
  <2>6. CASE UNCHANGED vars
    BY <2>6 DEF vars, NormalizationTypeOK, input
  <2>7. QED
    BY <2>1, <2>2, <2>3, <2>4, <2>5, <2>6 DEF Next
<1>3. QED
  BY <1>1, <1>2, PTL DEF Spec

\* The stack keeps its shape.
LEMMA StackStep ==
    ASSUME NormalizationTypeOK, StackInv, [Next]_vars
    PROVE  StackInv'
<1>1. CASE Visit
  <2>1. PICK c \in pending : stack' = <<Frame(c)>>
    BY <1>1 DEF Visit
  <2>2. dependsOn' = dependsOn /\ loop' = loop
    BY <1>1 DEF Visit, input
  <2>3. loop # "done"
    BY <2>1 DEF StackInv
  <2>4. DOMAIN stack' = {1} /\ stack'[1] = Frame(c)
    BY <2>1
  <2>5. QED
    BY <2>2, <2>3, <2>4 DEF StackInv, Frame, Neighbours, Dependents
<1>2. CASE Descend
  <2>1. PICK k \in Top.left :
            stack' = IF k \in Visited THEN Turned(k)
                                      ELSE Append(Turned(k), Frame(k))
    BY <1>2 DEF Descend, Turned
  <2>2. stack # <<>> /\ dependsOn' = dependsOn /\ loop' = loop
    BY <1>2 DEF Descend, input
  <2>3. stack \in Seq(Frames)
    BY DEF NormalizationTypeOK
  <2> DEFINE n == Len(stack)
  <2>4. /\ Turned(k) \in Seq(Frames) /\ Len(Turned(k)) = n
        /\ n \in Nat /\ DOMAIN stack = 1..n
        /\ \A i \in 1..n : /\ Turned(k)[i].code = stack[i].code
                           /\ Turned(k)[i].left \subseteq stack[i].left
    BY <2>2, <2>3, TurnedFacts
  <2>5. \A c : Neighbours(c)' = Neighbours(c)
    BY <2>2 DEF Neighbours, Dependents
  <2>6. \A i \in 1..n : Turned(k)[i].left \subseteq Neighbours(Turned(k)[i].code)
    BY <2>4 DEF StackInv
  <2>7. \A i, j \in 1..n : Turned(k)[i].code = Turned(k)[j].code => i = j
    BY <2>4 DEF StackInv
  <2>8. loop # "done"
    BY <2>2 DEF StackInv
  <2>9. CASE k \in Visited
    <3>1. stack' = Turned(k) /\ DOMAIN stack' = 1..n
      BY <2>1, <2>4, <2>9
    <3>2. QED
      BY <2>2, <2>5, <2>6, <2>7, <2>8, <3>1 DEF StackInv
  <2>10. CASE k \notin Visited
    <3>1. stack' = Append(Turned(k), Frame(k))
      BY <2>1, <2>10
    <3>2. /\ DOMAIN stack' = 1..(n + 1)
          /\ stack'[n + 1] = Frame(k)
          /\ \A i \in 1..n : stack'[i] = Turned(k)[i]
      BY <2>4, <3>1
    <3>3. \A i \in 1..n : Turned(k)[i].code # k
      BY <2>4, <2>10 DEF Visited
    <3>4. Frame(k).code = k /\ Frame(k).left = Neighbours(k)
      BY DEF Frame
    <3>5. \A i \in 1..(n + 1) : i = n + 1 \/ i \in 1..n
      BY <2>4
    <3>6. \A i, j \in DOMAIN stack' : stack'[i].code = stack'[j].code => i = j
      BY <2>7, <3>2, <3>3, <3>4, <3>5
    <3>7. \A i \in DOMAIN stack' :
              stack'[i].left \subseteq Neighbours(stack'[i].code)
      BY <2>6, <3>2, <3>4, <3>5
    <3>8. QED
      BY <2>2, <2>5, <2>8, <3>6, <3>7 DEF StackInv
  <2>11. QED
    BY <2>9, <2>10
<1>3. CASE Return
  <2>1. /\ stack' = SubSeq(stack, 1, Len(stack) - 1) /\ stack # <<>>
        /\ dependsOn' = dependsOn /\ loop' = loop /\ pending' = pending
    BY <1>3 DEF Return, input
  <2>2. stack \in Seq(Frames)
    BY DEF NormalizationTypeOK
  <2>3. /\ DOMAIN stack' \subseteq DOMAIN stack
        /\ \A i \in DOMAIN stack' : stack'[i] = stack[i]
    BY <2>1, <2>2
  <2>4. loop # "done"
    BY <2>1 DEF StackInv
  <2>5. QED
    BY <2>1, <2>3, <2>4 DEF StackInv, Neighbours, Dependents
<1>4. CASE RemoveDone
  BY <1>4 DEF RemoveDone, StackInv
<1>5. CASE AddDone
  BY <1>5 DEF AddDone, StackInv
<1>6. CASE UNCHANGED vars
  BY <1>6 DEF vars, input, StackInv, Neighbours, Dependents
<1>7. QED
  BY <1>1, <1>2, <1>3, <1>4, <1>5, <1>6 DEF Next

\* A walk is never inside itself for the same code, so its recursion is no
\* deeper than the catalog has codes.
THEOREM WalksAreBounded == Spec => []RecursionIsBounded
<1>1. Init => StackInv
  BY DEF Init, StackInv
<1>2. NormalizationTypeOK /\ StackInv => RecursionIsBounded
  <2> SUFFICES ASSUME NormalizationTypeOK, StackInv
               PROVE  RecursionIsBounded
    OBVIOUS
  <2> DEFINE n == Len(stack)
             codeOf == [i \in 1..n |-> stack[i].code]
  <2>1. n \in Nat /\ DOMAIN stack = 1..n /\ \A i \in 1..n : stack[i] \in Frames
    BY DEF NormalizationTypeOK
  <2>2. codeOf \in [1..n -> CatalogCodes]
    BY <2>1 DEF Frames
  <2>3. codeOf \in Injection(1..n, CatalogCodes)
    BY <2>1, <2>2 DEF StackInv, Injection, IsInjective
  <2>4. Cardinality(1..n) <= Cardinality(CatalogCodes)
    <3> HIDE DEF codeOf
    <3>1. QED
      BY <2>3, FS_Injection, CatalogCodesAssumption
  <2>5. Cardinality(1..n) = n
    BY <2>1, FS_Interval
  <2>6. QED
    BY <2>4, <2>5 DEF RecursionIsBounded
<1>3. QED
  BY <1>1, <1>2, NormalizationTyping, StackStep, PTL DEF Spec

-----------------------------------------------------------------------------
(***************************************************************************)
(* The closures of PermissionCatalog, for the catalog of this run          *)
(***************************************************************************)

\* A set that a walk does not leave.
Closed(T) == \A c \in T : Neighbours(c) \subseteq T

\* A closed set of codes that lies inside every other one that contains S is
\* the dependents of S while codes are removed, ...
LEMMA LeastIsWithDependents ==
    ASSUME NormalizationTypeOK, loop = "remove",
           NEW S \in SUBSET CatalogCodes, NEW W \in SUBSET CatalogCodes,
           S \subseteq W, Closed(W),
           \A T \in SUBSET CatalogCodes : S \subseteq T /\ Closed(T) => W \subseteq T
    PROVE  Reference!WithDependents[S] = W
<1>1. ASSUME NEW T \in SUBSET CatalogCodes
      PROVE  Reference!DependentClosed(T) <=> Closed(T)
  BY DEF Reference!DependentClosed, Closed, Neighbours, Dependents
<1>2. Reference!WithDependents[S] =
          {c \in CatalogCodes : \A T \in SUBSET CatalogCodes :
              S \subseteq T /\ Reference!DependentClosed(T) => c \in T}
  BY DEF Reference!WithDependents
<1>3. QED
  BY <1>1, <1>2

\* ... and the dependencies of S while codes are added.
LEMMA LeastIsWithDependencies ==
    ASSUME NormalizationTypeOK, loop = "add",
           NEW S \in SUBSET CatalogCodes, NEW W \in SUBSET CatalogCodes,
           S \subseteq W, Closed(W),
           \A T \in SUBSET CatalogCodes : S \subseteq T /\ Closed(T) => W \subseteq T
    PROVE  Reference!WithDependencies[S] = W
<1>1. ASSUME NEW T \in SUBSET CatalogCodes
      PROVE  Reference!DependencyClosed(T) <=> Closed(T)
  BY DEF Reference!DependencyClosed, Closed, Neighbours
<1>2. Reference!WithDependencies[S] =
          {c \in CatalogCodes : \A T \in SUBSET CatalogCodes :
              S \subseteq T /\ Reference!DependencyClosed(T) => c \in T}
  BY DEF Reference!WithDependencies
<1>3. QED
  BY <1>1, <1>2

\* The codes the request removes, and those that depend on them.
Removed == Reference!WithDependents[current \ requested]

\* What is not removed can be completed without a removed code.
LEMMA KeptIsClosed ==
    ASSUME NormalizationTypeOK, loop = "add"
    PROVE  /\ Removed \in SUBSET CatalogCodes
           /\ current \ requested \subseteq Removed
           /\ Closed(CatalogCodes \ Removed)
<1> DEFINE R == current \ requested
<1>1. R \in SUBSET CatalogCodes
  BY DEF NormalizationTypeOK
<1>2. Removed = {c \in CatalogCodes : \A T \in SUBSET CatalogCodes :
                    R \subseteq T /\ Reference!DependentClosed(T) => c \in T}
  BY <1>1 DEF Removed, Reference!WithDependents
<1>3. ASSUME NEW c \in CatalogCodes \ Removed, NEW d \in dependsOn[c]
      PROVE  d \in CatalogCodes \ Removed
  <2>1. d \in CatalogCodes
    BY <1>3 DEF NormalizationTypeOK
  <2>2. PICK T \in SUBSET CatalogCodes :
            R \subseteq T /\ Reference!DependentClosed(T) /\ c \notin T
    BY <1>2, <1>3
  <2>3. d \notin T
    BY <1>3, <2>2 DEF Reference!DependentClosed
  <2>4. QED
    BY <1>2, <2>1, <2>2, <2>3
<1>4. R \subseteq Removed
  BY <1>1, <1>2
<1>5. Closed(CatalogCodes \ Removed)
  BY <1>3 DEF Closed, Neighbours
<1>6. QED
  BY <1>2, <1>4, <1>5

-----------------------------------------------------------------------------
(***************************************************************************)
(* What the walks have reached                                             *)
(***************************************************************************)

\* The codes a foreach of normalizeRequestedPermissions starts from.
Seeds == IF loop = "remove" THEN current \ requested ELSE requested \ Removed

\* The call of the walk for c has still to visit k.
Open(c, k) == \E i \in DOMAIN stack : stack[i].code = c /\ k \in stack[i].left

\* reached is what the walks of the current foreach have met so far: nothing a
\* closed set around the seeds does not hold, every seed that is not pending,
\* and the neighbours of what they met, up to those a call has still to visit.
Reached(reached) ==
    /\ \A T \in SUBSET CatalogCodes :
          Seeds \subseteq T /\ Closed(T) => reached \subseteq T
    /\ pending \subseteq Seeds /\ Seeds \subseteq reached \cup pending
    /\ Visited \subseteq reached
    /\ \A c \in reached : \A k \in Neighbours(c) : k \in reached \/ Open(c, k)
    /\ result = IF loop = "remove" THEN requested \ reached
                                   ELSE Seeds \cup reached

\* A foreach is under way with some set of codes reached, and the result of
\* the last one is the normal form.
WalkInv ==
    /\ loop # "done" => \E reached \in SUBSET CatalogCodes : Reached(reached)
    /\ ComputesNormalForm
    /\ RemovalWins

\* Constants of a run, and of one foreach.
LEMMA SameLoop ==
    ASSUME dependsOn' = dependsOn, current' = current,
           requested' = requested, loop' = loop
    PROVE  /\ Seeds' = Seeds /\ Removed' = Removed
           /\ \A c : Neighbours(c)' = Neighbours(c)
           /\ \A T : Closed(T)' <=> Closed(T)
<1>1. Removed' = Removed
  BY DEF Removed, Reference!WithDependents, Reference!DependentClosed
<1>2. \A c : Neighbours(c)' = Neighbours(c)
  BY DEF Neighbours, Dependents
<1>3. Seeds' = Seeds
  BY <1>1 DEF Seeds
<1>4. QED
  BY <1>1, <1>2, <1>3 DEF Closed

\* A new outermost call meets its seed.
LEMMA VisitReaches ==
    ASSUME NormalizationTypeOK, StackInv, Visit,
           NEW reached \in SUBSET CatalogCodes, Reached(reached)
    PROVE  \E W \in SUBSET CatalogCodes : Reached(W)'
<1>1. PICK c \in pending : pending' = pending \ {c} /\ stack' = <<Frame(c)>>
  BY DEF Visit
<1>2. stack = <<>> /\ UNCHANGED <<dependsOn, current, requested, result, loop>>
  BY DEF Visit, input
<1>3. /\ Seeds' = Seeds
      /\ \A x : Neighbours(x)' = Neighbours(x)
      /\ \A T : Closed(T)' <=> Closed(T)
  BY <1>2, SameLoop
<1> DEFINE W == reached \cup {c}
<1>4. c \in Seeds /\ c \in CatalogCodes
  BY <1>1 DEF Reached, NormalizationTypeOK
<1>5. \A T \in SUBSET CatalogCodes : (Seeds \subseteq T /\ Closed(T))' => W \subseteq T
  BY <1>3, <1>4 DEF Reached
<1>6. (pending \subseteq Seeds)' /\ Seeds' \subseteq W \cup pending'
  BY <1>1, <1>3 DEF Reached
<1>7. DOMAIN stack' = {1} /\ stack'[1].code = c /\ stack'[1].left = Neighbours(c)
  BY <1>1 DEF Frame
<1>8. Visited' \subseteq W
  BY <1>7 DEF Visited
<1>9. \A x, k : ~ Open(x, k)
  BY <1>2 DEF Open
<1>10. \A x \in W : \A k \in Neighbours(x)' : k \in W \/ Open(x, k)'
  BY <1>3, <1>7, <1>9 DEF Reached, Open
<1>11. result' = IF loop' = "remove" THEN requested' \ W ELSE Seeds' \cup W
  BY <1>2, <1>3, <1>4 DEF Reached, Seeds
<1>12. QED
  BY <1>4, <1>5, <1>6, <1>8, <1>10, <1>11 DEF Reached

\* A turn of an inner foreach meets a neighbour of a code met before.
LEMMA DescendReaches ==
    ASSUME NormalizationTypeOK, StackInv, Descend,
           NEW reached \in SUBSET CatalogCodes, Reached(reached)
    PROVE  \E W \in SUBSET CatalogCodes : Reached(W)'
<1>1. PICK k \in Top.left :
          /\ result' = Edit(k)
          /\ stack' = IF k \in Visited THEN Turned(k)
                                       ELSE Append(Turned(k), Frame(k))
  BY DEF Descend, Turned
<1>2. /\ stack # <<>> /\ stack \in Seq(Frames)
      /\ UNCHANGED <<dependsOn, current, requested, loop, pending>>
  BY DEF Descend, input, NormalizationTypeOK
<1>3. /\ Seeds' = Seeds
      /\ \A x : Neighbours(x)' = Neighbours(x)
      /\ \A T : Closed(T)' <=> Closed(T)
  BY <1>2, SameLoop
<1> DEFINE n == Len(stack)
           W == reached \cup {k}
           p == stack[n].code
<1>4. /\ Turned(k) \in Seq(Frames) /\ Len(Turned(k)) = n
      /\ n \in Nat /\ n \in 1..n /\ DOMAIN stack = 1..n
      /\ DOMAIN Turned(k) = 1..n
      /\ \A i \in 1..n : /\ stack[i] \in Frames
                         /\ Turned(k)[i].code = stack[i].code
                         /\ Turned(k)[i].left = IF i = n THEN stack[i].left \ {k}
                                                ELSE stack[i].left
  BY <1>2, TurnedFacts
<1>a. n \in Nat /\ Turned(k) \in Seq(Frames) /\ Len(Turned(k)) = n
  BY <1>2, TurnedFacts
<1>5. p \in reached /\ k \in Neighbours(p) /\ k \in CatalogCodes
  <2>1. p \in Visited
    BY <1>4 DEF Visited
  <2>2. k \in stack[n].left /\ stack[n].left \subseteq Neighbours(p)
    BY <1>1, <1>4 DEF Top, StackInv
  <2>3. QED
    BY <1>4, <2>1, <2>2 DEF Reached, Frames
<1>6. \A T \in SUBSET CatalogCodes : (Seeds \subseteq T /\ Closed(T))' => W \subseteq T
  BY <1>3, <1>5 DEF Reached, Closed
<1>7. (pending \subseteq Seeds)' /\ Seeds' \subseteq W \cup pending'
  BY <1>2, <1>3 DEF Reached
<1>8. /\ \A i \in 1..n : /\ i \in DOMAIN stack'
                         /\ stack'[i].code = stack[i].code
                         /\ i # n => stack'[i].left = stack[i].left
                         /\ i = n => stack'[i].left = stack[i].left \ {k}
      /\ k \notin Visited => /\ n + 1 \in DOMAIN stack'
                             /\ stack'[n + 1].code = k
                             /\ stack'[n + 1].left = Neighbours(k)
      /\ \A i \in DOMAIN stack' : i \in 1..n \/ stack'[i].code = k
  <2>1. CASE k \in Visited
    <3>1. stack' = Turned(k)
      BY <1>1, <2>1
    <3>2. QED
      BY <1>4, <2>1, <3>1
  <2>2. CASE k \notin Visited
    <3>1. stack' = Append(Turned(k), Frame(k))
      BY <1>1, <2>2
    <3>2. /\ DOMAIN stack' = 1..(n + 1)
          /\ stack'[n + 1] = Frame(k)
          /\ \A i \in 1..n : stack'[i] = Turned(k)[i]
      BY <1>a, <3>1
    <3>3. Frame(k).code = k /\ Frame(k).left = Neighbours(k)
      BY DEF Frame
    <3>4. \A i \in 1..(n + 1) : i \in 1..n \/ i = n + 1
      BY <1>a
    <3>5. \A i \in 1..n : i \in 1..(n + 1)
      BY <1>a
    <3>6. n + 1 \in 1..(n + 1)
      BY <1>a
    <3>7. QED
      BY <1>4, <3>2, <3>3, <3>4, <3>5, <3>6
  <2>3. QED
    BY <2>1, <2>2
<1>9. Visited' \subseteq W
  <2>1. SUFFICES ASSUME NEW i \in DOMAIN stack' PROVE stack'[i].code \in W
    BY DEF Visited
  <2>2. CASE i \in 1..n
    BY <1>4, <1>8, <2>2 DEF Visited, Reached
  <2>3. CASE stack'[i].code = k
    BY <2>3
  <2>4. QED
    BY <1>8, <2>2, <2>3
<1>10. ASSUME NEW x \in W, NEW y \in Neighbours(x)'
       PROVE  y \in W \/ Open(x, y)'
  <2>1. y \in Neighbours(x)
    BY <1>3
  <2>2. SUFFICES ASSUME y # k PROVE y \in W \/ Open(x, y)'
    OBVIOUS
  <2>3. ASSUME NEW i \in 1..n, stack[i].code = x, y \in stack[i].left
        PROVE  Open(x, y)'
    <3>1. stack'[i].code = x /\ y \in stack'[i].left /\ i \in DOMAIN stack'
      BY <1>4, <1>8, <2>2, <2>3
    <3>2. QED
      BY <3>1 DEF Open
  <2>4. CASE x \in reached
    BY <1>4, <2>1, <2>3, <2>4 DEF Reached, Open
  <2>5. CASE x = k /\ k \notin Visited
    BY <1>8, <2>1, <2>5 DEF Open
  <2>6. QED
    BY <2>4, <2>5 DEF Reached
<1>11. result' = IF loop' = "remove" THEN requested' \ W ELSE Seeds' \cup W
  BY <1>1, <1>2, <1>3 DEF Reached, Edit
<1>12. QED
  BY <1>5, <1>6, <1>7, <1>9, <1>10, <1>11 DEF Reached

\* A call that returns had met all the neighbours of its code.
LEMMA ReturnReaches ==
    ASSUME NormalizationTypeOK, StackInv, Return,
           NEW reached \in SUBSET CatalogCodes, Reached(reached)
    PROVE  Reached(reached)'
<1>1. /\ stack' = SubSeq(stack, 1, Len(stack) - 1) /\ stack # <<>>
      /\ Top.left = {} /\ stack \in Seq(Frames)
      /\ UNCHANGED <<dependsOn, current, requested, loop, pending, result>>
  BY DEF Return, input, NormalizationTypeOK
<1>2. /\ Seeds' = Seeds
      /\ \A x : Neighbours(x)' = Neighbours(x)
      /\ \A T : Closed(T)' <=> Closed(T)
  BY <1>1, SameLoop
<1>3. /\ DOMAIN stack = 1..Len(stack) /\ Len(stack) \in Nat
      /\ DOMAIN stack' = 1..(Len(stack) - 1)
      /\ \A i \in DOMAIN stack' : stack'[i] = stack[i]
  BY <1>1
<1>4. Visited' \subseteq reached
  BY <1>3 DEF Visited, Reached
<1>5. ASSUME NEW x, NEW y, Open(x, y) PROVE Open(x, y)'
  <2>1. PICK i \in DOMAIN stack : stack[i].code = x /\ y \in stack[i].left
    BY <1>5 DEF Open
  <2>2. i # Len(stack)
    BY <1>1, <2>1 DEF Top
  <2>3. i \in DOMAIN stack'
    BY <1>3, <2>2
  <2>4. QED
    BY <1>3, <2>1, <2>3 DEF Open
<1>6. QED
  BY <1>1, <1>2, <1>4, <1>5 DEF Reached

\* When a foreach has ended, what its walks reached is the closure.
LEMMA LoopDone ==
    ASSUME NormalizationTypeOK, pending = {}, stack = <<>>,
           NEW reached \in SUBSET CatalogCodes, Reached(reached)
    PROVE  /\ loop = "remove" => reached = Removed
           /\ loop = "add" =>
                reached = Reference!WithDependencies[requested \ Removed]
<1>1. \A x, y : ~ Open(x, y)
  BY DEF Open
<1>2. Closed(reached)
  BY <1>1 DEF Reached, Closed
<1>3. Seeds \subseteq reached
  BY DEF Reached
<1>4. \A T \in SUBSET CatalogCodes : Seeds \subseteq T /\ Closed(T) => reached \subseteq T
  BY DEF Reached
<1>5. CASE loop = "remove"
  <2>1. Seeds = current \ requested /\ Seeds \in SUBSET CatalogCodes
    BY <1>5 DEF Seeds, NormalizationTypeOK
  <2>2. Reference!WithDependents[Seeds] = reached
    BY <1>2, <1>3, <1>4, <1>5, <2>1, LeastIsWithDependents
  <2>3. QED
    BY <1>5, <2>1, <2>2 DEF Removed
<1>6. CASE loop = "add"
  <2>1. Seeds = requested \ Removed /\ Seeds \in SUBSET CatalogCodes
    BY <1>6 DEF Seeds, NormalizationTypeOK
  <2>2. Reference!WithDependencies[Seeds] = reached
    BY <1>2, <1>3, <1>4, <1>6, <2>1, LeastIsWithDependencies
  <2>3. QED
    BY <1>6, <2>1, <2>2
<1>7. QED
  BY <1>5, <1>6

\* No step loses track of what has been reached.
LEMMA WalkStep ==
    ASSUME NormalizationTypeOK, NormalizationTypeOK', StackInv, StackInv',
           WalkInv, [Next]_vars
    PROVE  WalkInv'
<1>1. CASE Visit \/ Descend \/ Return
  <2>1. loop # "done" /\ UNCHANGED <<dependsOn, current, requested, loop>>
    BY <1>1 DEF Visit, Descend, Return, StackInv, input
  <2>2. PICK reached \in SUBSET CatalogCodes : Reached(reached)
    BY <2>1 DEF WalkInv
  <2>3. \E W \in SUBSET CatalogCodes : Reached(W)'
    BY <1>1, <2>2, VisitReaches, DescendReaches, ReturnReaches
  <2>4. PICK W \in SUBSET CatalogCodes : Reached(W)'
    BY <2>3
  <2>5. ASSUME loop = "add"
        PROVE  result' \cap (current' \ requested') = {}
    <3>1. /\ Removed \in SUBSET CatalogCodes
          /\ current \ requested \subseteq Removed
          /\ Closed(CatalogCodes \ Removed)
      BY <2>5, KeptIsClosed
    <3>2. /\ Seeds' = requested \ Removed
          /\ \A T : Closed(T)' <=> Closed(T)
      BY <2>1, <2>5, SameLoop DEF Seeds
    <3>3. Seeds' \subseteq CatalogCodes \ Removed
      BY <3>2 DEF NormalizationTypeOK
    <3>4. W \subseteq CatalogCodes \ Removed
      BY <2>4, <3>1, <3>2, <3>3 DEF Reached
    <3>5. result' = Seeds' \cup W
      BY <2>1, <2>4, <2>5 DEF Reached
    <3>6. QED
      BY <2>1, <3>1, <3>3, <3>4, <3>5
  <2>6. QED
    BY <2>1, <2>4, <2>5
       DEF WalkInv, ComputesNormalForm, RemovalWins, NormalizationTypeOK
<1>2. CASE RemoveDone
  <2>1. /\ loop = "remove" /\ loop' = "add" /\ pending = {} /\ stack = <<>>
        /\ pending' = result
        /\ UNCHANGED <<dependsOn, current, requested, result, stack>>
    BY <1>2 DEF RemoveDone, input
  <2>2. PICK reached \in SUBSET CatalogCodes : Reached(reached)
    BY <2>1 DEF WalkInv
  <2>3. reached = Removed /\ result = requested \ Removed
    BY <2>1, <2>2, LoopDone DEF Reached
  <2>4. Removed' = Removed
    BY <2>1 DEF Removed, Reference!WithDependents, Reference!DependentClosed
  <2>5. Seeds' = result /\ pending' = Seeds'
    BY <2>1, <2>3, <2>4 DEF Seeds
  <2>6. Visited' = {}
    BY <2>1 DEF Visited
  <2>7. Reached({})'
    BY <2>1, <2>5, <2>6 DEF Reached
  <2>8. current \ requested \subseteq Removed
    <3>1. Seeds = current \ requested /\ Seeds \subseteq reached
      BY <2>1, <2>2 DEF Reached, Seeds
    <3>2. QED
      BY <2>3, <3>1
  <2>9. QED
    BY <2>1, <2>3, <2>7, <2>8 DEF WalkInv, ComputesNormalForm, RemovalWins
<1>3. CASE AddDone
  <2>1. /\ loop = "add" /\ loop' = "done" /\ pending = {} /\ stack = <<>>
        /\ UNCHANGED <<dependsOn, current, requested, result>>
    BY <1>3 DEF AddDone, input
  <2>2. PICK reached \in SUBSET CatalogCodes : Reached(reached)
    BY <2>1 DEF WalkInv
  <2>3. /\ reached = Reference!WithDependencies[requested \ Removed]
        /\ Seeds \subseteq reached /\ result = Seeds \cup reached
    BY <2>1, <2>2, LoopDone DEF Reached
  <2>4. result = Reference!Normalize(current, requested)
    <3>1. Reference!ExplicitlyRemoved(current, requested) = current \ requested
      BY DEF Reference!ExplicitlyRemoved, NormalizationTypeOK
    <3>2. QED
      BY <2>3, <3>1 DEF Reference!Normalize, Removed
  <2>5. Reference!Normalize(current, requested)'
            = Reference!Normalize(current, requested)
    BY <2>1 DEF Reference!Normalize, Reference!ExplicitlyRemoved,
                Reference!WithDependencies, Reference!WithDependents,
                Reference!DependencyClosed, Reference!DependentClosed
  <2>6. QED
    BY <2>1, <2>4, <2>5 DEF WalkInv, ComputesNormalForm, RemovalWins
<1>4. CASE UNCHANGED vars
  <2>1. UNCHANGED <<dependsOn, current, requested, loop, pending, stack, result>>
    BY <1>4 DEF vars, input
  <2>2. /\ Seeds' = Seeds
        /\ \A x : Neighbours(x)' = Neighbours(x)
        /\ \A T : Closed(T)' <=> Closed(T)
    BY <2>1, SameLoop
  <2>3. \A W : Reached(W) => Reached(W)'
    BY <2>1, <2>2 DEF Reached, Visited, Open
  <2>4. Reference!Normalize(current, requested)'
            = Reference!Normalize(current, requested)
    BY <2>1 DEF Reference!Normalize, Reference!ExplicitlyRemoved,
                Reference!WithDependencies, Reference!WithDependents,
                Reference!DependencyClosed, Reference!DependentClosed
  <2>5. QED
    BY <2>1, <2>3, <2>4 DEF WalkInv, ComputesNormalForm, RemovalWins
<1>5. QED
  BY <1>1, <1>2, <1>3, <1>4 DEF Next

LEMMA WalkInvariance ==
    Spec => [](NormalizationTypeOK /\ StackInv /\ WalkInv)
<1>1. Init => StackInv /\ WalkInv
  <2>1. SUFFICES ASSUME Init PROVE StackInv /\ WalkInv
    OBVIOUS
  <2>2. StackInv
    BY <2>1 DEF Init, StackInv
  <2>3. Reached({})
    BY <2>1 DEF Init, Reached, Seeds, Visited
  <2>4. QED
    BY <2>1, <2>2, <2>3 DEF Init, WalkInv, ComputesNormalForm, RemovalWins
<1>2. NormalizationTypeOK /\ NormalizationTypeOK' /\ StackInv /\ WalkInv
          /\ [Next]_vars => StackInv' /\ WalkInv'
  BY StackStep, WalkStep
<1>3. QED
  BY <1>1, <1>2, NormalizationTyping, PTL DEF Spec

\* The recursive walks of the code return the normal form of the reference
\* definition: for every catalog, every pair of sets and every order of the
\* loops.
THEOREM WalksComputeNormalForm == Spec => []ComputesNormalForm
<1>1. WalkInv => ComputesNormalForm
  BY DEF WalkInv
<1>2. QED
  BY <1>1, WalkInvariance, PTL

\* A code the request takes away is never completed back in.
THEOREM RemovedCodesStayOut == Spec => []RemovalWins
<1>1. WalkInv => RemovalWins
  BY DEF WalkInv
<1>2. QED
  BY <1>1, WalkInvariance, PTL
=============================================================================
