--------------------------- MODULE HookSpoolProofs ---------------------------
(***************************************************************************)
(* Theorems of HookSpool, for any number of events and drains and any      *)
(* bounds: one drain at a time works on the files, no event vanishes, and  *)
(* the server takes an event twice only for an answer the client did not   *)
(* hear; and a drain at work comes to its end.                             *)
(***************************************************************************)
EXTENDS HookSpool, FiniteSetTheorems, WellFoundedInduction, TLAPS

Works(d) == drains[d].step \notin {"idle", "waiting"}

\* The entries a drain has in memory, and those an answer tells it to remove.
Memory(d) == DOMAIN drains[d].chunk
Done(d) ==
    IF drains[d].batch
    THEN IF drains[d].reply.indices = NULL THEN drains[d].reply.prefix ELSE drains[d].reply.indices
    ELSE IF drains[d].reply.status = "ok" THEN {Min(Memory(d))} ELSE {}

Shape ==
    /\ DOMAIN drains = Drainers
    /\ born \in 0..MaxEvents /\ faults \in Nat
    /\ taken \in [Events -> Nat]
    /\ Files \subseteq 1..born

\* What a drain remembers are events; what it was told to remove it remembers
\* and the server took; what it was told that failed is none of these.
Remembered ==
    \A d \in Drainers : Works(d) =>
        /\ Memory(d) \subseteq 1..born /\ drains[d].batch \in BOOLEAN
        /\ drains[d].step = "single" => ~drains[d].batch
        /\ drains[d].step = "answered" =>
               /\ Done(d) \subseteq {e \in Memory(d) : taken[e] > 0}
               /\ IF drains[d].batch THEN drains[d].reply.failed \in (Memory(d) \ Done(d)) \cup {NULL}
                                     ELSE Memory(d) # {} /\ drains[d].reply.status \in {"ok", "saturated", "failed"}

\* An event that may still be posted was taken no more often than an answer
\* got lost, except for the one answer a drain is about to apply.
Fresh(e) == e > born \/ e \in Files \/ \E d \in Drainers : Works(d) /\ e \in Memory(d)
Told(e) == \E d \in Drainers : drains[d].step = "answered" /\ e \in Done(d)
Unsent == \A e \in Events : Fresh(e) => taken[e] <= faults \/ Told(e)

IInv == Shape /\ OneDrain /\ Remembered /\ Unsent /\ NoEventVanishes /\ TwiceOnlyUnheard

-----------------------------------------------------------------------------
\* The first of some events.
LEMMA MinIsLeast ==
  ASSUME NEW S \in SUBSET Nat, S # {}
  PROVE  Min(S) \in S /\ \A y \in S : Min(S) <= y
<1> DEFINE R == OpToRel(<, Nat)
<1>1. PICK x \in S : \A y \in S : <<y, x>> \notin R
  BY NatLessThanWellFounded, WFMin
<1>2. \A y \in S : ~(y < x)
  BY <1>1 DEF OpToRel
<1>3. \A y \in S : x <= y
  BY <1>2
<1> QED
  BY <1>3 DEF Min

LEMMA InitIInv == Init => IInv
<1> SUFFICES ASSUME Init PROVE IInv
  OBVIOUS
<1> USE DEF Init
<1>1. DOMAIN drains = Drainers /\ \A d \in Drainers : drains[d].step = "idle"
  BY DEF Idle
<1>2. Files = {} /\ born = 0 /\ faults = 0
  BY DEF Files
<1>3. Shape
  BY <1>1, <1>2, SpoolAssumption DEF Shape, Events
<1>4. OneDrain /\ Remembered
  BY <1>1 DEF OneDrain, Remembered, Active, Works
<1>5. \A e \in Events : taken[e] = 0
  OBVIOUS
<1>6. Unsent /\ NoEventVanishes /\ TwiceOnlyUnheard
  BY <1>2, <1>5 DEF Unsent, NoEventVanishes, TwiceOnlyUnheard
<1> QED
  BY <1>3, <1>4, <1>6 DEF IInv

\* While one drain works, no other does: what the invariant says of the
\* drains is about this one.
LEMMA Alone ==
  ASSUME IInv, NEW d \in Drainers, Works(d)
  PROVE  lock = d /\ \A x \in Drainers : Works(x) => x = d
<1>1. lock = d
  BY DEF IInv, OneDrain, Works, Active
<1>2. ASSUME NEW x \in Drainers, Works(x) PROVE lock = x
  BY <1>2 DEF IInv, OneDrain, Works, Active
<1> QED
  BY <1>1, <1>2

LEMMA AloneUnsent ==
  ASSUME IInv, NEW d \in Drainers, Works(d), NEW e \in Events, Fresh(e)
  PROVE  taken[e] <= faults \/ (drains[d].step = "answered" /\ e \in Done(d))
<1>1. \A x \in Drainers : drains[x].step = "answered" => x = d
  BY Alone DEF Works
<1> QED
  BY <1>1 DEF IInv, Unsent, Told

\* A step of the drain that works. It touches no files but those there are and
\* those it remembers, and removes one only if it drops it or was told to.
LEMMA DrainStep ==
  ASSUME IInv, NEW d \in Drainers, Works(d),
         DOMAIN drains' = Drainers, \A x \in Drainers \ {d} : drains'[x] = drains[x],
         born' = born, faults' \in Nat, taken' \in [Events -> Nat],
         \A e \in Events : taken[e] <= taken'[e] /\ taken'[e] <= 1 + faults',
         Files' \subseteq Files \cup Memory(d), dropped \subseteq dropped',
         \A e \in Files \ Files' : e \in dropped' \/ taken'[e] > 0,
         Works(d)' =>
             /\ lock' = d /\ Memory(d)' \subseteq Files \cup Memory(d) /\ drains'[d].batch \in BOOLEAN
             /\ drains'[d].step = "single" => ~drains'[d].batch
             /\ drains'[d].step = "answered" =>
                   /\ Done(d)' \subseteq {e \in Memory(d)' : taken'[e] > 0}
                   /\ IF drains'[d].batch THEN drains'[d].reply.failed \in (Memory(d)' \ Done(d)') \cup {NULL}
                                          ELSE Memory(d)' # {} /\ drains'[d].reply.status \in {"ok", "saturated", "failed"},
         \A e \in Events : e > born \/ e \in Files' \/ (Works(d)' /\ e \in Memory(d)') =>
             taken'[e] <= faults' \/ (drains'[d].step = "answered" /\ e \in Done(d)')
  PROVE  IInv'
<1>1. \A x \in Drainers \ {d} : ~Works(x)'
  BY Alone DEF Works
<1>2. Files \cup Memory(d) \subseteq 1..born
  BY DEF IInv, Shape, Remembered
<1>3. Shape'
  BY <1>2 DEF IInv, Shape
<1>4. OneDrain'
  BY <1>1 DEF OneDrain, Active, Works
<1>5. Remembered'
  BY <1>1, <1>2 DEF Remembered
<1>6. Unsent'
  <2> SUFFICES ASSUME NEW e \in Events, Fresh(e)' PROVE taken'[e] <= faults' \/ Told(e)'
    BY DEF Unsent
  <2>1. e > born \/ e \in Files' \/ (Works(d)' /\ e \in Memory(d)')
    BY <1>1 DEF Fresh
  <2> QED
    BY <2>1 DEF Told
<1>7. NoEventVanishes'
  <2> SUFFICES ASSUME NEW e \in 1..born PROVE e \in Files' \/ e \in dropped' \/ taken'[e] > 0
    BY DEF NoEventVanishes
  <2>1. e \in Files \/ e \in dropped \/ taken[e] > 0
    BY DEF IInv, NoEventVanishes
  <2>2. e \in Events /\ taken[e] \in Nat /\ taken'[e] \in Nat
    BY SpoolAssumption DEF IInv, Shape, Events
  <2> QED
    BY <2>1, <2>2
<1>8. TwiceOnlyUnheard'
  BY DEF TwiceOnlyUnheard
<1> QED
  BY <1>3, <1>4, <1>5, <1>6, <1>7, <1>8 DEF IInv

-----------------------------------------------------------------------------
(* The steps of a drain.                                                    *)

\* A step after which the drain awaits no answer, and that the server does not
\* see.
LEMMA QuietStep ==
  ASSUME IInv, NEW d \in Drainers, Works(d), drains[d].step # "answered",
         DOMAIN drains' = Drainers, \A x \in Drainers \ {d} : drains'[x] = drains[x],
         UNCHANGED <<born, taken, faults>>, dropped \subseteq dropped',
         Files' \subseteq Files \cup Memory(d), \A e \in Files \ Files' : e \in dropped',
         Works(d)' =>
             /\ lock' = d /\ Memory(d)' \subseteq Files \cup Memory(d) /\ drains'[d].batch \in BOOLEAN
             /\ drains'[d].step = "single" => ~drains'[d].batch
             /\ drains'[d].step # "answered"
  PROVE  IInv'
<1>1. \A x \in Events : Fresh(x) => taken[x] <= faults
  BY AloneUnsent
<1>2. faults' \in Nat /\ taken' \in [Events -> Nat]
  BY DEF IInv, Shape
<1>3. \A x \in Events : taken[x] <= taken'[x] /\ taken'[x] <= 1 + faults'
  BY DEF IInv, TwiceOnlyUnheard, Shape
<1>4. ASSUME NEW x \in Events, x > born \/ x \in Files' \/ (Works(d)' /\ x \in Memory(d)')
      PROVE  taken'[x] <= faults'
  <2>1. Fresh(x)
    BY <1>4 DEF Fresh
  <2> QED
    BY <2>1, <1>1
<1>5. Works(d)' => drains'[d].step # "answered"
  OBVIOUS
<1> HIDE DEF Fresh
<1> QED
  BY <1>2, <1>3, <1>4, <1>5, DrainStep

LEMMA LoadNextIInv ==
  ASSUME IInv, NEW d \in Drainers, LoadNext(d)
  PROVE  IInv'
<1> DEFINE e == Min(drains[d].files)
           rest == [drains[d] EXCEPT !.files = @ \ {e}]
<1>1. Works(d) /\ drains[d].step = "loading" /\ DOMAIN drains = Drainers
  BY DEF LoadNext, Works, IInv, Shape
<1>2. UNCHANGED <<born, old, lock, healthy, taken, faults>>
  BY DEF LoadNext, serverVars
<1>3. drains[d].batch \in BOOLEAN /\ Memory(d) \subseteq 1..born /\ lock = d
  BY <1>1, Alone DEF IInv, Remembered
<1> HIDE DEF e
<1>4. CASE /\ e \notin Files
            /\ drains' = [drains EXCEPT ![d] = [rest EXCEPT !.left = TRUE]]
            /\ UNCHANGED <<spool, dropped>>
  <2>1. DOMAIN drains' = Drainers /\ (\A x \in Drainers \ {d} : drains'[x] = drains[x])
        /\ drains'[d].step = "loading" /\ drains'[d].chunk = drains[d].chunk /\ drains'[d].batch = drains[d].batch
    BY <1>1, <1>4
  <2>2. Files' = Files /\ Memory(d)' = Memory(d)
    BY <1>4, <2>1 DEF Files, Memory
  <2> QED
    BY <2>1, <2>2, <1>1, <1>2, <1>3, <1>4, QuietStep
<1>5. CASE /\ e \in Files \cap old
            /\ spool' = Without(spool, {e}) /\ dropped' = dropped \cup {e}
            /\ drains' = [drains EXCEPT ![d] = rest]
  <2>1. DOMAIN drains' = Drainers /\ (\A x \in Drainers \ {d} : drains'[x] = drains[x])
        /\ drains'[d].step = "loading" /\ drains'[d].chunk = drains[d].chunk /\ drains'[d].batch = drains[d].batch
    BY <1>1, <1>5
  <2>2. Files' = Files \ {e} /\ Memory(d)' = Memory(d)
    BY <1>5, <2>1 DEF Files, Memory, Without
  <2> QED
    BY <2>1, <2>2, <1>1, <1>2, <1>3, <1>5, QuietStep
<1>6. CASE /\ e \in (Files \ old) \cap Malformed
            /\ bump_or_drop(e, spool[e], spool)
            /\ drains' = [drains EXCEPT ![d] = [rest EXCEPT !.left = @ \/ spool[e] + 1 < MAX_ATTEMPTS]]
  <2>1. DOMAIN drains' = Drainers /\ (\A x \in Drainers \ {d} : drains'[x] = drains[x])
        /\ drains'[d].step = "loading" /\ drains'[d].chunk = drains[d].chunk /\ drains'[d].batch = drains[d].batch
    BY <1>1, <1>6
  <2>2. Memory(d)' = Memory(d)
    BY <2>1 DEF Memory
  <2>3. Files' \subseteq Files /\ dropped \subseteq dropped' /\ \A x \in Files \ Files' : x \in dropped'
    BY <1>6 DEF Files, Without, bump_or_drop
  <2> QED
    BY <2>1, <2>2, <2>3, <1>1, <1>2, <1>3, QuietStep
<1>7. CASE /\ e \in Files \ (old \cup Malformed)
            /\ drains' = [drains EXCEPT ![d] =
                   IF Fits(d, e)
                   THEN [rest EXCEPT !.chunk = [x \in DOMAIN @ \cup {e} |-> IF x = e THEN spool[e] ELSE @[x]]]
                   ELSE [drains[d] EXCEPT !.step = "posting"]]
            /\ UNCHANGED <<spool, dropped>>
  <2>1. DOMAIN drains' = Drainers /\ (\A x \in Drainers \ {d} : drains'[x] = drains[x])
        /\ drains'[d].step \in {"loading", "posting"} /\ drains'[d].batch = drains[d].batch
    BY <1>1, <1>7
  <2>2. DOMAIN drains'[d].chunk \subseteq DOMAIN drains[d].chunk \cup {e}
    BY <1>1, <1>7
  <2>3. Files' = Files /\ Memory(d)' \subseteq Files \cup Memory(d)
    BY <1>7, <2>2 DEF Files, Memory
  <2> QED
    BY <2>1, <2>3, <1>1, <1>2, <1>3, <1>7, QuietStep
<1> QED
  BY <1>4, <1>5, <1>6, <1>7 DEF LoadNext, e

\* A new pass of the drain that has the lock, or none.
LEMMA EndsFacts ==
  ASSUME IInv, NEW d \in Drainers, Works(d), NEW left, Ends(d, left)
  PROVE  /\ DOMAIN drains' = Drainers /\ \A x \in Drainers \ {d} : drains'[x] = drains[x]
         /\ Works(d)' => /\ lock' = lock /\ Memory(d)' = {} /\ drains'[d].batch \in BOOLEAN
                         /\ drains'[d].step \notin {"answered", "single"}
<1>1. DOMAIN drains = Drainers
  BY DEF IInv, Shape
<1>2. CASE drains' = [drains EXCEPT ![d] = Pass("background")] /\ UNCHANGED lock
  <2>1. Pass("background").step = "loading" /\ DOMAIN Pass("background").chunk = {}
        /\ Pass("background").batch = TRUE
    BY DEF Pass
  <2> QED
    BY <1>1, <1>2, <2>1 DEF Memory
<1>3. CASE drains' = [drains EXCEPT ![d] = Idle]
  BY <1>1, <1>3 DEF Idle, Works
<1> QED
  BY <1>2, <1>3 DEF Ends

LEMMA QuietStepsIInv ==
  ASSUME IInv, NEW d \in Drainers,
         LoadEnds(d) \/ PassEnds(d) \/ BudgetEnds(d) \/ Unsupported(d) \/ SinglesEnd(d)
  PROVE  IInv'
<1>1. Works(d) /\ drains[d].step # "answered" /\ DOMAIN drains = Drainers
  BY DEF LoadEnds, PassEnds, BudgetEnds, Unsupported, SinglesEnd, Works, IInv, Shape
<1>2. UNCHANGED <<spool, born, dropped, taken, faults>> /\ Files' = Files
  BY DEF LoadEnds, PassEnds, BudgetEnds, Unsupported, SinglesEnd, serverVars, Files
<1>3. drains[d].batch \in BOOLEAN /\ lock = d
  BY <1>1, Alone DEF IInv, Remembered
<1>4. /\ DOMAIN drains' = Drainers /\ \A x \in Drainers \ {d} : drains'[x] = drains[x]
      /\ Works(d)' => /\ lock' = lock /\ Memory(d)' \subseteq Memory(d) /\ drains'[d].batch \in BOOLEAN
                      /\ drains'[d].step # "answered" /\ (drains'[d].step = "single" => ~drains'[d].batch)
  <2>1. CASE LoadEnds(d)
    BY <2>1, <1>1, <1>3 DEF LoadEnds, Memory
  <2>2. CASE PassEnds(d)
    BY <2>2, <1>1, EndsFacts DEF PassEnds
  <2>3. CASE BudgetEnds(d)
    BY <2>3, <1>1 DEF BudgetEnds, Idle, Works
  <2>4. CASE Unsupported(d)
    BY <2>4, <1>1, <1>3 DEF Unsupported, Memory
  <2>5. CASE SinglesEnd(d)
    BY <2>5, <1>1, <1>3 DEF SinglesEnd, Memory
  <2> QED
    BY <2>1, <2>2, <2>3, <2>4, <2>5
<1> QED
  BY <1>1, <1>2, <1>3, <1>4, QuietStep

-----------------------------------------------------------------------------
(* The batch request.                                                       *)

\* What an answer tells the drain to remove is what the server took.
LEMMA AckSaysWhatWasTaken ==
  ASSUME NEW items \in SUBSET Events, NEW ok \in SUBSET items, NEW status, NEW failed
  PROVE  LET r == HookBatchAck(items, ok, status, failed)
         IN  (IF r.indices = NULL THEN r.prefix ELSE r.indices) = ok /\ r.failed = failed
<1> DEFINE prefix == {e \in items : Upto(items, e) \subseteq ok}
           r == HookBatchAck(items, ok, status, failed)
<1>1. ok # NULL
  BY SpoolAssumption
<1> HIDE DEF prefix
<1>2. r.prefix = prefix /\ r.failed = failed /\ r.indices = IF ok = prefix /\ ~(status = "ok" /\ ok = {}) THEN NULL ELSE ok
  BY DEF HookBatchAck, prefix
<1> QED
  BY <1>1, <1>2

LEMMA BatchRequestIInv ==
  ASSUME IInv, NEW d \in Drainers, handle_hook_batch(d)
  PROVE  IInv'
<1> DEFINE items == Memory(d)
<1>1. Works(d) /\ drains[d].step = "posting" /\ drains[d].batch /\ DOMAIN drains = Drainers
  BY DEF handle_hook_batch, Works, IInv, Shape
<1>2. UNCHANGED <<spool, born, dropped, lock>> /\ Files' = Files
  BY DEF handle_hook_batch, Files
<1>3. lock = d /\ items \subseteq 1..born /\ items \subseteq Events
  BY <1>1, Alone, SpoolAssumption DEF IInv, Remembered, Shape, Events
<1>4. PICK stop \in items \cup {NULL}, limited \in SUBSET items : \E status \in {"ok", "saturated"} :
         LET seen == IF stop = NULL THEN items ELSE Upto(items, stop) \ {stop}
             ok == seen \ limited
         IN  /\ limited \subseteq seen
             /\ stop = NULL => status = "ok"
             /\ healthy => stop = NULL /\ limited = {}
             /\ taken' = [e \in Events |-> IF e \in ok THEN taken[e] + 1 ELSE taken[e]]
             /\ \/ /\ drains' = [drains EXCEPT ![d].step = "answered",
                          ![d].reply = HookBatchAck(items, ok, status, IF status = "ok" THEN stop ELSE NULL)]
                   /\ UNCHANGED faults
                \/ /\ ~healthy /\ faults < MaxFaults
                   /\ faults' = faults + 1
                   /\ drains' = [drains EXCEPT ![d].step = "answered", ![d].reply = NoAnswer]
  BY Zenon DEF handle_hook_batch, Memory
<1>5. PICK status :
         LET seen == IF stop = NULL THEN items ELSE Upto(items, stop) \ {stop}
             ok == seen \ limited
         IN  /\ taken' = [e \in Events |-> IF e \in ok THEN taken[e] + 1 ELSE taken[e]]
             /\ \/ /\ drains' = [drains EXCEPT ![d].step = "answered",
                          ![d].reply = HookBatchAck(items, ok, status, IF status = "ok" THEN stop ELSE NULL)]
                   /\ UNCHANGED faults
                \/ /\ faults' = faults + 1
                   /\ drains' = [drains EXCEPT ![d].step = "answered", ![d].reply = NoAnswer]
  BY <1>4, Zenon
<1> DEFINE seen == IF stop = NULL THEN items ELSE Upto(items, stop) \ {stop}
           ok == seen \ limited
           failed == IF status = "ok" THEN stop ELSE NULL
<1>6. ok \subseteq items /\ stop \notin ok /\ failed \in (items \ ok) \cup {NULL}
  BY <1>3, SpoolAssumption DEF Upto
<1> HIDE DEF ok, failed, items
<1>7. /\ taken' \in [Events -> Nat]
      /\ \A e \in Events : taken'[e] = IF e \in ok THEN taken[e] + 1 ELSE taken[e]
      /\ \A e \in Events : taken[e] \in Nat
  BY <1>5 DEF IInv, Shape, ok
<1>8. \A e \in Events : Fresh(e) => taken[e] <= faults
  BY <1>1, AloneUnsent
<1>9. \A e \in ok : taken[e] <= faults /\ e \in Events
  BY <1>1, <1>3, <1>6, <1>8 DEF Fresh, items
<1>10. faults \in Nat /\ \A e \in Events : taken[e] <= 1 + faults
  BY DEF IInv, Shape, TwiceOnlyUnheard
<1>11. \A e \in Events : taken[e] <= taken'[e] /\ taken'[e] <= 1 + faults
  BY <1>7, <1>9, <1>10
<1>12. CASE /\ drains' = [drains EXCEPT ![d].step = "answered", ![d].reply = HookBatchAck(items, ok, status, failed)]
            /\ UNCHANGED faults
  <2>1. /\ DOMAIN drains' = Drainers /\ \A x \in Drainers \ {d} : drains'[x] = drains[x]
        /\ drains'[d].step = "answered" /\ drains'[d].batch = TRUE /\ drains'[d].chunk = drains[d].chunk
        /\ drains'[d].reply = HookBatchAck(items, ok, status, failed)
    BY <1>1, <1>12
  <2>2. Memory(d)' = items /\ Works(d)'
    BY <2>1 DEF Memory, Works, items
  <2>3. Done(d)' = ok /\ drains'[d].reply.failed = failed
    <3>1. items \in SUBSET Events /\ ok \in SUBSET items
      BY <1>3, <1>6
    <3> QED
      BY <2>1, <3>1, AckSaysWhatWasTaken DEF Done
  <2>4. Done(d)' \subseteq {e \in Memory(d)' : taken'[e] > 0}
    BY <1>6, <1>7, <1>9, <2>2, <2>3
  <2>5. ASSUME NEW e \in Events, e > born \/ e \in Files' \/ (Works(d)' /\ e \in Memory(d)')
        PROVE  taken'[e] <= faults' \/ (drains'[d].step = "answered" /\ e \in Done(d)')
    <3>1. Fresh(e)
      BY <1>1, <1>2, <2>2, <2>5 DEF Fresh, items
    <3> QED
      BY <1>7, <1>8, <1>12, <2>1, <2>3, <3>1
  <2>6. faults' = faults /\ dropped' = dropped /\ born' = born /\ lock' = d /\ items \subseteq Files \cup Memory(d)
    BY <1>2, <1>3, <1>12 DEF items
  <2> QED
    BY <1>1, <1>2, <1>6, <1>7, <1>10, <1>11, <2>1, <2>2, <2>3, <2>4, <2>5, <2>6, DrainStep
<1>13. CASE faults' = faults + 1 /\ drains' = [drains EXCEPT ![d].step = "answered", ![d].reply = NoAnswer]
  <2>1. /\ DOMAIN drains' = Drainers /\ \A x \in Drainers \ {d} : drains'[x] = drains[x]
        /\ drains'[d].step = "answered" /\ drains'[d].batch = TRUE /\ drains'[d].chunk = drains[d].chunk
        /\ drains'[d].reply = NoAnswer
    BY <1>1, <1>13
  <2>2. Memory(d)' = items /\ Works(d)'
    BY <2>1 DEF Memory, Works, items
  <2>3. Done(d)' = {} /\ drains'[d].reply.failed = NULL
    BY <2>1 DEF Done, NoAnswer
  <2>4. \A e \in Events : taken'[e] <= faults'
    BY <1>7, <1>10, <1>11, <1>13
  <2>5. faults' \in Nat /\ dropped' = dropped /\ born' = born /\ lock' = d /\ items \subseteq Files \cup Memory(d)
        /\ \A e \in Events : taken'[e] <= 1 + faults'
    BY <1>2, <1>3, <1>7, <1>10, <1>13, <2>4 DEF items
  <2> QED
    BY <1>1, <1>2, <1>7, <1>11, <2>1, <2>2, <2>3, <2>4, <2>5, DrainStep
<1> QED
  BY <1>5, <1>12, <1>13 DEF ok, failed

\* A failed attempt drops the event or writes its file again.
LEMMA BumpFacts ==
  ASSUME NEW e, NEW attempts, NEW files, bump_or_drop(e, attempts, files)
  PROVE  /\ Files' \subseteq DOMAIN files \cup {e} /\ dropped \subseteq dropped'
         /\ \A x \in DOMAIN files \ Files' : x \in dropped'
  BY DEF bump_or_drop, Files, Without

LEMMA BatchAnsweredIInv ==
  ASSUME IInv, NEW d \in Drainers, BatchAnswered(d)
  PROVE  IInv'
<1> DEFINE items == Memory(d)
           done == Done(d)
           rest == items \ done
           reply == drains[d].reply
           files == Without(spool, done)
           charged == IF reply.status = "saturated" \/ rest = {} THEN NULL
                      ELSE IF reply.indices # NULL THEN reply.failed ELSE Min(rest)
           breaks == reply.status # "ok" \/ charged # NULL
           bumped == charged # NULL /\ drains[d].chunk[charged] + 1 < MAX_ATTEMPTS
           listed == drains[d].files
           left == drains[d].left \/ bumped \/ rest \ {charged} # {} \/ (breaks /\ listed # {})
           next == [drains[d] EXCEPT !.step = "loading", !.chunk = [e \in {} |-> 0],
                        !.files = IF breaks THEN {} ELSE @, !.left = left, !.reply = NULL]
<1>1. Works(d) /\ drains[d].step = "answered" /\ drains[d].batch /\ DOMAIN drains = Drainers
  BY DEF BatchAnswered, Works, IInv, Shape
<1>2. UNCHANGED <<born, taken, faults>>
  BY DEF BatchAnswered, serverVars
<1>3. /\ IF charged = NULL THEN spool' = files /\ UNCHANGED dropped
                           ELSE bump_or_drop(charged, drains[d].chunk[charged], files)
      /\ drains' = [drains EXCEPT ![d] = next] /\ lock' = lock
  BY <1>1, Zenon DEF BatchAnswered, Done, Memory
<1>4. /\ lock = d /\ items \subseteq 1..born /\ 1..born \subseteq Nat
      /\ done \subseteq {e \in items : taken[e] > 0} /\ reply.failed \in rest \cup {NULL}
  BY <1>1, Alone DEF IInv, Remembered, Shape
<1>5. charged \in rest \cup {NULL}
  BY <1>4, MinIsLeast
<1> HIDE DEF left, breaks
<1>3a. next.step = "loading" /\ next.chunk = [e \in {} |-> 0] /\ next.batch = drains[d].batch
  OBVIOUS
<1> HIDE DEF charged, bumped, next, done, items
<1>6. Files' \subseteq (Files \ done) \cup rest /\ dropped \subseteq dropped'
      /\ \A x \in Files \ Files' : x \in dropped' \/ x \in done
  <2>1. DOMAIN files = Files \ done
    BY DEF Files, Without
  <2>2. CASE charged = NULL
    BY <1>3, <2>1, <2>2 DEF Files
  <2>3. CASE charged # NULL
    BY <1>3, <1>5, <2>1, <2>3, BumpFacts
  <2> QED
    BY <2>2, <2>3
<1>7. /\ DOMAIN drains' = Drainers /\ \A x \in Drainers \ {d} : drains'[x] = drains[x]
      /\ Works(d)' => /\ lock' = d /\ drains'[d].step = "loading" /\ Memory(d)' = {}
                      /\ drains'[d].batch \in BOOLEAN
  BY <1>1, <1>3, <1>4, <1>3a DEF Memory
<1>8. \A e \in Events : Fresh(e) => taken[e] <= faults \/ e \in done
  BY <1>1, AloneUnsent DEF done
<1>9. ASSUME NEW e \in Events, e > born \/ e \in Files' \/ (Works(d)' /\ e \in Memory(d)')
      PROVE  taken'[e] <= faults'
  <2>1. e > born \/ e \in (Files \ done) \cup rest
    BY <1>6, <1>7, <1>9
  <2>2. e \notin done /\ (e > born \/ e \in Files \/ e \in Memory(d))
    BY <1>4, <2>1 DEF items, IInv, Shape
  <2>3. Fresh(e)
    BY <1>1, <2>2 DEF Fresh
  <2> QED
    BY <1>2, <1>8, <2>2, <2>3
<1>10. faults' \in Nat /\ taken' \in [Events -> Nat]
       /\ \A e \in Events : taken[e] <= taken'[e] /\ taken'[e] <= 1 + faults'
  BY <1>2 DEF IInv, Shape, TwiceOnlyUnheard
<1>11. Files' \subseteq Files \cup Memory(d) /\ \A x \in Files \ Files' : x \in dropped' \/ taken'[x] > 0
  BY <1>2, <1>4, <1>6 DEF items
<1>12. Works(d)' => drains'[d].step # "answered" /\ Memory(d)' \subseteq Files \cup Memory(d)
  BY <1>7
<1> QED
  BY <1>1, <1>2, <1>6, <1>7, <1>9, <1>10, <1>11, <1>12, DrainStep

-----------------------------------------------------------------------------
(* One request per event.                                                   *)

LEMMA SingleRequestIInv ==
  ASSUME IInv, NEW d \in Drainers, handle_hook(d)
  PROVE  IInv'
<1> DEFINE e == Min(Memory(d))
<1>1. Works(d) /\ drains[d].step = "single" /\ DOMAIN drains = Drainers /\ Memory(d) # {}
  BY DEF handle_hook, Works, IInv, Shape, Memory
<1>2. UNCHANGED <<spool, born, dropped, lock>> /\ Files' = Files
  BY DEF handle_hook, Files
<1>3. lock = d /\ Memory(d) \subseteq 1..born /\ 1..born \subseteq Nat /\ 1..born \subseteq Events
      /\ drains[d].batch \in BOOLEAN
  BY <1>1, Alone, SpoolAssumption DEF IInv, Remembered, Shape, Events
<1>4. e \in Memory(d) /\ e \in Events
  BY <1>1, <1>3, MinIsLeast
<1> HIDE DEF e
<1>5. \A x \in Events : Fresh(x) => taken[x] <= faults
  BY <1>1, AloneUnsent
<1>6. faults \in Nat /\ taken \in [Events -> Nat] /\ taken[e] <= faults /\ \A x \in Events : taken[x] <= 1 + faults
  BY <1>1, <1>4, <1>5 DEF IInv, Shape, TwiceOnlyUnheard, Fresh
<1>7. PICK status \in {"ok", "saturated", "failed"} :
        /\ drains' = [drains EXCEPT ![d].step = "answered", ![d].reply = [status |-> status]]
        /\ \/ status = "ok" /\ taken' = [taken EXCEPT ![e] = @ + 1] /\ UNCHANGED faults
           \/ status = "saturated" /\ UNCHANGED <<taken, faults>>
           \/ /\ status = "failed" /\ faults' = faults + 1
              /\ taken' = [taken EXCEPT ![e] = @ + 1] \/ UNCHANGED taken
  BY DEF handle_hook, serverVars, e, Memory
<1>8. /\ DOMAIN drains' = Drainers /\ \A x \in Drainers \ {d} : drains'[x] = drains[x]
      /\ drains'[d].step = "answered" /\ drains'[d].chunk = drains[d].chunk
      /\ drains'[d].batch = drains[d].batch /\ drains'[d].reply = [status |-> status]
  BY <1>1, <1>7
<1>9. Memory(d)' = Memory(d) /\ Works(d)'
  BY <1>8 DEF Memory, Works
<1>10. ~drains'[d].batch
  BY <1>1, <1>8 DEF IInv, Remembered
<1>11. Done(d)' = IF status = "ok" THEN {e} ELSE {}
  BY <1>8, <1>10 DEF Done, Memory, e
<1>12. /\ taken' \in [Events -> Nat] /\ \A x \in Events \ {e} : taken'[x] = taken[x]
       /\ taken'[e] \in {taken[e], taken[e] + 1} /\ faults' \in {faults, faults + 1}
       /\ status = "ok" => taken'[e] = taken[e] + 1
       /\ status = "saturated" => taken'[e] = taken[e]
       /\ status = "failed" => faults' = faults + 1
  BY <1>4, <1>6, <1>7
<1>13. \A x \in Events : taken[x] \in Nat
  BY <1>6
<1>14. faults' \in Nat /\ \A x \in Events : taken[x] <= taken'[x] /\ taken'[x] <= 1 + faults'
  BY <1>4, <1>6, <1>12, <1>13
<1>15. Done(d)' \subseteq {x \in Memory(d)' : taken'[x] > 0}
  BY <1>4, <1>9, <1>11, <1>12, <1>13
<1>16. ASSUME NEW x \in Events, x > born \/ x \in Files' \/ (Works(d)' /\ x \in Memory(d)')
       PROVE  taken'[x] <= faults' \/ (drains'[d].step = "answered" /\ x \in Done(d)')
  <2>1. taken[x] <= faults
    <3>1. Fresh(x)
      BY <1>1, <1>2, <1>9, <1>16 DEF Fresh
    <3> QED
      BY <3>1, <1>5
  <2>2. CASE x # e
    BY <1>6, <1>12, <1>13, <2>1, <2>2
  <2>3. CASE x = e
    BY <1>6, <1>7, <1>8, <1>11, <1>12, <1>13, <2>1, <2>3
  <2> QED
    BY <2>2, <2>3
<1>17. lock' = d /\ Memory(d)' \subseteq Files \cup Memory(d) /\ drains'[d].batch \in BOOLEAN /\ Memory(d)' # {}
  BY <1>1, <1>2, <1>3, <1>8, <1>9
<1> QED
  BY <1>1, <1>2, <1>8, <1>10, <1>12, <1>14, <1>15, <1>16, <1>17, DrainStep

LEMMA SingleAnsweredIInv ==
  ASSUME IInv, NEW d \in Drainers, SingleAnswered(d)
  PROVE  IInv'
<1> DEFINE e == Min(Memory(d))
           status == drains[d].reply.status
<1>1. Works(d) /\ drains[d].step = "answered" /\ ~drains[d].batch /\ DOMAIN drains = Drainers
  BY DEF SingleAnswered, Works, IInv, Shape
<1>2. UNCHANGED <<born, lock, taken, faults>>
  BY DEF SingleAnswered, serverVars
<1>3. /\ lock = d /\ Memory(d) \subseteq 1..born /\ 1..born \subseteq Nat /\ Memory(d) # {}
      /\ \A x \in Done(d) : taken[x] > 0
  BY <1>1, Alone DEF IInv, Remembered, Shape
<1>4. e \in Memory(d)
  BY <1>3, MinIsLeast
<1>5. Done(d) = IF status = "ok" THEN {e} ELSE {}
  BY <1>1 DEF Done
<1> HIDE DEF e
<1>6. status \in {"ok", "saturated", "failed"}
  BY <1>1 DEF IInv, Remembered
<1>7. /\ Files' \subseteq (Files \cup {e}) /\ dropped \subseteq dropped'
      /\ \A x \in Files \ Files' : x \in dropped' \/ x \in Done(d)
      /\ \A x \in Files' : x \notin Done(d)
  <2>1. CASE status = "ok"
    BY <1>5, <2>1 DEF SingleAnswered, Files, Without, e, Memory
  <2>2. CASE status = "saturated"
    BY <1>5, <2>2 DEF SingleAnswered, Files, e, Memory
  <2>3. CASE status = "failed"
    <3>1. bump_or_drop(e, drains[d].chunk[e], spool)
      BY <2>3 DEF SingleAnswered, e, Memory
    <3> QED
      BY <1>5, <2>3, <3>1, BumpFacts DEF Files
  <2> QED
    BY <1>6, <2>1, <2>2, <2>3
<1>8. /\ DOMAIN drains' = Drainers /\ \A x \in Drainers \ {d} : drains'[x] = drains[x]
      /\ drains'[d].step = "single" /\ drains'[d].batch = drains[d].batch
      /\ drains'[d].chunk = Without(drains[d].chunk, {e})
  <2> DEFINE left == drains[d].left \/ status = "saturated"
                     \/ (status = "failed" /\ drains[d].chunk[e] + 1 < MAX_ATTEMPTS)
             next == [drains[d] EXCEPT !.step = "single", !.chunk = Without(@, {e}), !.reply = NULL, !.left = left]
  <2>1. drains' = [drains EXCEPT ![d] = next]
    BY Zenon DEF SingleAnswered, e, Memory
  <2> HIDE DEF left
  <2>2. next.step = "single" /\ next.chunk = Without(drains[d].chunk, {e}) /\ next.batch = drains[d].batch
    OBVIOUS
  <2> HIDE DEF next
  <2> QED
    BY <1>1, <2>1, <2>2
<1>9. Memory(d)' = Memory(d) \ {e} /\ Works(d)'
  BY <1>8 DEF Memory, Works, Without
<1>10. \A x \in Events : Fresh(x) => taken[x] <= faults \/ x \in Done(d)
  BY <1>1, AloneUnsent
<1>11. ASSUME NEW x \in Events, x > born \/ x \in Files' \/ (Works(d)' /\ x \in Memory(d)')
      PROVE  taken'[x] <= faults'
  <2>1. x > born \/ x \in Files' \/ x \in Memory(d) \ {e}
    BY <1>9, <1>11
  <2>2. x \notin Done(d)
    BY <1>3, <1>4, <1>5, <1>7, <2>1 DEF IInv, Shape
  <2>3. Fresh(x)
    BY <1>1, <1>4, <1>7, <2>1 DEF Fresh
  <2> QED
    BY <1>2, <1>10, <2>2, <2>3
<1>12. faults' \in Nat /\ taken' \in [Events -> Nat]
      /\ \A x \in Events : taken[x] <= taken'[x] /\ taken'[x] <= 1 + faults'
  BY <1>2 DEF IInv, Shape, TwiceOnlyUnheard
<1>13. Files' \subseteq Files \cup Memory(d) /\ \A x \in Files \ Files' : x \in dropped' \/ taken'[x] > 0
  BY <1>2, <1>3, <1>4, <1>7
<1>14. lock' = d /\ drains'[d].batch = FALSE /\ Memory(d)' \subseteq Files \cup Memory(d)
  BY <1>1, <1>2, <1>3, <1>8, <1>9 DEF IInv, Remembered
<1> QED
  BY <1>1, <1>2, <1>7, <1>8, <1>9, <1>11, <1>12, <1>13, <1>14, DrainStep

-----------------------------------------------------------------------------
(* The other steps.                                                         *)

\* A step that leaves the working drain to its work, or is its end.
LEMMA SideStep ==
  ASSUME IInv, DOMAIN drains' = Drainers,
         \A x \in Drainers : Works(x)' => Works(x) /\ drains'[x] = drains[x] /\ lock' = x,
         taken' = taken, faults' = faults + 1 \/ (faults' = faults /\ \A x \in Drainers : Works(x) => drains'[x] = drains[x]),
         born' \in 0..MaxEvents, born <= born', dropped \subseteq dropped',
         Files' \subseteq Files \cup (born + 1)..born',
         (Files \cup (born + 1)..born') \ Files' \subseteq dropped'
  PROVE  IInv'
<1>1. born \in Nat /\ born' \in Nat /\ faults \in Nat /\ faults' \in Nat /\ Files' \subseteq 1..born'
  BY SpoolAssumption DEF IInv, Shape
<1>2. Shape'
  BY <1>1 DEF IInv, Shape
<1>3. OneDrain'
  BY DEF OneDrain, Active, Works
<1>4. Remembered'
  <2> SUFFICES ASSUME NEW x \in Drainers, Works(x)'
      PROVE  /\ Works(x) /\ drains'[x] = drains[x] /\ Memory(x)' = Memory(x) /\ Done(x)' = Done(x)
             /\ Memory(x) \subseteq 1..born'
    BY DEF IInv, Remembered
  <2>1. Works(x) /\ drains'[x] = drains[x]
    OBVIOUS
  <2>2. Memory(x)' = Memory(x)
    BY <2>1 DEF Memory
  <2>3. Done(x)' = Done(x)
    BY <2>1, <2>2 DEF Done
  <2>4. Memory(x) \subseteq 1..born'
    BY <1>1, <2>1 DEF IInv, Remembered
  <2> QED
    BY <2>1, <2>2, <2>3, <2>4
<1>5. Unsent'
  <2> SUFFICES ASSUME NEW e \in Events, Fresh(e)' PROVE taken[e] <= faults' \/ Told(e)'
    BY DEF Unsent
  <2>1. Fresh(e)
    <3>1. CASE e > born' \/ e \in Files'
      <4>1. e \in Nat /\ (e > born \/ e \in Files)
        BY <1>1, <3>1, SpoolAssumption DEF Events
      <4> QED
        BY <4>1 DEF Fresh
    <3>2. CASE \E x \in Drainers : Works(x)' /\ e \in Memory(x)'
      BY <3>2 DEF Fresh, Memory
    <3> QED
      BY <3>1, <3>2 DEF Fresh
  <2>2. taken[e] \in Nat /\ taken[e] <= 1 + faults /\ (taken[e] <= faults \/ Told(e))
    BY <2>1 DEF IInv, Unsent, TwiceOnlyUnheard, Shape
  <2>3. CASE faults' = faults + 1
    BY <1>1, <2>2, <2>3
  <2>4. CASE faults' = faults /\ \A x \in Drainers : Works(x) => drains'[x] = drains[x]
    <3>1. Told(e) => Told(e)'
      BY <2>4 DEF Told, Works, Done, Memory
    <3> QED
      BY <2>2, <2>4, <3>1
  <2> QED
    BY <2>3, <2>4
<1>6. NoEventVanishes'
  <2> SUFFICES ASSUME NEW e \in 1..born' PROVE e \in Files' \/ e \in dropped' \/ taken[e] > 0
    BY DEF NoEventVanishes
  <2>1. e \in 1..born \/ e \in (born + 1)..born'
    BY <1>1
  <2> QED
    BY <2>1 DEF IInv, NoEventVanishes
<1>7. TwiceOnlyUnheard'
  BY <1>1 DEF IInv, TwiceOnlyUnheard, Shape
<1> QED
  BY <1>2, <1>3, <1>4, <1>5, <1>6, <1>7 DEF IInv

LEMMA EnqueueIInv ==
  ASSUME IInv, NEW kind \in Kinds \cup {"none"}, Enqueue(kind)
  PROVE  IInv'
<1> DEFINE files == Files \cup {born + 1}
<1>1. /\ born' = born + 1 /\ born + 1 <= MaxEvents /\ dropped' = dropped \cup Pruned(files)
      /\ Files' = files \ Pruned(files) /\ UNCHANGED <<lock, taken, faults>>
      /\ StartDrain(kind, files \ Pruned(files))
  BY DEF Enqueue, serverVars, Files
<1>2. born \in 0..MaxEvents /\ born' \in 0..MaxEvents /\ born <= born' /\ (born + 1)..born' = {born + 1}
  BY <1>1, SpoolAssumption DEF IInv, Shape
<1>3. \/ drains' = drains
      \/ \E d \in Drainers : ~Active(d) /\ drains' = [drains EXCEPT ![d] = [step |-> "waiting", kind |-> kind]]
  BY <1>1 DEF StartDrain
<1>4. DOMAIN drains' = Drainers
      /\ \A x \in Drainers : Works(x) \/ Works(x)' => Works(x) /\ drains'[x] = drains[x]
  <2>1. CASE drains' = drains
    BY <2>1 DEF IInv, Shape, Works
  <2>2. CASE \E d \in Drainers : ~Active(d) /\ drains' = [drains EXCEPT ![d] = [step |-> "waiting", kind |-> kind]]
    BY <2>2 DEF IInv, Shape, Works, Active
  <2> QED
    BY <1>3, <2>1, <2>2
<1>5. \A x \in Drainers : Works(x)' => lock' = x
  BY <1>1, <1>4, Alone
<1>6. /\ Files' \subseteq Files \cup (born + 1)..born'
      /\ (Files \cup (born + 1)..born') \ Files' \subseteq dropped'
  BY <1>1, <1>2
<1> QED
  BY <1>1, <1>2, <1>4, <1>5, <1>6, SideStep

LEMMA SideStepsIInv ==
  ASSUME IInv,
         \/ \E e \in Events : Ages(e)
         \/ \E d \in Drainers : GivesUp(d) \/ DrainDies(d)
         \/ Recovers
         \/ UNCHANGED spoolVars
  PROVE  IInv'
<1>1. UNCHANGED <<spool, born, dropped, taken>> /\ Files' = Files
  BY DEF Ages, GivesUp, DrainDies, Recovers, spoolVars, serverVars, Files
<1>2. /\ DOMAIN drains' = Drainers
      /\ \A x \in Drainers : Works(x)' => Works(x) /\ drains'[x] = drains[x] /\ lock' = x
      /\ faults' = faults + 1 \/ (faults' = faults /\ \A x \in Drainers : Works(x) => drains'[x] = drains[x])
  <2>1. CASE UNCHANGED <<drains, lock, faults>>
    BY <2>1, Alone DEF IInv, Shape, Works
  <2>2. ASSUME NEW d \in Drainers, GivesUp(d)
      PROVE  /\ DOMAIN drains' = Drainers
             /\ \A x \in Drainers : Works(x)' => Works(x) /\ drains'[x] = drains[x] /\ lock' = x
             /\ faults' = faults + 1 \/ (faults' = faults /\ \A x \in Drainers : Works(x) => drains'[x] = drains[x])
    BY <2>2, Alone DEF GivesUp, IInv, Shape, Works, Idle, serverVars
  <2>3. ASSUME NEW d \in Drainers, DrainDies(d)
      PROVE  /\ DOMAIN drains' = Drainers
             /\ \A x \in Drainers : Works(x)' => Works(x) /\ drains'[x] = drains[x] /\ lock' = x
             /\ faults' = faults + 1 \/ (faults' = faults /\ \A x \in Drainers : Works(x) => drains'[x] = drains[x])
    BY <2>3, Alone DEF DrainDies, IInv, Shape, Works, Idle, serverVars
  <2> QED
    BY <2>1, <2>2, <2>3 DEF Ages, Recovers, spoolVars, serverVars
<1>3. born \in 0..MaxEvents /\ born' = born /\ born <= born' /\ (born + 1)..born' = {}
  BY <1>1 DEF IInv, Shape
<1> QED
  BY <1>1, <1>2, <1>3, SideStep

\* The lock is free: nobody works, and the new drain remembers nothing.
LEMMA AcquireIInv ==
  ASSUME IInv, NEW d \in Drainers, Acquire(d)
  PROVE  IInv'
<1>1. \A x \in Drainers : ~Works(x)
  BY SpoolAssumption, Alone DEF Acquire
<1>2. UNCHANGED <<spool, born, dropped, taken, faults>> /\ Files' = Files /\ lock' = d
  BY DEF Acquire, serverVars, Files
<1>3. /\ DOMAIN drains' = Drainers /\ \A x \in Drainers \ {d} : drains'[x] = drains[x]
      /\ drains'[d].step = "loading" /\ DOMAIN drains'[d].chunk = {} /\ drains'[d].batch = TRUE
  BY DEF Acquire, Pass, IInv, Shape
<1>4. \A x \in Drainers : Works(x)' => x = d
  BY <1>1, <1>3 DEF Works
<1>5. Shape' /\ OneDrain' /\ NoEventVanishes' /\ TwiceOnlyUnheard'
  BY <1>2, <1>3, <1>4 DEF IInv, Shape, OneDrain, NoEventVanishes, TwiceOnlyUnheard, Active, Works
<1>6. Remembered'
  BY <1>3, <1>4 DEF Remembered, Memory
<1>7. Unsent'
  <2> SUFFICES ASSUME NEW e \in Events, Fresh(e)' PROVE taken[e] <= faults
    BY <1>2 DEF Unsent
  <2>1. e > born \/ e \in Files
    BY <1>2, <1>3, <1>4 DEF Fresh, Memory
  <2> QED
    BY <1>1, <2>1 DEF IInv, Unsent, Fresh, Told, Works
<1> QED
  BY <1>5, <1>6, <1>7 DEF IInv

LEMMA NextIInv == IInv /\ [Next]_spoolVars => IInv'
<1> SUFFICES ASSUME IInv, [Next]_spoolVars PROVE IInv'
  OBVIOUS
<1>1. ASSUME NEW d \in Drainers, Drain(d) PROVE IInv'
  BY <1>1, LoadNextIInv, QuietStepsIInv, BatchRequestIInv, BatchAnsweredIInv, SingleRequestIInv, SingleAnsweredIInv
     DEF Drain
<1> QED
  BY <1>1, EnqueueIInv, AcquireIInv, SideStepsIInv, QuietStepsIInv DEF Next

-----------------------------------------------------------------------------
LEMMA SpecIInv == Spec => []IInv
  BY InitIInv, NextIInv, PTL DEF Spec

\* No event vanishes: what is no longer in the spool was taken by the server,
\* or given up for one of the client's three reasons, whatever requests fail,
\* time out or are refused, and wherever a drain dies.
THEOREM SpoolKeepsEvents == Spec => []NoEventVanishes
  BY SpecIInv, PTL DEF IInv

\* At most one drain works on the files.
THEOREM DrainsExclude == Spec => []OneDrain
  BY SpecIInv, PTL DEF IInv

\* The server takes an event once, and again only after an answer that the
\* client did not hear or did not live to record.
THEOREM DuplicatesAreUnheard == Spec => []TwiceOnlyUnheard
  BY SpecIInv, PTL DEF IInv

-----------------------------------------------------------------------------
(* Types. A drain is idle, waits, or is at work on a pass; entries are      *)
(* files with a number of attempts.                                         *)

Entries(n) == UNION {[S -> 0..n] : S \in SUBSET Events}
Waiters == [step : {"waiting"}, kind : Kinds]
Steps == {"loading", "posting", "single", "answered"}
Tasks == [step : Steps, kind : Kinds, files : SUBSET Events, chunk : Held,
          batch : BOOLEAN, left : BOOLEAN, reply : Replies]
DrainStates == {Idle} \cup Waiters \cup Tasks

Typed ==
    /\ spool \in Entries(MAX_ATTEMPTS - 1)
    /\ old \subseteq Events /\ dropped \subseteq Events
    /\ drains \in [Drainers -> DrainStates]
    /\ lock \in Drainers \cup {NULL}
    /\ healthy \in BOOLEAN /\ faults \in 0..MaxFaults

\* Entries, made and unmade.
LEMMA EntryFacts ==
  ASSUME NEW n \in Nat, NEW f \in Entries(n)
  PROVE  /\ f = [x \in DOMAIN f |-> f[x]] /\ DOMAIN f \in SUBSET Events
         /\ \A x \in DOMAIN f : f[x] \in 0..n
  BY DEF Entries

LEMMA NoEntries == ASSUME NEW n \in Nat PROVE [e \in {} |-> 0] \in Entries(n)
  BY DEF Entries

LEMMA EntriesWithout ==
  ASSUME NEW n \in Nat, NEW f \in Entries(n), NEW S
  PROVE  Without(f, S) \in Entries(n) /\ DOMAIN Without(f, S) = DOMAIN f \ S
<1>1. DOMAIN f \in SUBSET Events /\ \A x \in DOMAIN f : f[x] \in 0..n
  BY EntryFacts
<1>2. [x \in DOMAIN f \ S |-> f[x]] \in [DOMAIN f \ S -> 0..n]
  BY <1>1
<1>3. DOMAIN f \ S \in SUBSET Events
  BY <1>1
<1> QED
  BY <1>2, <1>3 DEF Without, Entries

LEMMA EntriesWith ==
  ASSUME NEW n \in Nat, NEW f \in Entries(n), NEW e \in Events, NEW a \in 0..n
  PROVE  [x \in DOMAIN f \cup {e} |-> IF x = e THEN a ELSE f[x]] \in Entries(n)
<1>1. DOMAIN f \in SUBSET Events /\ \A x \in DOMAIN f : f[x] \in 0..n
  BY EntryFacts
<1>2. [x \in DOMAIN f \cup {e} |-> IF x = e THEN a ELSE f[x]] \in [DOMAIN f \cup {e} -> 0..n]
  BY <1>1
<1>3. DOMAIN f \cup {e} \in SUBSET Events
  BY <1>1
<1> QED
  BY <1>2, <1>3 DEF Entries

\* What a failed attempt leaves has types.
LEMMA BumpTypes ==
  ASSUME dropped \subseteq Events, NEW e \in Events, NEW a \in Nat,
         NEW files \in Entries(MAX_ATTEMPTS - 1), bump_or_drop(e, a, files)
  PROVE  spool' \in Entries(MAX_ATTEMPTS - 1) /\ dropped' \subseteq Events
<1>1. MAX_ATTEMPTS - 1 \in Nat /\ MAX_ATTEMPTS \in Nat
  BY SpoolAssumption
<1>2. CASE a + 1 >= MAX_ATTEMPTS
  <2>1. Without(files, {e}) \in Entries(MAX_ATTEMPTS - 1)
    BY <1>1, EntriesWithout
  <2> QED
    BY <1>2, <2>1 DEF bump_or_drop
<1>3. CASE ~(a + 1 >= MAX_ATTEMPTS)
  <2>1. a + 1 \in 0..(MAX_ATTEMPTS - 1)
    BY <1>1, <1>3
  <2>2. [x \in DOMAIN files \cup {e} |-> IF x = e THEN a + 1 ELSE files[x]] \in Entries(MAX_ATTEMPTS - 1)
    BY <1>1, <2>1, EntriesWith
  <2> QED
    BY <1>3, <2>2 DEF bump_or_drop
<1> QED
  BY <1>2, <1>3

\* The step of a drain tells what it is.
LEMMA TaskFacts ==
  ASSUME Typed, NEW d \in Drainers
  PROVE  /\ drains[d].step \in Steps => drains[d] \in Tasks
         /\ drains[d].step = "waiting" => drains[d] \in Waiters
         /\ drains[d] \notin Tasks => ~Works(d)
         /\ Held = Entries(MAX_ATTEMPTS)
<1>1. drains[d] \in DrainStates
  BY DEF Typed
<1>2. CASE drains[d] = Idle
  <2>1. drains[d].step = "idle"
    BY <1>2 DEF Idle
  <2> QED
    BY <2>1 DEF Steps, Works, Held, Entries
<1>3. CASE drains[d] \in Waiters
  <2>1. drains[d].step = "waiting"
    BY <1>3 DEF Waiters
  <2> QED
    BY <1>3, <2>1 DEF Steps, Works, Held, Entries
<1>4. CASE drains[d] \in Tasks
  <2>1. drains[d].step \in Steps
    BY <1>4 DEF Tasks
  <2> QED
    BY <1>4, <2>1 DEF Steps, Works, Held, Entries
<1> QED
  BY <1>1, <1>2, <1>3, <1>4 DEF DrainStates

\* A step of one drain that only it and the files notice.
LEMMA TypedStep ==
  ASSUME Typed, NEW d \in Drainers, NEW r \in DrainStates, drains' = [drains EXCEPT ![d] = r],
         UNCHANGED <<old, healthy>>, lock' \in {lock, NULL, d},
         spool' \in Entries(MAX_ATTEMPTS - 1), dropped' \subseteq Events, faults' \in 0..MaxFaults
  PROVE  Typed'
  BY DEF Typed

LEMMA TypedTask ==
  ASSUME Typed, NEW d \in Drainers, drains[d] \in Tasks
  PROVE  /\ \A s \in Steps : [drains[d] EXCEPT !.step = s] \in Tasks
         /\ \A S \in SUBSET Events : [drains[d] EXCEPT !.files = S] \in Tasks
         /\ drains[d].files \in SUBSET Events /\ drains[d].chunk \in Held
         /\ drains[d].batch \in BOOLEAN /\ drains[d].left \in BOOLEAN
         /\ drains[d].kind \in Kinds /\ drains[d].reply \in Replies
  BY DEF Tasks

LEMMA NewPass == ASSUME Typed, NEW kind \in Kinds PROVE IInv => Pass(kind) \in Tasks
<1> SUFFICES ASSUME IInv PROVE Pass(kind) \in Tasks
  OBVIOUS
<1>1. Files \in SUBSET Events
  BY SpoolAssumption DEF IInv, Shape, Events
<1>2. [e \in {} |-> 0] \in Held
  BY SpoolAssumption, NoEntries DEF Held, Entries
<1>3. NULL \in Replies
  BY DEF Replies
<1> QED
  BY <1>1, <1>2, <1>3 DEF Pass, Tasks, Steps

LEMMA LoadNextTyped ==
  ASSUME Typed, IInv, NEW d \in Drainers, LoadNext(d)
  PROVE  Typed'
<1> DEFINE e == Min(drains[d].files)
           rest == [drains[d] EXCEPT !.files = @ \ {e}]
<1>1. drains[d] \in Tasks /\ DOMAIN drains = Drainers /\ MAX_ATTEMPTS - 1 \in Nat /\ MAX_ATTEMPTS \in Nat
  BY TaskFacts, SpoolAssumption DEF LoadNext, Steps, IInv, Shape
<1>2. UNCHANGED <<old, lock, healthy, faults>> /\ faults' \in 0..MaxFaults
  BY DEF LoadNext, serverVars, Typed
<1>3. drains[d].files \in SUBSET Events /\ drains[d].files # {} /\ Events \subseteq Nat
  BY <1>1, TypedTask, SpoolAssumption DEF LoadNext, Events
<1>4. e \in Events
  BY <1>3, MinIsLeast
<1> HIDE DEF e
<1>5. rest \in Tasks /\ rest.left \in BOOLEAN /\ rest.chunk = drains[d].chunk
      /\ \A l \in BOOLEAN : [rest EXCEPT !.left = l] \in Tasks
      /\ \A c \in Held : [rest EXCEPT !.chunk = c] \in Tasks
  BY <1>1 DEF Tasks
<1>6. /\ spool \in Entries(MAX_ATTEMPTS - 1) /\ dropped \subseteq Events
      /\ \A x \in Files : spool[x] \in 0..(MAX_ATTEMPTS - 1) /\ spool[x] \in 0..MAX_ATTEMPTS
  BY <1>1, EntryFacts DEF Typed, Files
<1> HIDE DEF rest
<1>7. CASE /\ drains' = [drains EXCEPT ![d] = [rest EXCEPT !.left = TRUE]]
           /\ UNCHANGED <<spool, dropped>>
  <2>1. [rest EXCEPT !.left = TRUE] \in DrainStates
    BY <1>5 DEF DrainStates
  <2> QED
    BY <1>2, <1>6, <1>7, <2>1, TypedStep
<1>8. CASE /\ spool' = Without(spool, {e}) /\ dropped' = dropped \cup {e}
           /\ drains' = [drains EXCEPT ![d] = rest]
  <2>1. rest \in DrainStates /\ spool' \in Entries(MAX_ATTEMPTS - 1)
    BY <1>1, <1>5, <1>6, <1>8, EntriesWithout DEF DrainStates
  <2> QED
    BY <1>2, <1>4, <1>6, <1>8, <2>1, TypedStep
<1>9. CASE /\ e \in Files
           /\ bump_or_drop(e, spool[e], spool)
           /\ drains' = [drains EXCEPT ![d] = [rest EXCEPT !.left = @ \/ spool[e] + 1 < MAX_ATTEMPTS]]
  <2> DEFINE left == rest.left \/ spool[e] + 1 < MAX_ATTEMPTS
  <2>1. drains' = [drains EXCEPT ![d] = [rest EXCEPT !.left = left]]
    BY <1>9
  <2>2. left \in BOOLEAN
    OBVIOUS
  <2>3. [rest EXCEPT !.left = left] \in DrainStates
    BY <1>5, <2>2 DEF DrainStates
  <2>4. spool[e] \in Nat
    BY <1>6, <1>9
  <2>5. spool' \in Entries(MAX_ATTEMPTS - 1) /\ dropped' \subseteq Events
    BY <1>4, <1>6, <1>9, <2>4, BumpTypes
  <2> HIDE DEF left
  <2> QED
    BY <1>2, <2>1, <2>3, <2>5, TypedStep
<1>10. CASE /\ e \in Files
            /\ drains' = [drains EXCEPT ![d] =
                   IF Fits(d, e)
                   THEN [rest EXCEPT !.chunk = [x \in DOMAIN @ \cup {e} |-> IF x = e THEN spool[e] ELSE @[x]]]
                   ELSE [drains[d] EXCEPT !.step = "posting"]]
            /\ UNCHANGED <<spool, dropped>>
  <2> DEFINE c == [x \in DOMAIN rest.chunk \cup {e} |-> IF x = e THEN spool[e] ELSE rest.chunk[x]]
             r == IF Fits(d, e) THEN [rest EXCEPT !.chunk = c] ELSE [drains[d] EXCEPT !.step = "posting"]
  <2>1. drains' = [drains EXCEPT ![d] = r]
    BY <1>10
  <2>2. rest.chunk \in Entries(MAX_ATTEMPTS) /\ spool[e] \in 0..MAX_ATTEMPTS
    BY <1>1, <1>5, <1>6, <1>10, TypedTask, TaskFacts
  <2>3. c \in Held
    BY <1>1, <1>4, <2>2, EntriesWith, TaskFacts
  <2> HIDE DEF c
  <2>4. [drains[d] EXCEPT !.step = "posting"] \in Tasks
    BY <1>1, TypedTask DEF Steps
  <2>5. r \in DrainStates
    BY <1>5, <2>3, <2>4 DEF DrainStates
  <2> HIDE DEF r
  <2> QED
    BY <1>2, <1>6, <1>10, <2>1, <2>5, TypedStep
<1> QED
  BY <1>7, <1>8, <1>9, <1>10 DEF LoadNext, e, rest

\* The end of a pass, or the next one.
LEMMA EndsTyped ==
  ASSUME Typed, IInv, NEW d \in Drainers, drains[d] \in Tasks
  PROVE  /\ Idle \in DrainStates /\ Pass("background") \in DrainStates
         /\ \A s \in Steps, b \in BOOLEAN : [drains[d] EXCEPT !.step = s, !.batch = b] \in DrainStates
         /\ \A s \in Steps : [drains[d] EXCEPT !.step = s] \in DrainStates
<1>1. "background" \in Kinds
  BY DEF Kinds
<1> QED
  BY <1>1, NewPass DEF DrainStates, Tasks

LEMMA QuietStepsTyped ==
  ASSUME Typed, IInv, NEW d \in Drainers,
         LoadEnds(d) \/ PassEnds(d) \/ BudgetEnds(d) \/ Unsupported(d) \/ SinglesEnd(d)
  PROVE  Typed'
<1>1. drains[d] \in Tasks /\ DOMAIN drains = Drainers
  BY TaskFacts DEF LoadEnds, PassEnds, BudgetEnds, Unsupported, SinglesEnd, Steps, IInv, Shape
<1>2. /\ UNCHANGED <<spool, old, dropped, healthy, faults>> /\ faults' \in 0..MaxFaults
      /\ spool' \in Entries(MAX_ATTEMPTS - 1) /\ dropped' \subseteq Events
  BY DEF LoadEnds, PassEnds, BudgetEnds, Unsupported, SinglesEnd, serverVars, Typed
<1>3. \/ drains' = [drains EXCEPT ![d].step = "posting"] /\ lock' = lock
      \/ drains' = [drains EXCEPT ![d].step = "loading"] /\ lock' = lock
      \/ drains' = [drains EXCEPT ![d].step = "single", ![d].batch = FALSE] /\ lock' = lock
      \/ drains' = [drains EXCEPT ![d] = Pass("background")] /\ lock' = lock
      \/ drains' = [drains EXCEPT ![d] = Idle] /\ lock' = NULL
  BY DEF LoadEnds, PassEnds, Ends, BudgetEnds, Unsupported, SinglesEnd
<1>4. \E r \in DrainStates : drains' = [drains EXCEPT ![d] = r]
  <2>1. CASE drains' = [drains EXCEPT ![d].step = "posting"]
    <3>1. drains' = [drains EXCEPT ![d] = [drains[d] EXCEPT !.step = "posting"]]
      BY <2>1
    <3> QED
      BY <1>1, <3>1, EndsTyped DEF Steps
  <2>2. CASE drains' = [drains EXCEPT ![d].step = "loading"]
    <3>1. drains' = [drains EXCEPT ![d] = [drains[d] EXCEPT !.step = "loading"]]
      BY <2>2
    <3> QED
      BY <1>1, <3>1, EndsTyped DEF Steps
  <2>3. CASE drains' = [drains EXCEPT ![d].step = "single", ![d].batch = FALSE]
    <3>1. drains' = [drains EXCEPT ![d] = [drains[d] EXCEPT !.step = "single", !.batch = FALSE]]
      BY <2>3
    <3> QED
      BY <1>1, <3>1, EndsTyped DEF Steps
  <2> QED
    BY <1>1, <1>3, <2>1, <2>2, <2>3, EndsTyped
<1>5. lock' \in {lock, NULL, d}
  BY <1>3
<1> QED
  BY <1>2, <1>4, <1>5, TypedStep

-----------------------------------------------------------------------------
\* The answers.
LEMMA AnswerTypes ==
  ASSUME NEW items \in SUBSET Events, NEW ok \in SUBSET items, NEW status \in {"ok", "saturated"},
         NEW failed \in Events \cup {NULL}
  PROVE  HookBatchAck(items, ok, status, failed) \in Replies /\ NoAnswer \in Replies
<1> DEFINE prefix == {e \in items : Upto(items, e) \subseteq ok}
           indices == IF ok = prefix /\ ~(status = "ok" /\ ok = {}) THEN NULL ELSE ok
<1>1. prefix \in SUBSET Events /\ ok \in SUBSET Events
  OBVIOUS
<1>2. HookBatchAck(items, ok, status, failed)
        = [status |-> status, failed |-> failed, prefix |-> prefix, indices |-> indices]
  BY DEF HookBatchAck
<1> HIDE DEF prefix
<1>3. indices = NULL \/ indices = ok
  BY Zenon
<1> HIDE DEF indices
<1>4. HookBatchAck(items, ok, status, failed) \in Replies
  <2>1. status \in {"ok", "saturated", "failed"} /\ indices \in (SUBSET Events) \cup {NULL}
    BY <1>1, <1>3
  <2>2. [status |-> status, failed |-> failed, prefix |-> prefix, indices |-> indices]
          \in [status : {"ok", "saturated", "failed"}, failed : Events \cup {NULL},
              prefix : SUBSET Events, indices : (SUBSET Events) \cup {NULL}]
    BY <1>1, <2>1
  <2> QED
    BY <1>2, <2>2 DEF Replies
<1>5. NoAnswer \in Replies
  BY DEF Replies, NoAnswer
<1> QED
  BY <1>4, <1>5

LEMMA AnsweredTypes ==
  ASSUME Typed, NEW d \in Drainers, drains[d] \in Tasks, NEW reply \in Replies,
         drains' = [drains EXCEPT ![d].step = "answered", ![d].reply = reply],
         UNCHANGED <<spool, old, dropped, lock, healthy>>,
         faults' \in {faults, faults + 1}, faults' = faults + 1 => faults < MaxFaults
  PROVE  Typed'
<1> DEFINE r == [drains[d] EXCEPT !.step = "answered", !.reply = reply]
<1>1. r \in DrainStates
  BY DEF Tasks, DrainStates, Steps
<1>2. drains' = [drains EXCEPT ![d] = r]
  OBVIOUS
<1> HIDE DEF r
<1>3. faults' \in 0..MaxFaults
  BY SpoolAssumption DEF Typed
<1>4. spool' \in Entries(MAX_ATTEMPTS - 1) /\ dropped' \subseteq Events
  BY DEF Typed
<1> QED
  BY <1>1, <1>2, <1>3, <1>4, TypedStep

LEMMA RequestsTyped ==
  ASSUME Typed, IInv, NEW d \in Drainers, handle_hook_batch(d) \/ handle_hook(d)
  PROVE  Typed'
<1>1. drains[d] \in Tasks
  BY TaskFacts DEF handle_hook_batch, handle_hook, Steps
<1>2. UNCHANGED <<spool, old, dropped, lock, healthy>>
  BY DEF handle_hook_batch, handle_hook
<1>3. faults \in Nat
  BY DEF IInv, Shape
<1>4. CASE handle_hook_batch(d)
  <2> DEFINE items == DOMAIN drains[d].chunk
  <2>1. PICK stop \in items \cup {NULL}, limited \in SUBSET items : \E status \in {"ok", "saturated"} :
           LET seen == IF stop = NULL THEN items ELSE Upto(items, stop) \ {stop}
               ok == seen \ limited
           IN  \/ /\ drains' = [drains EXCEPT ![d].step = "answered",
                            ![d].reply = HookBatchAck(items, ok, status, IF status = "ok" THEN stop ELSE NULL)]
                  /\ UNCHANGED faults
               \/ /\ faults < MaxFaults
                  /\ faults' = faults + 1
                  /\ drains' = [drains EXCEPT ![d].step = "answered", ![d].reply = NoAnswer]
    BY <1>4, ZenonT(60) DEF handle_hook_batch
  <2>2. items \in SUBSET Events
    BY <1>1, TypedTask DEF Held
  <2> DEFINE ok == (IF stop = NULL THEN items ELSE Upto(items, stop) \ {stop}) \ limited
  <2>3. PICK status \in {"ok", "saturated"} :
           \/ /\ drains' = [drains EXCEPT ![d].step = "answered",
                        ![d].reply = HookBatchAck(items, ok, status, IF status = "ok" THEN stop ELSE NULL)]
              /\ UNCHANGED faults
           \/ /\ faults < MaxFaults
              /\ faults' = faults + 1
              /\ drains' = [drains EXCEPT ![d].step = "answered", ![d].reply = NoAnswer]
    BY <2>1, Zenon
  <2> DEFINE failed == IF status = "ok" THEN stop ELSE NULL
             ack == HookBatchAck(items, ok, status, failed)
  <2>4. ok \in SUBSET items /\ failed \in Events \cup {NULL}
    BY <2>2 DEF Upto
  <2> HIDE DEF items, ok, failed
  <2>5. ack \in Replies /\ NoAnswer \in Replies
    BY <2>2, <2>4, AnswerTypes
  <2>6. \/ drains' = [drains EXCEPT ![d].step = "answered", ![d].reply = ack] /\ faults' = faults
        \/ /\ faults < MaxFaults /\ faults' = faults + 1
           /\ drains' = [drains EXCEPT ![d].step = "answered", ![d].reply = NoAnswer]
    BY <2>3 DEF failed
  <2> HIDE DEF ack
  <2> QED
    BY <1>1, <1>2, <1>3, <2>5, <2>6, AnsweredTypes
<1>5. CASE handle_hook(d)
  <2>1. PICK status \in {"ok", "saturated", "failed"} :
          /\ drains' = [drains EXCEPT ![d].step = "answered", ![d].reply = [status |-> status]]
          /\ faults' = faults \/ (faults < MaxFaults /\ faults' = faults + 1)
    BY <1>5 DEF handle_hook, serverVars
  <2> DEFINE reply == [status |-> status]
  <2>2. reply \in Replies
    BY DEF Replies
  <2>3. drains' = [drains EXCEPT ![d].step = "answered", ![d].reply = reply]
    BY <2>1
  <2>4. faults' \in {faults, faults + 1} /\ (faults' = faults + 1 => faults < MaxFaults)
    BY <1>3, <2>1
  <2> HIDE DEF reply
  <2> QED
    BY <2>3, <2>4, <1>1, <1>2, <1>3, <2>1, <2>2, AnsweredTypes
<1> QED
  BY <1>4, <1>5

LEMMA BatchAnsweredTyped ==
  ASSUME Typed, IInv, NEW d \in Drainers, BatchAnswered(d)
  PROVE  Typed'
<1> DEFINE items == Memory(d)
           done == Done(d)
           rest == items \ done
           reply == drains[d].reply
           files == Without(spool, done)
           charged == IF reply.status = "saturated" \/ rest = {} THEN NULL
                      ELSE IF reply.indices # NULL THEN reply.failed ELSE Min(rest)
           breaks == reply.status # "ok" \/ charged # NULL
           bumped == charged # NULL /\ drains[d].chunk[charged] + 1 < MAX_ATTEMPTS
           listed == drains[d].files
           left == drains[d].left \/ bumped \/ rest \ {charged} # {} \/ (breaks /\ listed # {})
           next == [drains[d] EXCEPT !.step = "loading", !.chunk = [e \in {} |-> 0],
                        !.files = IF breaks THEN {} ELSE @, !.left = left, !.reply = NULL]
<1>1. /\ drains[d] \in Tasks /\ drains[d].step = "answered" /\ drains[d].batch
      /\ MAX_ATTEMPTS - 1 \in Nat /\ MAX_ATTEMPTS \in Nat
  <2>1. drains[d].step = "answered" /\ drains[d].batch
    BY DEF BatchAnswered
  <2> QED
    BY <2>1, TaskFacts, SpoolAssumption DEF Steps
<1>2. UNCHANGED <<old, healthy, faults>> /\ faults' \in 0..MaxFaults
  BY DEF BatchAnswered, serverVars, Typed
<1>3. /\ IF charged = NULL THEN spool' = files /\ UNCHANGED dropped
                           ELSE bump_or_drop(charged, drains[d].chunk[charged], files)
      /\ drains' = [drains EXCEPT ![d] = next] /\ lock' = lock
  BY <1>1, Zenon DEF BatchAnswered, Done, Memory
<1>4. next \in DrainStates
  <2>1. [e \in {} |-> 0] \in Held /\ NULL \in Replies
    BY <1>1, NoEntries, TaskFacts DEF Replies
  <2>2. left \in BOOLEAN /\ breaks \in BOOLEAN
    OBVIOUS
  <2> HIDE DEF left, breaks
  <2> QED
    BY <1>1, <2>1, <2>2 DEF Tasks, DrainStates, Steps
<1>5. /\ items \subseteq Events /\ items \subseteq Nat /\ reply.failed \in rest \cup {NULL}
      /\ \A e \in items : drains[d].chunk[e] \in Nat
  <2>1. drains[d].chunk \in Entries(MAX_ATTEMPTS)
    BY <1>1, TypedTask, TaskFacts
  <2>2. items \subseteq Events /\ \A e \in items : drains[d].chunk[e] \in Nat
    BY <1>1, <2>1, EntryFacts DEF Memory
  <2>3. Works(d)
    BY <1>1 DEF Works
  <2> QED
    BY <1>1, <2>2, <2>3 DEF IInv, Remembered, Events
<1>6. charged \in rest \cup {NULL}
  BY <1>5, MinIsLeast
<1> HIDE DEF charged, bumped, breaks, left, done, next, items
<1>7. spool \in Entries(MAX_ATTEMPTS - 1) /\ dropped \subseteq Events /\ files \in Entries(MAX_ATTEMPTS - 1)
  BY <1>1, EntriesWithout DEF Typed
<1> HIDE DEF files
<1>8. spool' \in Entries(MAX_ATTEMPTS - 1) /\ dropped' \subseteq Events
  <2>1. CASE charged = NULL
    BY <1>3, <1>7, <2>1
  <2>2. CASE charged # NULL
    <3>1. charged \in Events /\ drains[d].chunk[charged] \in Nat
      BY <1>5, <1>6, <2>2
    <3> QED
      BY <1>3, <1>7, <2>2, <3>1, BumpTypes
  <2> QED
    BY <2>1, <2>2
<1>9. \E r \in DrainStates : drains' = [drains EXCEPT ![d] = r]
  BY <1>3, <1>4 DEF DrainStates
<1>10. lock' \in {lock, NULL, d}
  BY <1>3
<1> QED
  BY <1>2, <1>8, <1>9, <1>10, TypedStep

LEMMA SingleAnsweredTyped ==
  ASSUME Typed, IInv, NEW d \in Drainers, SingleAnswered(d)
  PROVE  Typed'
<1> DEFINE e == Min(Memory(d))
           status == drains[d].reply.status
           left == drains[d].left \/ status = "saturated"
                   \/ (status = "failed" /\ drains[d].chunk[e] + 1 < MAX_ATTEMPTS)
           next == [drains[d] EXCEPT !.step = "single", !.chunk = Without(@, {e}), !.reply = NULL, !.left = left]
<1>1. /\ drains[d] \in Tasks /\ drains[d].step = "answered" /\ ~drains[d].batch
      /\ MAX_ATTEMPTS - 1 \in Nat /\ MAX_ATTEMPTS \in Nat
  <2>1. drains[d].step = "answered" /\ ~drains[d].batch
    BY DEF SingleAnswered
  <2> QED
    BY <2>1, TaskFacts, SpoolAssumption DEF Steps
<1>2. UNCHANGED <<old, healthy, lock, faults>> /\ faults' \in 0..MaxFaults
  BY DEF SingleAnswered, serverVars, Typed
<1>3. drains' = [drains EXCEPT ![d] = next]
  BY Zenon DEF SingleAnswered, Memory
<1>4. drains[d].chunk \in Entries(MAX_ATTEMPTS)
  BY <1>1, TypedTask, TaskFacts
<1>5. next \in DrainStates
  <2> HIDE DEF e
  <2>0. Without(drains[d].chunk, {e}) \in Entries(MAX_ATTEMPTS)
    BY <1>1, <1>4, EntriesWithout
  <2>1. Without(drains[d].chunk, {e}) \in Held /\ NULL \in Replies
    BY <2>0, TaskFacts DEF Replies
  <2>2. left \in BOOLEAN
    OBVIOUS
  <2> HIDE DEF left
  <2> QED
    BY <1>1, <2>1, <2>2 DEF Tasks, DrainStates, Steps
<1> HIDE DEF next
<1>6. /\ Memory(d) \subseteq Events /\ Memory(d) \subseteq Nat /\ Memory(d) # {}
      /\ status \in {"ok", "saturated", "failed"} /\ \A x \in Memory(d) : drains[d].chunk[x] \in Nat
  <2>1. Memory(d) \subseteq Events /\ \A x \in Memory(d) : drains[d].chunk[x] \in Nat
    BY <1>1, <1>4, EntryFacts DEF Memory
  <2>2. Works(d)
    BY <1>1 DEF Works
  <2> QED
    BY <1>1, <2>1, <2>2 DEF IInv, Remembered, Events
<1>7. e \in Events /\ drains[d].chunk[e] \in Nat
  BY <1>6, MinIsLeast
<1>8. spool \in Entries(MAX_ATTEMPTS - 1) /\ dropped \subseteq Events
  BY DEF Typed
<1>9. \/ spool' = Without(spool, {e}) /\ UNCHANGED dropped
      \/ UNCHANGED <<spool, dropped>>
      \/ bump_or_drop(e, drains[d].chunk[e], spool)
  BY <1>6 DEF SingleAnswered, Memory
<1> HIDE DEF e
<1>10. spool' \in Entries(MAX_ATTEMPTS - 1) /\ dropped' \subseteq Events
  <2>1. Without(spool, {e}) \in Entries(MAX_ATTEMPTS - 1)
    BY <1>1, <1>8, EntriesWithout
  <2>2. CASE bump_or_drop(e, drains[d].chunk[e], spool)
    <3> DEFINE a == drains[d].chunk[e]
    <3>1. a \in Nat /\ bump_or_drop(e, a, spool)
      BY <1>7, <2>2
    <3> HIDE DEF a
    <3> QED
      BY <1>7, <1>8, <3>1, BumpTypes
  <2> QED
    BY <1>8, <1>7, <1>9, <2>1, <2>2
<1> QED
  BY <1>2, <1>3, <1>5, <1>10, TypedStep

-----------------------------------------------------------------------------
\* The hook, and what befalls a drain.
LEMMA EnqueueTyped ==
  ASSUME Typed, IInv, NEW kind \in Kinds \cup {"none"}, Enqueue(kind)
  PROVE  Typed'
<1> DEFINE e == born + 1
           files == Files \cup {e}
<1>1. /\ e <= MaxEvents /\ dropped' = dropped \cup Pruned(files)
      /\ spool' = [x \in files \ Pruned(files) |-> IF x = e THEN 0 ELSE spool[x]]
      /\ StartDrain(kind, files \ Pruned(files)) /\ UNCHANGED <<old, lock, healthy, faults>>
  BY DEF Enqueue, serverVars
<1>2. /\ e \in Events /\ files \subseteq Events /\ MAX_ATTEMPTS - 1 \in Nat
      /\ spool \in Entries(MAX_ATTEMPTS - 1)
      /\ 0 \in 0..(MAX_ATTEMPTS - 1)
  BY <1>1, SpoolAssumption DEF IInv, Shape, Events, Typed
<1>3. \A x \in Files : spool[x] \in 0..(MAX_ATTEMPTS - 1)
  BY <1>2, EntryFacts DEF Files
<1>4. Pruned(files) \subseteq files
  BY DEF Pruned
<1> HIDE DEF e
<1>5. spool' \in [files \ Pruned(files) -> 0..(MAX_ATTEMPTS - 1)]
  BY <1>1, <1>2, <1>3
<1>6. spool' \in Entries(MAX_ATTEMPTS - 1) /\ dropped' \subseteq Events
  <2>1. files \ Pruned(files) \in SUBSET Events
    BY <1>2
  <2> QED
    BY <1>1, <1>2, <1>4, <1>5, <2>1 DEF Entries, Typed
<1>7. drains' \in [Drainers -> DrainStates]
  <2>1. CASE kind \in Kinds
    <3>1. [step |-> "waiting", kind |-> kind] \in DrainStates
      BY <2>1 DEF DrainStates, Waiters
    <3> QED
      BY <1>1, <3>1 DEF StartDrain, Typed
  <2>2. CASE kind \notin Kinds
    BY <1>1, <2>2 DEF StartDrain, Typed
  <2> QED
    BY <2>1, <2>2
<1> QED
  BY <1>1, <1>6, <1>7 DEF Typed

LEMMA SideStepsTyped ==
  ASSUME Typed, IInv,
         \/ \E e \in Events : Ages(e)
         \/ \E d \in Drainers : GivesUp(d) \/ DrainDies(d) \/ Acquire(d)
         \/ Recovers
         \/ UNCHANGED spoolVars
  PROVE  Typed'
<1>1. CASE \E e \in Events : Ages(e)
  BY <1>1 DEF Ages, Typed, serverVars
<1>2. ASSUME NEW d \in Drainers, GivesUp(d) PROVE Typed'
  <2>1. Idle \in DrainStates /\ spool' \in Entries(MAX_ATTEMPTS - 1) /\ dropped' \subseteq Events /\ faults' \in 0..MaxFaults
    BY <1>2 DEF GivesUp, DrainStates, serverVars, Typed
  <2> QED
    BY <1>2, <2>1, TypedStep DEF GivesUp
<1>3. ASSUME NEW d \in Drainers, DrainDies(d) PROVE Typed'
  <2>1. Idle \in DrainStates /\ spool' \in Entries(MAX_ATTEMPTS - 1) /\ dropped' \subseteq Events
    BY <1>3 DEF DrainDies, DrainStates, Typed
  <2>2. faults' \in 0..MaxFaults
    BY <1>3, SpoolAssumption DEF DrainDies, Typed
  <2> QED
    BY <1>3, <2>1, <2>2, TypedStep DEF DrainDies
<1>4. ASSUME NEW d \in Drainers, Acquire(d) PROVE Typed'
  <2>1. drains[d].kind \in Kinds
    BY <1>4, TaskFacts DEF Acquire, Waiters
  <2>2. Pass(drains[d].kind) \in DrainStates
    BY <2>1, NewPass DEF DrainStates
  <2>3. spool' \in Entries(MAX_ATTEMPTS - 1) /\ dropped' \subseteq Events /\ faults' \in 0..MaxFaults
    BY <1>4 DEF Acquire, Typed, serverVars
  <2> QED
    BY <1>4, <2>2, <2>3, TypedStep DEF Acquire
<1>5. CASE Recovers
  BY <1>5 DEF Recovers, Typed, serverVars
<1>6. CASE UNCHANGED spoolVars
  BY <1>6 DEF spoolVars, Typed
<1> QED
  BY <1>1, <1>2, <1>3, <1>4, <1>5, <1>6

LEMMA NextTyped == Typed /\ IInv /\ [Next]_spoolVars => Typed'
<1> SUFFICES ASSUME Typed, IInv, [Next]_spoolVars PROVE Typed'
  OBVIOUS
<1>1. ASSUME NEW d \in Drainers, Drain(d) PROVE Typed'
  BY <1>1, LoadNextTyped, QuietStepsTyped, RequestsTyped, BatchAnsweredTyped, SingleAnsweredTyped DEF Drain
<1> QED
  BY <1>1, EnqueueTyped, SideStepsTyped, QuietStepsTyped DEF Next

LEMMA InitTyped == Init => Typed
<1> SUFFICES ASSUME Init PROVE Typed
  OBVIOUS
<1>1. spool \in Entries(MAX_ATTEMPTS - 1) /\ faults \in 0..MaxFaults
  BY SpoolAssumption, NoEntries DEF Init
<1> QED
  BY <1>1 DEF Init, Typed, DrainStates

LEMMA SpecTyped == Spec => [](Typed /\ IInv)
  BY InitTyped, NextTyped, SpecIInv, PTL DEF Spec

\* Types: files hold attempts below the limit, a drain's list, chunk and answer are of
\* events that were written, the lock is a drain's or free.
THEOREM SpoolTypes == Spec => []SpoolTypeOK
<1>1. Typed /\ IInv => SpoolTypeOK
  <2> SUFFICES ASSUME Typed, IInv PROVE SpoolTypeOK
    OBVIOUS
  <2>1. ASSUME NEW d \in Drainers PROVE DrainTypeOK(drains[d])
    <3>1. drains[d] \in DrainStates
      BY DEF Typed
    <3>2. CASE drains[d] \in Waiters
      BY <3>2 DEF Waiters, DrainTypeOK
    <3>3. CASE drains[d] \in Tasks
      BY <3>3 DEF Tasks, Steps, DrainTypeOK
    <3> QED
      BY <3>1, <3>2, <3>3 DEF DrainStates, DrainTypeOK
  <2>2. MAX_ATTEMPTS - 1 \in Nat
    BY SpoolAssumption
  <2>3. \A e \in Files : spool[e] \in 0..(MAX_ATTEMPTS - 1)
    BY <2>2, EntryFacts DEF Typed, Files
  <2> QED
    BY <2>1, <2>3 DEF SpoolTypeOK, Typed, IInv, Shape
<1> QED
  BY <1>1, SpecTyped, PTL

-----------------------------------------------------------------------------
(* A drain comes to its end. What one at work has left to do is a list of   *)
(* numbers, ordered as a dictionary orders words: whether it may look again, *)
(* and how many files it may then find; the files of its pass; the entries   *)
(* in memory; the request under way.                                         *)

Unseen(d) == Files \ (drains[d].files \cup Memory(d))

Looks(d) == IF drains[d].left THEN 0 ELSE 1 + (MaxEvents - born) + Cardinality(Unseen(d))

Rank(d) == CASE drains[d].step = "loading" -> IF Memory(d) = {} THEN 0 ELSE 4
             [] drains[d].step = "posting" -> 3
             [] drains[d].step = "single" -> 2
             [] OTHER -> 1

ToDo(d) == <<Looks(d), Cardinality(drains[d].files), Cardinality(Memory(d)), Rank(d)>>
ToDos == [1..4 -> Nat]

Below == {p \in Nat \X Nat : p[1] < p[2]}
ToDoOrder == LexProductOrdering(Below, Nat, 4)

\* Each step of a drain at work ends it or leaves less to do, and nothing else
\* gives it more.
SpoolRunsDown ==
    \A d \in Drainers : Works(d) /\ Works(d)' =>
        /\ Drain(d) => <<ToDo(d)', ToDo(d)>> \in ToDoOrder
        /\ ~Drain(d) => drains'[d] = drains[d] /\ Looks(d)' <= Looks(d)

LEMMA ToDoIsWellFounded == IsWellFoundedOn(ToDoOrder, ToDos)
<1>1. Below = OpToRel(<, Nat)
  BY DEF Below, OpToRel
<1>2. IsWellFoundedOn(Below, Nat)
  BY <1>1, NatLessThanWellFounded
<1> QED
  BY <1>2, WFLexProductOrdering DEF ToDoOrder, ToDos

LEMMA LessAt ==
  ASSUME NEW f \in ToDos, NEW g \in ToDos, NEW j \in 1..4,
         \A i \in 1..(j - 1) : f[i] = g[i], f[j] < g[j]
  PROVE  <<f, g>> \in ToDoOrder
<1> DEFINE p == <<f, g>>
<1>1. p \in ToDos \X ToDos /\ p[1] = f /\ p[2] = g
  OBVIOUS
<1>2. f[j] \in Nat /\ g[j] \in Nat
  BY DEF ToDos
<1>3. <<p[1][j], p[2][j]>> \in Below
  BY <1>1, <1>2 DEF Below
<1>4. \A i \in 1..(j - 1) : p[1][i] = p[2][i]
  BY <1>1
<1> HIDE DEF p
<1>5. p \in [1..4 -> Nat] \X [1..4 -> Nat]
  BY <1>1 DEF ToDos
<1>6. p \in LexProductOrdering(Below, Nat, 4)
  BY <1>3, <1>4, <1>5 DEF LexProductOrdering
<1> QED
  BY <1>6 DEF ToDoOrder, p

\* A list that is lower at a place, and at no place before it higher.
LEMMA LessOrEqual ==
  ASSUME NEW f \in ToDos, NEW g \in ToDos,
         f[1] <= g[1],
         f[1] = g[1] => f[2] <= g[2],
         f[1] = g[1] /\ f[2] = g[2] => f[3] <= g[3],
         f[1] = g[1] /\ f[2] = g[2] /\ f[3] = g[3] => f[4] < g[4]
  PROVE  <<f, g>> \in ToDoOrder
<1>1. \A i \in 1..4 : f[i] \in Nat /\ g[i] \in Nat
  BY DEF ToDos
<1>2. \/ f[1] < g[1]
      \/ f[1] = g[1] /\ f[2] < g[2]
      \/ f[1] = g[1] /\ f[2] = g[2] /\ f[3] < g[3]
      \/ f[1] = g[1] /\ f[2] = g[2] /\ f[3] = g[3] /\ f[4] < g[4]
  BY <1>1
<1>3. CASE f[1] < g[1]
  <2>1. \A i \in 1..(1 - 1) : f[i] = g[i]
    OBVIOUS
  <2> QED
    BY <1>3, <2>1, LessAt
<1>4. CASE f[1] = g[1] /\ f[2] < g[2]
  <2>1. \A i \in 1..(2 - 1) : f[i] = g[i]
    BY <1>4
  <2> QED
    BY <1>4, <2>1, LessAt
<1>5. CASE f[1] = g[1] /\ f[2] = g[2] /\ f[3] < g[3]
  <2>1. \A i \in 1..(3 - 1) : f[i] = g[i]
    BY <1>5
  <2> QED
    BY <1>5, <2>1, LessAt
<1>6. CASE f[1] = g[1] /\ f[2] = g[2] /\ f[3] = g[3] /\ f[4] < g[4]
  <2>1. \A i \in 1..(4 - 1) : f[i] = g[i]
    BY <1>6
  <2> QED
    BY <1>6, <2>1, LessAt
<1> QED
  BY <1>2, <1>3, <1>4, <1>5, <1>6

LEMMA EventSetsAreFinite ==
  ASSUME NEW S \in SUBSET Events
  PROVE  IsFiniteSet(S) /\ Cardinality(S) \in Nat
<1>1. IsFiniteSet(Events)
  BY SpoolAssumption, FS_Interval DEF Events
<1> QED
  BY <1>1, FS_Subset, FS_CardinalityType

LEMMA FourNumbers ==
  ASSUME NEW a \in Nat, NEW b \in Nat, NEW c \in Nat, NEW r \in Nat
  PROVE  <<a, b, c, r>> \in ToDos
<1>1. <<a, b, c, r>> = [i \in 1..4 |-> <<a, b, c, r>>[i]] /\ \A i \in 1..4 : <<a, b, c, r>>[i] \in Nat
  OBVIOUS
<1> QED
  BY <1>1 DEF ToDos

\* What a drain at work has, as sets and numbers.
Sized(d) ==
    /\ drains[d].files \in SUBSET Events /\ Memory(d) \in SUBSET Events /\ Unseen(d) \in SUBSET Events
    /\ drains[d].left \in BOOLEAN /\ born \in 0..MaxEvents
    /\ Looks(d) \in Nat /\ ToDo(d) \in ToDos

LEMMA SizesOK ==
  ASSUME Typed, IInv, NEW d \in Drainers, Works(d)
  PROVE  Sized(d) /\ drains[d] \in Tasks
<1>1. drains[d] \in Tasks
  BY TaskFacts
<1>2. drains[d].files \in SUBSET Events /\ drains[d].left \in BOOLEAN /\ drains[d].chunk \in Held
  BY <1>1, TypedTask
<1>3. Memory(d) \in SUBSET Events
  BY <1>2 DEF Memory, Held
<1>4. Unseen(d) \in SUBSET Events /\ born \in 0..MaxEvents
  <2>1. Files \in SUBSET Events /\ born \in 0..MaxEvents
    BY SpoolAssumption DEF IInv, Shape, Events
  <2> QED
    BY <2>1 DEF Unseen
<1>5. Looks(d) \in Nat
  <2>1. Cardinality(Unseen(d)) \in Nat
    BY <1>4, EventSetsAreFinite
  <2> QED
    BY <1>4, <2>1, SpoolAssumption DEF Looks
<1>6. Cardinality(drains[d].files) \in Nat /\ Cardinality(Memory(d)) \in Nat
  BY <1>2, <1>3, EventSetsAreFinite
<1>7. Rank(d) \in Nat
  BY DEF Rank
<1>8. ToDo(d) \in ToDos
  BY <1>5, <1>6, <1>7, FourNumbers DEF ToDo
<1> QED
  BY <1>1, <1>2, <1>3, <1>4, <1>5, <1>8 DEF Sized

SizedRight == \A d \in Drainers : Works(d) => Sized(d)

\* A second look is not more, as long as no file comes up that the pass
\* neither has nor left.
LEMMA LooksKept ==
  ASSUME NEW d \in Drainers, Sized(d), Sized(d)', born' = born,
         drains[d].left => drains'[d].left,
         ~drains'[d].left => Unseen(d)' \subseteq Unseen(d)
  PROVE  Looks(d)' <= Looks(d)
<1>1. Looks(d) \in Nat /\ Looks(d)' \in Nat
  BY DEF Sized
<1>2. CASE drains'[d].left
  <2>1. Looks(d)' = 0
    BY <1>2 DEF Looks
  <2> QED
    BY <1>1, <2>1
<1>3. CASE ~drains'[d].left
  <2>1. Unseen(d)' \in SUBSET Unseen(d) /\ Unseen(d) \in SUBSET Events /\ Unseen(d)' \in SUBSET Events
    BY <1>3 DEF Sized
  <2>2. Cardinality(Unseen(d)') <= Cardinality(Unseen(d))
        /\ Cardinality(Unseen(d)) \in Nat /\ Cardinality(Unseen(d)') \in Nat
    BY <2>1, EventSetsAreFinite, FS_Subset
  <2>3. /\ Looks(d)' = 1 + (MaxEvents - born) + Cardinality(Unseen(d)')
        /\ Looks(d) = 1 + (MaxEvents - born) + Cardinality(Unseen(d))
    BY <1>3 DEF Looks
  <2>4. MaxEvents - born \in Nat
    BY SpoolAssumption DEF Sized
  <2> QED
    BY <2>2, <2>3, <2>4
<1> QED
  BY <1>2, <1>3

\* Fewer files, fewer entries, or a later place in the request.
LEMMA Lower ==
  ASSUME NEW d \in Drainers, Sized(d), Sized(d)', Looks(d)' <= Looks(d),
         drains'[d].files \subseteq drains[d].files,
         drains'[d].files = drains[d].files => Memory(d)' \subseteq Memory(d),
         drains'[d].files = drains[d].files /\ Memory(d)' = Memory(d) => Rank(d)' < Rank(d)
  PROVE  <<ToDo(d)', ToDo(d)>> \in ToDoOrder
<1> DEFINE f == ToDo(d)'
           g == ToDo(d)
<1>1. f \in ToDos /\ g \in ToDos
  BY DEF Sized
<1>2. /\ f[1] = Looks(d)' /\ f[2] = Cardinality(drains'[d].files) /\ f[3] = Cardinality(Memory(d)') /\ f[4] = Rank(d)'
      /\ g[1] = Looks(d) /\ g[2] = Cardinality(drains[d].files) /\ g[3] = Cardinality(Memory(d)) /\ g[4] = Rank(d)
  BY DEF ToDo
<1> HIDE DEF f, g
<1>3. IsFiniteSet(drains[d].files) /\ IsFiniteSet(Memory(d))
  BY EventSetsAreFinite DEF Sized
<1>4. f[2] <= g[2] /\ (f[2] = g[2] => drains'[d].files = drains[d].files)
  BY <1>2, <1>3, FS_Subset
<1>5. f[2] = g[2] => f[3] <= g[3] /\ (f[3] = g[3] => Memory(d)' = Memory(d))
  <2> SUFFICES ASSUME f[2] = g[2] PROVE f[3] <= g[3] /\ (f[3] = g[3] => Memory(d)' = Memory(d))
    OBVIOUS
  <2>1. Memory(d)' \in SUBSET Memory(d)
    BY <1>4
  <2> QED
    BY <1>2, <1>3, <2>1, FS_Subset
<1>6. f[1] <= g[1]
  BY <1>2
<1>7. f[2] = g[2] /\ f[3] = g[3] => f[4] < g[4]
  BY <1>2, <1>4, <1>5
<1>8. <<f, g>> \in ToDoOrder
  BY <1>1, <1>4, <1>5, <1>6, <1>7, LessOrEqual
<1> QED
  BY <1>8 DEF f, g

\* How the work of a drain goes on: each lemma is one of its steps.
LEMMA LoadNextRuns ==
  ASSUME Typed, IInv, SizedRight', NEW d \in Drainers, LoadNext(d)
  PROVE  Works(d) /\ (Works(d)' => <<ToDo(d)', ToDo(d)>> \in ToDoOrder)
<1> DEFINE e == Min(drains[d].files)
           rest == [drains[d] EXCEPT !.files = @ \ {e}]
<1>1. /\ Works(d) /\ drains[d].step = "loading" /\ drains[d].files # {} /\ DOMAIN drains = Drainers
      /\ born' = born
  BY DEF LoadNext, Works, IInv, Shape
<1>2. drains[d] \in Tasks /\ Sized(d)
  BY <1>1, SizesOK
<1>3. SUFFICES ASSUME Works(d)' PROVE <<ToDo(d)', ToDo(d)>> \in ToDoOrder
  BY <1>1
<1>4. Sized(d)'
  BY <1>3 DEF SizedRight
<1>5. e \in drains[d].files /\ drains[d].files \subseteq Events
  <2>1. drains[d].files \in SUBSET Nat
    BY <1>2 DEF Sized, Events
  <2> QED
    BY <1>1, <1>2, <2>1, MinIsLeast DEF Sized
<1> HIDE DEF e
<1>6. /\ rest.files = drains[d].files \ {e} /\ rest.chunk = drains[d].chunk /\ rest.left = drains[d].left
      /\ rest \in Tasks
  BY <1>2 DEF Tasks
<1> HIDE DEF rest
<1>7. ASSUME drains'[d].files = drains[d].files \ {e}, drains[d].left => drains'[d].left,
             ~drains'[d].left => Unseen(d)' \subseteq Unseen(d)
      PROVE  <<ToDo(d)', ToDo(d)>> \in ToDoOrder
  <2>1. Looks(d)' <= Looks(d)
    BY <1>1, <1>2, <1>4, <1>7, LooksKept
  <2>2. drains'[d].files \subseteq drains[d].files /\ drains'[d].files # drains[d].files
    BY <1>5, <1>7
  <2> QED
    BY <1>2, <1>4, <2>1, <2>2, Lower
<1>8. CASE /\ e \notin Files
           /\ drains' = [drains EXCEPT ![d] = [rest EXCEPT !.left = TRUE]]
           /\ UNCHANGED <<spool, dropped>>
  <2>1. drains'[d].files = drains[d].files \ {e} /\ drains'[d].left = TRUE
    BY <1>1, <1>6, <1>8 DEF Tasks
  <2> QED
    BY <1>7, <2>1
<1>9. CASE /\ e \in Files \cap old
           /\ spool' = Without(spool, {e}) /\ dropped' = dropped \cup {e}
           /\ drains' = [drains EXCEPT ![d] = rest]
  <2>1. drains'[d].files = drains[d].files \ {e} /\ drains'[d].left = drains[d].left
        /\ drains'[d].chunk = drains[d].chunk
    BY <1>1, <1>6, <1>9
  <2>2. Files' = Files \ {e} /\ Memory(d)' = Memory(d)
    BY <1>9, <2>1 DEF Files, Without, Memory
  <2> QED
    BY <1>7, <2>1, <2>2 DEF Unseen
<1>10. CASE /\ e \in (Files \ old) \cap Malformed
            /\ bump_or_drop(e, spool[e], spool)
            /\ drains' = [drains EXCEPT ![d] = [rest EXCEPT !.left = @ \/ spool[e] + 1 < MAX_ATTEMPTS]]
  <2> DEFINE left == rest.left \/ spool[e] + 1 < MAX_ATTEMPTS
  <2>1. drains'[d].files = drains[d].files \ {e} /\ drains'[d].left = left
        /\ drains'[d].chunk = drains[d].chunk
    BY <1>1, <1>6, <1>10 DEF Tasks
  <2>2. spool[e] \in Nat /\ MAX_ATTEMPTS \in Nat
    <3>1. MAX_ATTEMPTS - 1 \in Nat /\ MAX_ATTEMPTS \in Nat
      BY SpoolAssumption
    <3> QED
      BY <1>10, <3>1, EntryFacts DEF Typed, Files
  <2>3. ~left => Files' = Files \ {e}
    BY <1>10, <2>2 DEF bump_or_drop, Files, Without
  <2>4. Memory(d)' = Memory(d)
    BY <2>1 DEF Memory
  <2>5. drains[d].left => left
    BY <1>6
  <2> HIDE DEF left
  <2> QED
    BY <1>7, <2>1, <2>3, <2>4, <2>5 DEF Unseen
<1>11. CASE /\ e \in Files \ (old \cup Malformed)
            /\ drains' = [drains EXCEPT ![d] =
                   IF Fits(d, e)
                   THEN [rest EXCEPT !.chunk = [x \in DOMAIN @ \cup {e} |-> IF x = e THEN spool[e] ELSE @[x]]]
                   ELSE [drains[d] EXCEPT !.step = "posting"]]
            /\ UNCHANGED <<spool, dropped>>
  <2> DEFINE c == [x \in DOMAIN rest.chunk \cup {e} |-> IF x = e THEN spool[e] ELSE rest.chunk[x]]
  <2>1. drains' = [drains EXCEPT ![d] = IF Fits(d, e) THEN [rest EXCEPT !.chunk = c]
                                                      ELSE [drains[d] EXCEPT !.step = "posting"]]
    BY <1>11
  <2>2. DOMAIN c = DOMAIN rest.chunk \cup {e}
    OBVIOUS
  <2> HIDE DEF c
  <2>3. CASE Fits(d, e)
    <3>1. /\ drains'[d].files = drains[d].files \ {e} /\ drains'[d].left = drains[d].left
          /\ DOMAIN drains'[d].chunk = DOMAIN drains[d].chunk \cup {e}
      BY <1>1, <1>6, <2>1, <2>2, <2>3 DEF Tasks
    <3>2. Files' = Files /\ Memory(d)' = Memory(d) \cup {e}
      BY <1>11, <3>1 DEF Files, Memory
    <3> QED
      BY <1>5, <1>7, <3>1, <3>2 DEF Unseen
  <2>4. CASE ~Fits(d, e)
    <3>1. /\ drains'[d].step = "posting" /\ drains'[d].files = drains[d].files
          /\ drains'[d].left = drains[d].left /\ drains'[d].chunk = drains[d].chunk
      BY <1>1, <1>2, <2>1, <2>4 DEF Tasks
    <3>2. Files' = Files /\ Memory(d)' = Memory(d)
      BY <1>11, <3>1 DEF Files, Memory
    <3>3. Memory(d) # {}
      <4>1. Limit(d) \in Nat \ {0}
        BY SpoolAssumption DEF Limit
      <4> QED
        BY <2>4, <4>1, FS_EmptySet DEF Fits, Memory
    <3>4. Rank(d) = 4 /\ Rank(d)' = 3
      BY <1>1, <3>1, <3>3 DEF Rank
    <3>5. Looks(d)' <= Looks(d)
      BY <1>1, <1>2, <1>4, <3>1, <3>2, LooksKept DEF Unseen
    <3> QED
      BY <1>2, <1>4, <3>1, <3>2, <3>4, <3>5, Lower
  <2> QED
    BY <2>3, <2>4
<1> QED
  BY <1>8, <1>9, <1>10, <1>11 DEF LoadNext, e, rest

\* A step inside a request: files and entries stay, the place is a later one.
LEMMA PlaceRuns ==
  ASSUME Typed, IInv, SizedRight', NEW d \in Drainers, Works(d), Works(d)',
         Files' = Files, born' = born, drains'[d].files = drains[d].files,
         drains'[d].left = drains[d].left, drains'[d].chunk = drains[d].chunk,
         Rank(d)' < Rank(d)
  PROVE  <<ToDo(d)', ToDo(d)>> \in ToDoOrder
<1>1. Sized(d) /\ Sized(d)'
  BY SizesOK DEF SizedRight
<1>2. Memory(d)' = Memory(d)
  BY DEF Memory
<1>3. Looks(d)' <= Looks(d)
  BY <1>1, <1>2, LooksKept DEF Unseen
<1> QED
  BY <1>1, <1>2, <1>3, Lower

LEMMA RequestRuns ==
  ASSUME Typed, IInv, SizedRight', NEW d \in Drainers,
         LoadEnds(d) \/ Unsupported(d) \/ SinglesEnd(d) \/ handle_hook_batch(d) \/ handle_hook(d)
  PROVE  Works(d) /\ (Works(d)' => <<ToDo(d)', ToDo(d)>> \in ToDoOrder)
<1>1. /\ Works(d) /\ DOMAIN drains = Drainers /\ Files' = Files /\ born' = born
  BY DEF LoadEnds, Unsupported, SinglesEnd, handle_hook_batch, handle_hook, Works, IInv, Shape, Files
<1>2. drains[d] \in Tasks
  BY <1>1, SizesOK
<1>3. \/ /\ drains[d].step = "loading" /\ Memory(d) # {}
         /\ drains' = [drains EXCEPT ![d].step = "posting"]
      \/ /\ drains[d].step = "posting"
         /\ drains' = [drains EXCEPT ![d].step = "single", ![d].batch = FALSE]
      \/ /\ drains[d].step = "single" /\ Memory(d) = {}
         /\ drains' = [drains EXCEPT ![d].step = "loading"]
      \/ /\ drains[d].step \in {"posting", "single"}
         /\ \E reply : drains' = [drains EXCEPT ![d].step = "answered", ![d].reply = reply]
  <2>1. CASE handle_hook_batch(d)
    BY <2>1 DEF handle_hook_batch
  <2>2. CASE handle_hook(d)
    BY <2>2 DEF handle_hook
  <2> QED
    BY <2>1, <2>2 DEF LoadEnds, Unsupported, SinglesEnd, Memory
<1>4. /\ drains'[d].files = drains[d].files /\ drains'[d].left = drains[d].left
      /\ drains'[d].chunk = drains[d].chunk
      /\ \/ drains[d].step = "loading" /\ Memory(d) # {} /\ drains'[d].step = "posting"
         \/ drains[d].step = "posting" /\ drains'[d].step = "single"
         \/ drains[d].step = "single" /\ Memory(d) = {} /\ drains'[d].step = "loading"
         \/ drains[d].step \in {"posting", "single"} /\ drains'[d].step = "answered"
  BY <1>1, <1>2, <1>3 DEF Tasks
<1>5. Memory(d)' = Memory(d)
  BY <1>4 DEF Memory
<1>6. Rank(d)' < Rank(d)
  BY <1>4, <1>5 DEF Rank
<1> QED
  BY <1>1, <1>4, <1>6, PlaceRuns

LEMMA PassEndRuns ==
  ASSUME Typed, IInv, SizedRight', NEW d \in Drainers, PassEnds(d)
  PROVE  Works(d) /\ (Works(d)' => <<ToDo(d)', ToDo(d)>> \in ToDoOrder)
<1>1. /\ Works(d) /\ DOMAIN drains = Drainers /\ Files' = Files /\ born' = born
      /\ drains[d].files = {} /\ Memory(d) = {}
  BY DEF PassEnds, Works, IInv, Shape, Files, Memory
<1>2. SUFFICES ASSUME Works(d)' PROVE <<ToDo(d)', ToDo(d)>> \in ToDoOrder
  BY <1>1
<1>3. ~drains[d].left /\ Files # {} /\ drains' = [drains EXCEPT ![d] = Pass("background")]
  BY <1>1, <1>2 DEF PassEnds, Ends, Works, Idle
<1>4. drains'[d].left = FALSE /\ drains'[d].files = Files /\ DOMAIN drains'[d].chunk = {}
  BY <1>1, <1>3 DEF Pass
<1>5. Unseen(d) = Files /\ Unseen(d)' = {}
  BY <1>1, <1>4 DEF Unseen
<1>6. Sized(d) /\ Sized(d)'
  BY <1>1, <1>2, SizesOK DEF SizedRight
<1>7. Cardinality(Unseen(d)) \in Nat \ {0} /\ Cardinality(Unseen(d)') = 0
  BY <1>3, <1>5, <1>6, EventSetsAreFinite, FS_EmptySet DEF Sized
<1>8. /\ Looks(d) = 1 + (MaxEvents - born) + Cardinality(Unseen(d))
      /\ Looks(d)' = 1 + (MaxEvents - born) + Cardinality(Unseen(d)')
  BY <1>1, <1>3, <1>4 DEF Looks
<1>9. Looks(d)' < Looks(d)
  BY <1>6, <1>7, <1>8, SpoolAssumption DEF Sized
<1>10. ToDo(d)[1] = Looks(d) /\ ToDo(d)'[1] = Looks(d)'
  BY DEF ToDo
<1> DEFINE f == ToDo(d)'
           g == ToDo(d)
<1>11. f \in ToDos /\ g \in ToDos /\ f[1] < g[1] /\ \A i \in 1..(1 - 1) : f[i] = g[i]
  BY <1>6, <1>9, <1>10 DEF Sized
<1> HIDE DEF f, g
<1>12. <<f, g>> \in ToDoOrder
  BY <1>11, LessAt
<1> QED
  BY <1>12 DEF f, g

LEMMA BatchAnsweredRuns ==
  ASSUME Typed, IInv, SizedRight', NEW d \in Drainers, BatchAnswered(d)
  PROVE  Works(d) /\ (Works(d)' => <<ToDo(d)', ToDo(d)>> \in ToDoOrder)
<1> DEFINE done == Done(d)
           rest == Memory(d) \ done
           reply == drains[d].reply
           files == Without(spool, done)
           charged == IF reply.status = "saturated" \/ rest = {} THEN NULL
                      ELSE IF reply.indices # NULL THEN reply.failed ELSE Min(rest)
           breaks == reply.status # "ok" \/ charged # NULL
           bumped == charged # NULL /\ drains[d].chunk[charged] + 1 < MAX_ATTEMPTS
           listed == drains[d].files
           left == drains[d].left \/ bumped \/ rest \ {charged} # {} \/ (breaks /\ listed # {})
           next == [drains[d] EXCEPT !.step = "loading", !.chunk = [e \in {} |-> 0],
                        !.files = IF breaks THEN {} ELSE @, !.left = left, !.reply = NULL]
<1>1. /\ Works(d) /\ DOMAIN drains = Drainers /\ born' = born /\ drains[d].step = "answered" /\ drains[d].batch
  BY DEF BatchAnswered, Works, IInv, Shape
<1>2. SUFFICES ASSUME Works(d)' PROVE <<ToDo(d)', ToDo(d)>> \in ToDoOrder
  BY <1>1
<1>3. /\ IF charged = NULL THEN spool' = files /\ UNCHANGED dropped
                           ELSE bump_or_drop(charged, drains[d].chunk[charged], files)
      /\ drains' = [drains EXCEPT ![d] = next]
  BY <1>1, Zenon DEF BatchAnswered, Done, Memory
<1>4. drains[d] \in Tasks /\ Sized(d) /\ Sized(d)'
  BY <1>1, <1>2, SizesOK DEF SizedRight
<1>5. charged # NULL => charged \in rest
  <2>1. reply.failed \in rest \cup {NULL} /\ rest \in SUBSET Nat
    BY <1>1, <1>4 DEF IInv, Remembered, Sized, Events
  <2> QED
    BY <2>1, MinIsLeast
<1> HIDE DEF breaks, left, charged
<1>6. /\ next.step = "loading" /\ next.chunk = [e \in {} |-> 0] /\ next.left = left
      /\ next.files = IF breaks THEN {} ELSE listed
  BY <1>4 DEF Tasks
<1> HIDE DEF next
<1>7. /\ drains'[d].step = "loading" /\ drains'[d].left = left /\ Memory(d)' = {}
      /\ drains'[d].files = IF breaks THEN {} ELSE listed
  BY <1>1, <1>3, <1>6 DEF Memory
<1>8. ASSUME ~left
      PROVE  /\ ~drains[d].left /\ Memory(d) \subseteq done \cup {charged}
             /\ drains'[d].files = listed
             /\ charged # NULL => ~(drains[d].chunk[charged] + 1 < MAX_ATTEMPTS)
  BY <1>7, <1>8 DEF left
<1>9. ASSUME ~left PROVE Files' \subseteq Files \ Memory(d)
  <2>1. DOMAIN files = Files \ done
    BY DEF Files, Without
  <2>2. CASE charged = NULL
    <3>1. rest = {}
      BY <1>4, <1>8, <1>9, <2>2, SpoolAssumption DEF Sized
    <3> QED
      BY <1>3, <2>1, <2>2, <3>1 DEF Files
  <2>3. CASE charged # NULL
    <3>1. charged \in Memory(d)
      BY <1>5, <2>3
    <3>2. drains[d].chunk[charged] \in Nat /\ MAX_ATTEMPTS \in Nat
      BY <1>4, <3>1, TypedTask, TaskFacts, EntryFacts, SpoolAssumption DEF Memory
    <3>3. spool' = Without(files, {charged})
      BY <1>3, <1>8, <1>9, <2>3, <3>2 DEF bump_or_drop
    <3>4. Files' = DOMAIN files \ {charged}
      BY <3>3 DEF Files, Without
    <3> QED
      BY <1>8, <1>9, <2>1, <3>4
  <2> QED
    BY <2>2, <2>3
<1>10. Looks(d)' <= Looks(d)
  <2>1. ~left => Unseen(d)' \subseteq Unseen(d)
    BY <1>7, <1>8, <1>9 DEF Unseen
  <2>2. drains[d].left => left
    BY DEF left
  <2> QED
    BY <1>1, <1>4, <1>7, <2>1, <2>2, LooksKept
<1>11. Memory(d)' = Memory(d) => Rank(d)' < Rank(d)
  BY <1>1, <1>7 DEF Rank
<1> QED
  BY <1>4, <1>7, <1>10, <1>11, Lower

LEMMA SingleAnsweredRuns ==
  ASSUME Typed, IInv, SizedRight', NEW d \in Drainers, SingleAnswered(d)
  PROVE  Works(d) /\ (Works(d)' => <<ToDo(d)', ToDo(d)>> \in ToDoOrder)
<1> DEFINE e == Min(Memory(d))
           status == drains[d].reply.status
           left == drains[d].left \/ status = "saturated"
                   \/ (status = "failed" /\ drains[d].chunk[e] + 1 < MAX_ATTEMPTS)
           next == [drains[d] EXCEPT !.step = "single", !.chunk = Without(@, {e}), !.reply = NULL, !.left = left]
<1>1. /\ Works(d) /\ DOMAIN drains = Drainers /\ born' = born /\ drains[d].step = "answered" /\ ~drains[d].batch
  BY DEF SingleAnswered, Works, IInv, Shape
<1>2. SUFFICES ASSUME Works(d)' PROVE <<ToDo(d)', ToDo(d)>> \in ToDoOrder
  BY <1>1
<1>3. drains' = [drains EXCEPT ![d] = next]
  BY Zenon DEF SingleAnswered, Memory
<1>4. drains[d] \in Tasks /\ Sized(d) /\ Sized(d)'
  BY <1>1, <1>2, SizesOK DEF SizedRight
<1>5. Memory(d) # {} /\ Memory(d) \in SUBSET Nat /\ status \in {"ok", "saturated", "failed"}
  BY <1>1, <1>4 DEF IInv, Remembered, Sized, Events
<1>6. e \in Memory(d)
  BY <1>5, MinIsLeast
<1>7. MAX_ATTEMPTS \in Nat /\ drains[d].chunk[e] \in Nat
  <2>1. MAX_ATTEMPTS \in Nat /\ drains[d].chunk \in Entries(MAX_ATTEMPTS)
    BY <1>4, TypedTask, TaskFacts, SpoolAssumption
  <2> QED
    BY <1>6, <2>1, EntryFacts DEF Memory
<1>8. ~left => ~drains[d].left /\ Files' = Files \ {e}
  <2>1. CASE status = "ok"
    BY <2>1 DEF SingleAnswered, Files, Without, Memory
  <2>2. CASE status = "saturated"
    BY <2>2
  <2>3. CASE status = "failed"
    <3>1. bump_or_drop(e, drains[d].chunk[e], spool)
      BY <2>3 DEF SingleAnswered, Memory
    <3> HIDE DEF e
    <3>2. drains[d].chunk[e] + 1 >= MAX_ATTEMPTS => Files' = Files \ {e}
      BY <3>1 DEF bump_or_drop, Files, Without
    <3> QED
      BY <1>7, <2>3, <3>2
  <2> QED
    BY <1>5, <2>1, <2>2, <2>3
<1>9. drains[d].left => left
  OBVIOUS
<1> HIDE DEF e, left
<1>10. next.chunk = Without(drains[d].chunk, {e}) /\ next.left = left /\ next.files = drains[d].files
  BY <1>4 DEF Tasks
<1> HIDE DEF next
<1>11. /\ drains'[d].left = left /\ drains'[d].files = drains[d].files
       /\ drains'[d].chunk = Without(drains[d].chunk, {e})
  BY <1>1, <1>3, <1>10
<1>12. Memory(d)' = Memory(d) \ {e}
  BY <1>11 DEF Memory, Without
<1>13. Looks(d)' <= Looks(d)
  <2>1. ~left => Unseen(d)' \subseteq Unseen(d)
    BY <1>8, <1>11, <1>12 DEF Unseen
  <2> QED
    BY <1>1, <1>4, <1>8, <1>9, <1>11, <2>1, LooksKept
<1> QED
  BY <1>4, <1>6, <1>11, <1>12, <1>13, Lower

LEMMA DrainRuns ==
  ASSUME Typed, IInv, SizedRight', NEW d \in Drainers, Drain(d)
  PROVE  Works(d) /\ (Works(d)' => <<ToDo(d)', ToDo(d)>> \in ToDoOrder)
  BY LoadNextRuns, RequestRuns, PassEndRuns, BatchAnsweredRuns, SingleAnsweredRuns DEF Drain

-----------------------------------------------------------------------------
\* What the hooks and the other drains do meanwhile.
LEMMA OthersLeaveIt ==
  ASSUME Typed, IInv, SizedRight', NEW d \in Drainers, Works(d), Works(d)',
         drains'[d] = drains[d], Files' = Files, born' = born
  PROVE  drains'[d] = drains[d] /\ Looks(d)' <= Looks(d)
<1>1. Memory(d)' = Memory(d) /\ Sized(d) /\ Sized(d)' /\ drains[d].left \in BOOLEAN
  BY SizesOK DEF SizedRight, Sized, Memory
<1> QED
  BY <1>1, LooksKept DEF Unseen

LEMMA EnqueueLeavesIt ==
  ASSUME Typed, IInv, SizedRight', NEW d \in Drainers, Works(d), Works(d)',
         NEW kind \in Kinds \cup {"none"}, Enqueue(kind)
  PROVE  drains'[d] = drains[d] /\ Looks(d)' <= Looks(d)
<1> DEFINE e == born + 1
           files == Files \cup {e}
<1>1. /\ born' = e /\ Files' = files \ Pruned(files) /\ StartDrain(kind, files \ Pruned(files))
      /\ DOMAIN drains = Drainers
  BY DEF Enqueue, Files, IInv, Shape
<1>2. drains'[d] = drains[d]
  BY <1>1 DEF StartDrain, Works, Active
<1>3. Memory(d)' = Memory(d)
  BY <1>2 DEF Memory
<1>4. Sized(d) /\ Sized(d)'
  BY SizesOK DEF SizedRight
<1>5. Unseen(d)' \subseteq Unseen(d) \cup {e}
  BY <1>1, <1>2, <1>3 DEF Unseen
<1>6. /\ IsFiniteSet(Unseen(d)) /\ IsFiniteSet(Unseen(d) \cup {e})
      /\ Cardinality(Unseen(d)) \in Nat /\ Cardinality(Unseen(d)') \in Nat
      /\ Cardinality(Unseen(d) \cup {e}) <= Cardinality(Unseen(d)) + 1
      /\ Cardinality(Unseen(d) \cup {e}) \in Nat
  BY <1>4, EventSetsAreFinite, FS_AddElement, FS_CardinalityType DEF Sized
<1>7. Cardinality(Unseen(d)') <= Cardinality(Unseen(d) \cup {e})
  BY <1>5, <1>6, FS_Subset
<1>8. Looks(d)' <= Looks(d)
  <2>1. CASE drains[d].left
    BY <1>2, <2>1 DEF Looks
  <2>2. CASE ~drains[d].left
    <3>1. /\ Looks(d)' = 1 + (MaxEvents - (born + 1)) + Cardinality(Unseen(d)')
          /\ Looks(d) = 1 + (MaxEvents - born) + Cardinality(Unseen(d))
      BY <1>1, <1>2, <2>2 DEF Looks
    <3>2. born \in Nat /\ MaxEvents \in Nat
      BY <1>4, SpoolAssumption DEF Sized
    <3> QED
      BY <1>6, <1>7, <3>1, <3>2
  <2> QED
    BY <2>1, <2>2
<1> QED
  BY <1>2, <1>8

LEMMA NextRunsDown == Typed /\ IInv /\ SizedRight' /\ [Next]_spoolVars => SpoolRunsDown
<1> SUFFICES ASSUME Typed, IInv, SizedRight', [Next]_spoolVars, NEW d \in Drainers, Works(d), Works(d)'
             PROVE  /\ Drain(d) => <<ToDo(d)', ToDo(d)>> \in ToDoOrder
                    /\ ~Drain(d) => drains'[d] = drains[d] /\ Looks(d)' <= Looks(d)
  BY DEF SpoolRunsDown
<1>1. CASE Drain(d)
  BY <1>1, DrainRuns
<1>2. CASE ~Drain(d)
  <2>1. ASSUME NEW kind \in Kinds \cup {"none"}, Enqueue(kind)
        PROVE  drains'[d] = drains[d] /\ Looks(d)' <= Looks(d)
    BY <2>1, EnqueueLeavesIt
  <2>2. ASSUME NEW x \in Drainers, Drain(x) PROVE FALSE
    <3>1. Works(x)
      BY <2>2, DrainRuns
    <3> QED
      BY <1>2, <2>2, <3>1, Alone
  <2>3. ASSUME UNCHANGED <<spool, born, drains>>
        PROVE  drains'[d] = drains[d] /\ Looks(d)' <= Looks(d)
    BY <2>3, OthersLeaveIt DEF Files
  <2>4. ASSUME NEW x \in Drainers, GivesUp(x) \/ Acquire(x) \/ BudgetEnds(x) \/ DrainDies(x)
        PROVE  drains'[d] = drains[d] /\ Looks(d)' <= Looks(d)
    <3>1. /\ UNCHANGED <<spool, born>> /\ DOMAIN drains = Drainers
          /\ \E r : drains' = [drains EXCEPT ![x] = r]
      BY <2>4 DEF GivesUp, Acquire, BudgetEnds, DrainDies, IInv, Shape
    <3>2. x = d => FALSE
      <4>1. Works(d) /\ lock = d /\ lock # NULL
        BY Alone, SpoolAssumption
      <4> QED
        BY <2>4, <3>1, <4>1 DEF GivesUp, Acquire, BudgetEnds, DrainDies, Works, Idle
    <3>3. drains'[d] = drains[d]
      BY <3>1, <3>2
    <3> QED
      BY <3>1, <3>3, OthersLeaveIt DEF Files
  <2>5. ASSUME \/ \E e \in Events : Ages(e)
               \/ Recovers
               \/ UNCHANGED spoolVars
        PROVE  UNCHANGED <<spool, born, drains>>
    BY <2>5 DEF Ages, Recovers, spoolVars
  <2> QED
    BY <1>2, <2>1, <2>2, <2>3, <2>4, <2>5 DEF Next
<1> QED
  BY <1>1, <1>2

\* A drain comes to its end by itself, also a background drain that looks again and
\* again: every step of it ends it or leaves it less to do, in an order without infinite
\* descent, and hooks that go on writing events, evictions and the other drains never
\* give it more. BoundaryFlushes rests on it: its other half is that drains step at all.
THEOREM SpoolDrainsRunDown == Spec => [][SpoolRunsDown]_spoolVars
<1>1. Typed /\ IInv => SizedRight
  BY SizesOK DEF SizedRight
<1> QED
  BY <1>1, SpecTyped, NextRunsDown, PTL DEF Spec
=============================================================================
