---------------------------- MODULE WaitsProofs -----------------------------
(***************************************************************************)
(* Proofs about Waits: what meloop_ev_more() says is never more than the   *)
(* size of the table, and never less than the number of counted waits that *)
(* can still come back.  The lemmas are about the operations, so that the  *)
(* proofs of the programs built on Waits use them too.                     *)
(***************************************************************************)
EXTENDS Waits, FiniteSetTheorems, FunctionTheorems, TLAPS

\* The counted waits that are registered, and those that are reported.
CountedArmed == {fd \in Fds : armed[fd] # NULL /\ armed[fd].counted}
CountedBatch == {ev \in batch : ev.counted}

(***************************************************************************)
(* The type invariant is not inductive: take decrements the counter.  It   *)
(* stays a natural number because each counted wait has its own share of   *)
(* it, and poll moves shares without making any.                           *)
(***************************************************************************)
ShareInv ==
  /\ IsFiniteSet(CountedArmed) /\ IsFiniteSet(CountedBatch)
  /\ Cardinality(CountedArmed) + Cardinality(CountedBatch) <= count

WaitsInv == WaitsTypeOK /\ ShareInv

-----------------------------------------------------------------------------
(* The operations.                                                         *)

\* What arm does besides counting.
LEMMA ArmTypes ==
  ASSUME WaitsInv, NEW fd \in Fds, NEW job \in Jobs, NEW op \in Op,
         arm(fd, job, op)
  PROVE  /\ armed' \in [Fds -> Wait \cup {NULL}]
         /\ armed'[fd] # NULL
         /\ armed'[fd].job = job
         /\ armed'[fd].counted <=> count < EV_MAXEVENTS
         /\ \A g \in Fds : g # fd => armed'[g] = armed[g]
  <1>1. armed \in [Fds -> Wait \cup {NULL}]
    BY DEF WaitsInv, WaitsTypeOK
  <1>2. ASSUME NEW counted \in BOOLEAN, Counted = counted
        PROVE  /\ armed' \in [Fds -> Wait \cup {NULL}]
               /\ armed'[fd] = [job |-> job, op |-> op, counted |-> counted]
               /\ armed'[fd] # NULL
               /\ \A g \in Fds : g # fd => armed'[g] = armed[g]
    <2>1. [job |-> job, op |-> op, counted |-> counted] \in Wait
      BY DEF Wait
    <2>2. armed' = [armed EXCEPT ![fd] =
                      [job |-> job, op |-> op, counted |-> counted]]
      BY <1>2 DEF arm
    <2> QED
      BY <1>1, <2>1, <2>2, WaitsAssumption
  <1>3. CASE count < EV_MAXEVENTS
    <2>1. Counted = TRUE
      BY <1>3 DEF Counted
    <2>2. armed'[fd] = [job |-> job, op |-> op, counted |-> TRUE]
      BY <1>2, <2>1
    <2>3. /\ armed' \in [Fds -> Wait \cup {NULL}]
          /\ armed'[fd] # NULL
          /\ \A g \in Fds : g # fd => armed'[g] = armed[g]
      BY <1>2, <2>1
    <2>4. armed'[fd].job = job /\ armed'[fd].counted
      BY <2>2
    <2> QED
      BY <1>3, <2>3, <2>4
  <1>4. CASE ~(count < EV_MAXEVENTS)
    <2>1. Counted = FALSE
      BY <1>4 DEF Counted
    <2>2. armed'[fd] = [job |-> job, op |-> op, counted |-> FALSE]
      BY <1>2, <2>1
    <2>3. /\ armed' \in [Fds -> Wait \cup {NULL}]
          /\ armed'[fd] # NULL
          /\ \A g \in Fds : g # fd => armed'[g] = armed[g]
      BY <1>2, <2>1
    <2>4. armed'[fd].job = job /\ ~armed'[fd].counted
      BY <2>2
    <2> QED
      BY <1>4, <2>3, <2>4
  <1> QED
    BY <1>3, <1>4

\* A wait takes a share of the counter if it is counted, and none otherwise.
LEMMA ArmInv ==
  ASSUME WaitsInv, NEW fd \in Fds, NEW job \in Jobs, NEW op \in Op,
         arm(fd, job, op)
  PROVE  WaitsInv'
  <1>1. /\ epfd' = epfd /\ batch' = batch /\ count \in 0..EV_MAXEVENTS
        /\ count' = IF count < EV_MAXEVENTS THEN count + 1 ELSE count
    BY DEF arm, enter, Counted, WaitsInv, WaitsTypeOK
  <1>2. /\ armed' \in [Fds -> Wait \cup {NULL}]
        /\ armed'[fd] # NULL
        /\ armed'[fd].counted <=> count < EV_MAXEVENTS
        /\ \A g \in Fds : g # fd => armed'[g] = armed[g]
    BY ArmTypes
  <1>3. WaitsTypeOK'
    BY <1>1, <1>2, WaitsAssumption DEF WaitsInv, WaitsTypeOK
  <1>4. /\ IsFiniteSet(CountedArmed) /\ Cardinality(CountedArmed) \in Nat
        /\ IsFiniteSet(CountedBatch) /\ Cardinality(CountedBatch) \in Nat
        /\ Cardinality(CountedArmed) + Cardinality(CountedBatch) <= count
        /\ CountedBatch' = CountedBatch
    BY <1>1, FS_CardinalityType DEF WaitsInv, ShareInv, CountedBatch
  <1>5. CASE count < EV_MAXEVENTS
    <2>1. CountedArmed' = CountedArmed \cup {fd}
      BY <1>2, <1>5 DEF CountedArmed
    <2>2. /\ IsFiniteSet(CountedArmed')
          /\ Cardinality(CountedArmed') =
               IF fd \in CountedArmed THEN Cardinality(CountedArmed)
               ELSE Cardinality(CountedArmed) + 1
      BY <1>4, <2>1, FS_AddElement
    <2> QED
      BY <1>1, <1>3, <1>4, <1>5, <2>2, WaitsAssumption DEF WaitsInv, ShareInv
  <1>6. CASE ~(count < EV_MAXEVENTS)
    <2>1. CountedArmed' = CountedArmed \ {fd}
      BY <1>2, <1>6 DEF CountedArmed
    <2>2. /\ IsFiniteSet(CountedArmed')
          /\ Cardinality(CountedArmed') =
               IF fd \in CountedArmed THEN Cardinality(CountedArmed) - 1
               ELSE Cardinality(CountedArmed)
      BY <1>4, <2>1, FS_RemoveElement
    <2> QED
      BY <1>1, <1>3, <1>4, <1>6, <2>2, WaitsAssumption DEF WaitsInv, ShareInv
  <1> QED
    BY <1>5, <1>6

\* A refused wait is counted, and has no share.
LEMMA RefuseInv ==
  ASSUME WaitsInv, refuse
  PROVE  WaitsInv'
  <1>1. /\ epfd' = epfd /\ batch' = batch /\ armed' = armed
        /\ count \in 0..EV_MAXEVENTS
        /\ count' = IF count < EV_MAXEVENTS THEN count + 1 ELSE count
    BY DEF refuse, enter, Counted, WaitsInv, WaitsTypeOK
  <1>2. WaitsTypeOK'
    BY <1>1, WaitsAssumption DEF WaitsInv, WaitsTypeOK
  <1>3. CountedBatch' = CountedBatch /\ CountedArmed' = CountedArmed
    BY <1>1 DEF CountedBatch, CountedArmed
  <1>4. Cardinality(CountedArmed) \in Nat /\ Cardinality(CountedBatch) \in Nat
    BY FS_CardinalityType DEF WaitsInv, ShareInv
  <1> QED
    BY <1>1, <1>2, <1>3, <1>4, WaitsAssumption DEF WaitsInv, ShareInv

\* What poll makes of the reported waits.
LEMMA PollTypes ==
  ASSUME WaitsInv, NEW reported \in SUBSET Fds, poll(reported)
  PROVE  /\ epfd' = epfd /\ count' = count /\ batch = {}
         /\ \A fd \in reported : armed[fd] # NULL
         /\ armed' \in [Fds -> Wait \cup {NULL}]
         /\ \A fd \in Fds :
              armed'[fd] = IF fd \in reported THEN NULL ELSE armed[fd]
         /\ batch' \subseteq [fd : Fds, job : Jobs, counted : BOOLEAN, flag : Flag]
         /\ \A ev \in batch' : /\ ev.fd \in reported
                               /\ ev.job = armed[ev.fd].job
                               /\ ev.counted = armed[ev.fd].counted
         /\ \A fd \in reported : \E ev \in batch' : ev.fd = fd
         /\ \A ev1, ev2 \in batch' : ev1.fd = ev2.fd => ev1 = ev2
  <1>1. PICK flag \in [reported -> Flag] :
          batch' = {[fd |-> fd, job |-> armed[fd].job, flag |-> flag[fd],
                     counted |-> armed[fd].counted] : fd \in reported}
    BY DEF poll
  <1>2. /\ epfd' = epfd /\ count' = count /\ batch = {}
        /\ \A fd \in reported : armed[fd] # NULL
        /\ armed' = [fd \in Fds |-> IF fd \in reported THEN NULL ELSE armed[fd]]
    BY DEF poll
  <1>3. armed \in [Fds -> Wait \cup {NULL}]
    BY DEF WaitsInv, WaitsTypeOK
  <1>4. \A fd \in reported : armed[fd] \in Wait
    BY <1>2, <1>3
  <1>5. \A fd \in reported : armed[fd].job \in Jobs /\ armed[fd].counted \in BOOLEAN
    BY <1>4 DEF Wait
  <1>6. batch' \subseteq [fd : Fds, job : Jobs, counted : BOOLEAN, flag : Flag]
    BY <1>1, <1>5
  <1>7. ASSUME NEW ev \in batch'
        PROVE  /\ ev.fd \in reported
               /\ ev.job = armed[ev.fd].job
               /\ ev.counted = armed[ev.fd].counted
               /\ ev = [fd |-> ev.fd, job |-> armed[ev.fd].job,
                        flag |-> flag[ev.fd], counted |-> armed[ev.fd].counted]
    BY <1>1
  <1>8. ASSUME NEW fd \in reported
        PROVE  \E ev \in batch' : ev.fd = fd
    <2>1. [fd |-> fd, job |-> armed[fd].job, flag |-> flag[fd],
           counted |-> armed[fd].counted] \in batch'
      BY <1>1
    <2> QED
      BY <2>1
  <1>9. \A ev1, ev2 \in batch' : ev1.fd = ev2.fd => ev1 = ev2
    BY <1>7
  <1> QED
    BY <1>2, <1>3, <1>6, <1>7, <1>8, <1>9

\* The shares of the reported waits go with them.
LEMMA PollInv ==
  ASSUME WaitsInv, NEW reported \in SUBSET Fds, poll(reported)
  PROVE  WaitsInv'
  <1> DEFINE moved == CountedArmed \cap reported
  <1>1. /\ epfd' = epfd /\ count' = count /\ batch = {}
        /\ \A fd \in reported : armed[fd] # NULL
        /\ \A fd \in Fds :
             armed'[fd] = IF fd \in reported THEN NULL ELSE armed[fd]
        /\ \A ev \in batch' : /\ ev.fd \in reported
                              /\ ev.counted = armed[ev.fd].counted
        /\ \A fd \in reported : \E ev \in batch' : ev.fd = fd
        /\ \A ev1, ev2 \in batch' : ev1.fd = ev2.fd => ev1 = ev2
    BY PollTypes
  <1>2. WaitsTypeOK'
    BY <1>1, PollTypes DEF WaitsInv, WaitsTypeOK
  <1>3. CountedArmed' = CountedArmed \ reported
    BY <1>1 DEF CountedArmed
  <1>4. /\ IsFiniteSet(CountedArmed) /\ Cardinality(CountedArmed) \in Nat
        /\ CountedBatch = {} /\ Cardinality(CountedBatch) = 0
        /\ Cardinality(CountedArmed) + Cardinality(CountedBatch) <= count
    BY <1>1, FS_CardinalityType, FS_EmptySet DEF WaitsInv, ShareInv, CountedBatch
  <1>5. /\ IsFiniteSet(moved) /\ Cardinality(moved) \in Nat
        /\ IsFiniteSet(CountedArmed')
        /\ Cardinality(CountedArmed') = Cardinality(CountedArmed) - Cardinality(moved)
    BY <1>3, <1>4, FS_Difference, FS_Intersection, FS_CardinalityType
  <1>6. IsFiniteSet(CountedBatch') /\ Cardinality(CountedBatch') <= Cardinality(moved)
    <2> DEFINE f == [ev \in CountedBatch' |-> ev.fd]
    <2>1. \A ev \in CountedBatch' : ev \in batch' /\ ev.fd \in moved
      BY <1>1 DEF CountedBatch, CountedArmed
    <2>2. f \in [CountedBatch' -> moved]
      BY <2>1
    <2>3. \A ev1, ev2 \in CountedBatch' : f[ev1] = f[ev2] => ev1 = ev2
      BY <1>1, <2>1
    <2>4. f \in Injection(CountedBatch', moved)
      BY <2>2, <2>3 DEF Injection, IsInjective
    <2> QED
      BY <1>5, <2>4, FS_Injection
  <1>7. Cardinality(CountedBatch') \in Nat
    BY <1>6, FS_CardinalityType
  <1>8. count \in Nat
    BY WaitsAssumption DEF WaitsInv, WaitsTypeOK
  <1> QED
    BY <1>1, <1>2, <1>4, <1>5, <1>6, <1>7, <1>8 DEF WaitsInv, ShareInv

\* Dropping a registered wait, as a dearm does, leaves the counter alone.
LEMMA DropInv ==
  ASSUME WaitsInv, NEW fd \in Fds, armed' = [armed EXCEPT ![fd] = NULL],
         UNCHANGED <<epfd, count, batch>>
  PROVE  WaitsInv'
  <1>1. /\ armed' \in [Fds -> Wait \cup {NULL}]
        /\ \A g \in Fds : armed'[g] = IF g = fd THEN NULL ELSE armed[g]
    BY DEF WaitsInv, WaitsTypeOK
  <1>2. WaitsTypeOK'
    BY <1>1 DEF WaitsInv, WaitsTypeOK
  <1>3. CountedArmed' = CountedArmed \ {fd} /\ CountedBatch' = CountedBatch
    BY <1>1 DEF CountedArmed, CountedBatch
  <1>4. /\ IsFiniteSet(CountedArmed) /\ IsFiniteSet(CountedBatch)
        /\ Cardinality(CountedArmed) + Cardinality(CountedBatch) <= count
        /\ count \in Nat
    BY WaitsAssumption DEF WaitsInv, WaitsTypeOK, ShareInv
  <1>5. /\ IsFiniteSet(CountedArmed')
        /\ Cardinality(CountedArmed') =
             IF fd \in CountedArmed THEN Cardinality(CountedArmed) - 1
             ELSE Cardinality(CountedArmed)
    BY <1>3, <1>4, FS_RemoveElement
  <1>6. Cardinality(CountedArmed) \in Nat /\ Cardinality(CountedBatch) \in Nat
    BY <1>4, FS_CardinalityType
  <1> QED
    BY <1>2, <1>3, <1>4, <1>5, <1>6 DEF WaitsInv, ShareInv

\* A handled wait gives its share back.
LEMMA TakeInv ==
  ASSUME WaitsInv, NEW ev \in batch, take(ev)
  PROVE  WaitsInv' /\ (ev.counted => count > 0)
  <1>1. /\ epfd' = epfd /\ batch' = batch \ {ev}
        /\ count' = IF ev.counted THEN count - 1 ELSE count
        /\ \/ armed' = armed
           \/ armed' = [armed EXCEPT ![ev.fd] = NULL]
    BY DEF take
  <1>2. ev \in [fd : Fds, job : Jobs, counted : BOOLEAN, flag : Flag]
    BY DEF WaitsInv, WaitsTypeOK
  <1>3. /\ armed' \in [Fds -> Wait \cup {NULL}]
        /\ \A g \in Fds : armed'[g] \in {armed[g], NULL}
    BY <1>1, <1>2 DEF WaitsInv, WaitsTypeOK
  <1>4. CountedArmed' \in SUBSET CountedArmed
    BY <1>3 DEF CountedArmed
  <1>5. /\ IsFiniteSet(CountedArmed) /\ IsFiniteSet(CountedBatch)
        /\ Cardinality(CountedArmed) + Cardinality(CountedBatch) <= count
        /\ count \in 0..EV_MAXEVENTS
    BY DEF WaitsInv, WaitsTypeOK, ShareInv
  <1>6. /\ IsFiniteSet(CountedArmed')
        /\ Cardinality(CountedArmed') <= Cardinality(CountedArmed)
        /\ Cardinality(CountedArmed') \in Nat /\ Cardinality(CountedArmed) \in Nat
        /\ Cardinality(CountedBatch) \in Nat
    BY <1>4, <1>5, FS_Subset, FS_CardinalityType
  <1>7. CASE ev.counted
    <2>1. ev \in CountedBatch /\ CountedBatch' = CountedBatch \ {ev}
      BY <1>1, <1>7 DEF CountedBatch
    <2>2. /\ IsFiniteSet(CountedBatch')
          /\ Cardinality(CountedBatch') = Cardinality(CountedBatch) - 1
          /\ Cardinality(CountedBatch') \in Nat
      BY <1>5, <2>1, FS_RemoveElement, FS_CardinalityType
    <2>3. count > 0 /\ count' = count - 1 /\ count' \in 0..EV_MAXEVENTS
      BY <1>1, <1>5, <1>6, <1>7, <2>2, WaitsAssumption
    <2>4. WaitsTypeOK'
      BY <1>1, <1>3, <2>3 DEF WaitsInv, WaitsTypeOK
    <2> QED
      BY <1>5, <1>6, <2>2, <2>3, <2>4, WaitsAssumption DEF WaitsInv, ShareInv
  <1>8. CASE ~ev.counted
    <2>1. CountedBatch' = CountedBatch
      BY <1>1, <1>8 DEF CountedBatch
    <2>2. WaitsTypeOK'
      BY <1>1, <1>3, <1>8 DEF WaitsInv, WaitsTypeOK
    <2> QED
      BY <1>1, <1>5, <1>6, <1>8, <2>1, <2>2, WaitsAssumption DEF WaitsInv, ShareInv
  <1> QED
    BY <1>7, <1>8

\* Opening, closing and exiting take no share.
LEMMA EndInv ==
  ASSUME WaitsInv, init \/ exit \/ deinit \/ UNCHANGED waitVars
  PROVE  WaitsInv'
  <1>1. CASE init \/ exit \/ UNCHANGED waitVars
    BY <1>1
    DEF init, exit, waitVars, WaitsInv, WaitsTypeOK, ShareInv, CountedArmed,
        CountedBatch
  <1>2. CASE deinit
    <2>1. /\ epfd' = "closed" /\ batch' = batch /\ count' = count
          /\ armed' = [fd \in Fds |-> NULL]
      BY <1>2 DEF deinit
    <2>2. CountedArmed' = {} /\ CountedBatch' = CountedBatch
      BY <2>1 DEF CountedArmed, CountedBatch
    <2>3. WaitsTypeOK'
      BY <2>1 DEF WaitsInv, WaitsTypeOK
    <2>4. /\ IsFiniteSet(CountedArmed) /\ IsFiniteSet(CountedBatch)
          /\ Cardinality(CountedArmed) \in Nat /\ Cardinality(CountedBatch) \in Nat
          /\ Cardinality(CountedArmed) + Cardinality(CountedBatch) <= count
          /\ count \in Nat
      BY FS_CardinalityType, WaitsAssumption DEF WaitsInv, WaitsTypeOK, ShareInv
    <2>5. IsFiniteSet(CountedArmed') /\ Cardinality(CountedArmed') = 0
      BY <2>2, FS_EmptySet
    <2> QED
      BY <2>1, <2>2, <2>3, <2>4, <2>5 DEF WaitsInv, ShareInv
  <1> QED
    BY <1>1, <1>2

-----------------------------------------------------------------------------
(* The specification.                                                      *)

\* The initial state satisfies the invariant.
LEMMA InitWaitsInv == WaitsInit => WaitsInv
  <1> SUFFICES ASSUME WaitsInit PROVE WaitsInv
    OBVIOUS
  <1>1. WaitsTypeOK
    BY WaitsAssumption DEF WaitsInit, WaitsTypeOK
  <1>2. CountedArmed = {} /\ CountedBatch = {}
    BY DEF WaitsInit, CountedArmed, CountedBatch
  <1> QED
    BY <1>1, <1>2, FS_EmptySet DEF WaitsInit, WaitsInv, ShareInv

\* Every step keeps it.
LEMMA StepWaitsInv == WaitsInv /\ [WaitsNext]_waitVars => WaitsInv'
  <1> SUFFICES ASSUME WaitsInv, [WaitsNext]_waitVars PROVE WaitsInv'
    OBVIOUS
  <1>1. CASE init \/ exit \/ deinit \/ UNCHANGED waitVars
    BY <1>1, EndInv
  <1>2. ASSUME NEW fd \in Fds, NEW job \in Jobs, NEW op \in Op, arm(fd, job, op)
        PROVE  WaitsInv'
    BY <1>2, ArmInv
  <1>3. CASE refuse
    BY <1>3, RefuseInv
  <1>4. ASSUME NEW reported \in SUBSET Fds, poll(reported) PROVE WaitsInv'
    BY <1>4, PollInv
  <1>5. ASSUME NEW ev \in batch, take(ev) PROVE WaitsInv'
    BY <1>5, TakeInv
  <1> QED
    BY <1>1, <1>2, <1>3, <1>4, <1>5 DEF WaitsNext

\* What meloop_ev_more() counts stays between 0 and the size of the table,
\* with waits that are refused, replaced, dropped or reported in any order.
THEOREM WaitsTypeCorrect == WaitsSpec => []WaitsTypeOK
  <1>1. WaitsInv => WaitsTypeOK
    BY DEF WaitsInv
  <1> QED
    BY <1>1, InitWaitsInv, StepWaitsInv, PTL DEF WaitsSpec
=============================================================================
