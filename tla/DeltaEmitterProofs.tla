------------------------- MODULE DeltaEmitterProofs -------------------------
(***************************************************************************)
(* Proofs about DeltaEmitter for any tiers, intervals and free space: its  *)
(* types, that one emitter listens, and that the three alarms say what the *)
(* runs that were heard call for.                                          *)
(***************************************************************************)
EXTENDS DeltaEmitter, TLAPS

(* What an emitter may be doing, and what it may know of its tiers. *)
StreamState == {"idle", "connecting", "reading", "waiting", "aborted"}
Successes == [Tier -> Time \cup {None}]

(* A new emitter has a number of its own, within the bound. *)
LEMMA StartIsNew ==
  ASSUME TypeOK, starts < MaxStarts
  PROVE  starts + 1 \in Emitter /\ starts + 1 \in 0..MaxStarts
BY EmitterAssumption DEF TypeOK, Emitter

(* The level of an alarm, and the shape of an event's free space. *)
LEMMA LevelTyped == \A k, e : Level(k, e) \in {"warn", "alert"}
BY DEF Level

(* handleEvent leaves the memory and what is published with their types.   *)
LEMMA HandleTyped ==
  ASSUME TypeOK, NEW e \in Event, now' \in Time, Handle(e)
  PROVE  /\ last' \in Successes /\ active' \subseteq Key
         /\ metrics' \in [at : Time, ok : BOOLEAN]
         /\ shown' \in [Key -> {"normal", "warn", "alert"}]
         /\ judged' \in Free \cup {None}
<1> USE DEF TypeOK, Event, Handle, Successes
<1>1. last' \in Successes
  BY DEF Tier
<1>2. active' \subseteq Key
  BY DEF Raised
<1>3. metrics' \in [at : Time, ok : BOOLEAN]
  OBVIOUS
<1>4. shown' \in [Key -> {"normal", "warn", "alert"}]
  BY LevelTyped
<1>5. judged' \in Free \cup {None}
  OBVIOUS
<1> QED
  BY <1>1, <1>2, <1>3, <1>4, <1>5

(* The emitter's variables, and what Signal K shows, have their types for  *)
(* any tiers and bounds.                                                   *)
THEOREM EmitterTypeCorrect == Spec => []TypeOK
<1>1. Init => TypeOK
  <2> SUFFICES ASSUME Init PROVE TypeOK
    OBVIOUS
  <2>1. 0 \in 0..MaxStarts /\ 0 \in 0..MaxBreaks /\ 0 \in Time
    BY EmitterAssumption DEF Time
  <2>2. up \in BOOLEAN /\ missed \in BOOLEAN
    BY DEF Init
  <2> QED
    BY <2>1, <2>2 DEF Init, TypeOK, Never
<1>2. TypeOK /\ [Next]_vars => TypeOK'
  <2> SUFFICES ASSUME TypeOK, [Next]_vars PROVE TypeOK'
    OBVIOUS
  <2> USE DEF TypeOK, memory, published, truth
  <2>1. CASE Start
    BY <2>1, StartIsNew DEF Start, StartTwice, Never
  <2>2. CASE Stop
    BY <2>2 DEF Stop
  <2>3. CASE Toggle
    BY <2>3, EmitterAssumption DEF Toggle
  <2>4. CASE Run
    <3>1. PICK e \in Event, h \in now..MaxTime : Run!(e, h)
      BY <2>4 DEF Run
    <3>2. now' \in Time
      BY <3>1, EmitterAssumption DEF Time
    <3>3. done' \in Successes
      BY <3>1, <3>2 DEF Event, Successes
    <3>4. CASE Heard
      BY <3>1, <3>2, <3>3, <3>4, HandleTyped DEF Successes
    <3>5. CASE ~Heard
      BY <3>1, <3>2, <3>3, <3>5 DEF Successes
    <3> QED
      BY <3>4, <3>5
  <2>5. ASSUME NEW g \in Emitter,
               Abandon(g) \/ Lose(g) \/ Connect(g) \/ Reconnect(g)
        PROVE  TypeOK'
    BY <2>5 DEF Abandon, Lose, Connect, Reconnect, Goto
  <2>6. CASE UNCHANGED vars
    BY <2>6 DEF vars
  <2> QED
    BY <2>1, <2>2, <2>3, <2>4, <2>5, <2>6 DEF Next
<1> QED
  BY <1>1, <1>2, PTL DEF Spec
-----------------------------------------------------------------------------
(* An emitter begins to listen only when there is no other, and stop()     *)
(* takes its stream and its timer.                                         *)
THEOREM OneListens == Spec => []OneListener
<1>1. Init => OneListener
  BY EmitterAssumption DEF Init, OneListener, Emitter
<1>2. TypeOK /\ OneListener /\ [Next]_vars => OneListener'
  <2> SUFFICES ASSUME TypeOK, OneListener, [Next]_vars PROVE OneListener'
    OBVIOUS
  <2>0. None \notin Emitter
    BY EmitterAssumption DEF Emitter
  <2> USE <2>0 DEF OneListener, TypeOK
  <2>1. CASE Start
    BY <2>1, StartIsNew DEF Start, StartTwice
  <2>2. CASE Stop
    BY <2>2 DEF Stop
  <2>3. CASE Run \/ Toggle
    BY <2>3 DEF Run, Toggle
  <2>4. ASSUME NEW g \in Emitter,
               Abandon(g) \/ Lose(g) \/ Connect(g) \/ Reconnect(g)
        PROVE  OneListener'
    BY <2>4 DEF Abandon, Lose, Connect, Reconnect, Goto
  <2>5. CASE UNCHANGED vars
    BY <2>5 DEF vars
  <2> QED
    BY <2>1, <2>2, <2>3, <2>4, <2>5 DEF Next
<1> QED
  BY <1>1, <1>2, EmitterTypeCorrect, PTL DEF Spec

-----------------------------------------------------------------------------
(* The alarms.  Only a run that is heard and a start touch what they are   *)
(* about.                                                                  *)
alarms == <<current, last, active, metrics, shown, judged>>

(* A run that is heard is handled; every other step but a start, a stop    *)
(* and a run leaves the alarms and the history alone.                      *)
LEMMA StepKinds ==
  ASSUME [Next]_vars
  PROVE  \/ Start
         \/ Stop
         \/ \E e \in Event, h \in now..MaxTime :
              Run!(e, h) /\ Heard /\ Handle(e) /\ UNCHANGED current
         \/ Run /\ ~Heard /\ UNCHANGED alarms
         \/ UNCHANGED <<alarms, now, truth>>
BY DEF Next, Toggle, Run, Abandon, Lose, Connect, Reconnect, Goto, vars, memory,
       published, truth, alarms

(* A failure that Signal K shows as the status of the last run is backed   *)
(* by the alarm: only a run publishes a status, and its failure raises     *)
(* the alarm in the same step; only a good run clears it.                  *)
THEOREM FailureIsAlarmed == Spec => []FailureAlarmed
<1>1. Init => FailureAlarmed
  BY DEF Init, FailureAlarmed
<1>2. FailureAlarmed /\ [Next]_vars => FailureAlarmed'
  <2> SUFFICES ASSUME FailureAlarmed, [Next]_vars PROVE FailureAlarmed'
    OBVIOUS
  <2>1. ASSUME NEW e \in Event, Handle(e) PROVE FailureAlarmed'
    BY <2>1 DEF Handle, FailureAlarmed, Raised, Cleared, Level, Key
  <2> QED
    BY <2>1, StepKinds
       DEF FailureAlarmed, Start, StartTwice, Stop, published, alarms
<1> QED
  BY <1>1, <1>2, PTL DEF Spec

(* The storage alarm is what the latest free space outside the dead band   *)
(* calls for, at the level it calls for, for any free space reported.      *)
THEOREM StorageHasHysteresis == Spec => []StorageHysteresis
<1>1. Init => StorageHysteresis
  BY DEF Init, StorageHysteresis
<1>2. TypeOK /\ StorageHysteresis /\ [Next]_vars => StorageHysteresis'
  <2> SUFFICES ASSUME TypeOK, StorageHysteresis, [Next]_vars
               PROVE  StorageHysteresis'
    OBVIOUS
  <2>1. ASSUME NEW e \in Event, Handle(e), current # None
        PROVE  StorageHysteresis'
    <3>0. \A f \in Free : f \in Nat /\ f # None
      BY EmitterAssumption
    <3>1. CASE e.free \notin Free \/ e.free \in 10..11
      BY <2>1, <3>0, <3>1
         DEF Handle, StorageHysteresis, Raised, Cleared, Key, TypeOK
    <3>2. CASE e.free \in Free /\ e.free < 10
      <4>1. "storageLow" \in Raised(e, last', now')
        BY <3>2 DEF Raised, Key
      <4>2. judged' = e.free /\ judged' # None /\ judged' < 10
        BY <2>1, <3>0, <3>2 DEF Handle
      <4>3. "storageLow" \in active'
        BY <2>1, <4>1 DEF Handle, Cleared
      <4>4. shown'["storageLow"] = IF judged' < 5 THEN "alert" ELSE "warn"
        BY <2>1, <4>1, <4>2 DEF Handle, Level, Key
      <4> QED
        BY <4>2, <4>3, <4>4 DEF StorageHysteresis
    <3>3. CASE e.free \in Free /\ e.free >= 12
      <4>1. "storageLow" \notin Raised(e, last', now')
        BY <3>0, <3>3 DEF Raised
      <4>2. judged' = e.free /\ ~(judged' < 10)
        BY <2>1, <3>0, <3>3 DEF Handle
      <4>3. "storageLow" \notin active'
        BY <2>1, <3>3, <4>1 DEF Handle, Cleared
      <4> QED
        BY <4>2, <4>3 DEF StorageHysteresis
    <3> QED
      BY <3>0, <3>1, <3>2, <3>3
  <2>2. CASE Start
    BY <2>2 DEF Start, StartTwice, StorageHysteresis
  <2>3. CASE Stop
    BY <2>3 DEF Stop, StorageHysteresis
  <2> QED
    BY <2>1, <2>2, <2>3, StepKinds DEF StorageHysteresis, Heard, alarms
<1> QED
  BY <1>1, <1>2, EmitterTypeCorrect, PTL DEF Spec

-----------------------------------------------------------------------------
(* Why the overdue alarm is true: the emitter has heard of no run that     *)
(* never was, and of all of them if it missed none.                        *)
Remembered ==
  /\ metrics # None => metrics.at <= now
  /\ current # None =>
       /\ \A t \in Tier : /\ done[t] # None => done[t] <= now
                          /\ last[t] # None => done[t] # None /\ last[t] <= done[t]
       /\ ~missed => last = done

OverdueInv == Remembered /\ OverdueTrue

(* Every step leaves the emitter remembering no run that never was.        *)
LEMMA RememberedStep ==
  TypeOK /\ TypeOK' /\ Remembered /\ [Next]_vars => Remembered'
<1> SUFFICES ASSUME TypeOK, TypeOK', Remembered, [Next]_vars
             PROVE  Remembered'
  OBVIOUS
<1>1. CASE Start
  BY <1>1 DEF Start, StartTwice, Remembered, Never, published
<1>2. CASE Stop
  BY <1>2 DEF Stop, Remembered, published
<1>3. ASSUME NEW e \in Event, NEW h \in now..MaxTime, Run!(e, h), Heard,
             Handle(e), UNCHANGED current
      PROVE  Remembered'
  <2>1. now \in Nat /\ h \in Nat /\ h > now /\ now' = h
    BY <1>3, EmitterAssumption DEF TypeOK, Time
  <2>2. metrics' # None => metrics'.at <= now'
    BY <1>3, <2>1 DEF Handle
  <2>3. ASSUME NEW t \in Tier, current # None
        PROVE  /\ done'[t] # None => done'[t] <= now'
               /\ last'[t] # None => done'[t] # None /\ last'[t] <= done'[t]
    <3>1. done[t] # None => done[t] \in Nat
      BY DEF TypeOK, Time
    <3>2. CASE e.ok /\ t = e.tier
      BY <1>3, <2>1, <3>2, EmitterAssumption DEF Handle, TypeOK
    <3>3. CASE ~(e.ok /\ t = e.tier)
      <4>1. done'[t] = done[t] /\ last'[t] = last[t]
        BY <1>3, <3>3 DEF Handle, TypeOK
      <4> QED
        BY <2>1, <2>3, <3>1, <4>1 DEF Remembered
    <3> QED
      BY <3>2, <3>3
  <2>4. current # None /\ ~missed' => last' = done'
    BY <1>3, <2>1 DEF Handle, Remembered
  <2> QED
    BY <1>3, <2>2, <2>3, <2>4 DEF Remembered
<1>4. CASE Run /\ ~Heard /\ UNCHANGED alarms
  BY <1>4, EmitterAssumption DEF Run, Remembered, Event, TypeOK, Time, alarms
<1>5. CASE UNCHANGED <<alarms, now, truth>>
  BY <1>5 DEF Remembered, alarms, truth
<1> QED
  BY <1>1, <1>2, <1>3, <1>4, <1>5, StepKinds

(* Given that, every step keeps overdue alarms true.                       *)
LEMMA OverdueStep ==
  TypeOK /\ TypeOK' /\ Remembered /\ Remembered' /\ OverdueTrue /\ [Next]_vars
    => OverdueTrue'
<1> SUFFICES ASSUME TypeOK, TypeOK', Remembered, Remembered', OverdueTrue,
                    [Next]_vars
             PROVE  OverdueTrue'
  OBVIOUS
<1>1. CASE Start
  BY <1>1 DEF Start, StartTwice, OverdueTrue, Never
<1>2. CASE Stop
  BY <1>2 DEF Stop, OverdueTrue
<1>3. ASSUME NEW e \in Event, NEW h \in now..MaxTime, Run!(e, h), Heard,
             Handle(e), UNCHANGED current
      PROVE  OverdueTrue'
  <2>1. "overdue" \in active' <=> \E t \in Tier : Overdue(last', t, now')
    BY <1>3 DEF Handle, Raised, Cleared, Key
  <2> QED
    BY <1>3, <2>1, EmitterAssumption
       DEF OverdueTrue, Overdue, Remembered, Heard, TypeOK, Time, Tier
<1>4. CASE Run /\ ~Heard /\ UNCHANGED alarms
  BY <1>4, EmitterAssumption
     DEF Run, OverdueTrue, Remembered, TypeOK, Time, alarms
<1>5. CASE UNCHANGED <<alarms, now, truth>>
  BY <1>5 DEF OverdueTrue, alarms, truth
<1> QED
  BY <1>1, <1>2, <1>3, <1>4, <1>5, StepKinds

(* Right after a run was heard the overdue alarm stands if a tier that was *)
(* heard of is late, and only if one is late or a run went by unheard, for *)
(* any tiers, intervals and times.                                         *)
THEOREM OverdueIsTrue == Spec => []OverdueTrue
<1>1. Init => OverdueInv
  BY DEF Init, OverdueInv, Remembered, OverdueTrue
<1>2. TypeOK /\ TypeOK' /\ OverdueInv /\ [Next]_vars => OverdueInv'
  BY RememberedStep, OverdueStep DEF OverdueInv
<1>3. OverdueInv => OverdueTrue
  BY DEF OverdueInv
<1> QED
  BY <1>1, <1>2, <1>3, EmitterTypeCorrect, PTL DEF Spec
=============================================================================
