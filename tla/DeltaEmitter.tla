---------------------------- MODULE DeltaEmitter ----------------------------
(***************************************************************************)
(* The Signal K emitter of src/signalk-deltas.ts: it listens to the backup *)
(* server's event stream, one event for each scheduled run, and publishes  *)
(* metrics and three alarms.  The server breaks the stream off and comes   *)
(* back, and the plugin stops and starts the emitter at any moment; what   *)
(* Signal K shows outlives both.                                           *)
(*                                                                         *)
(* An event is handled in one step: handleEvent awaits nothing.            *)
(***************************************************************************)
EXTENDS Integers

CONSTANTS
  Interval,    \* hours between the runs of each tier, 0: never overdue
  Free,        \* percentages of free space the server reports
  Unknown,     \* the server could not tell its free space
  None,        \* null, or never
  MaxStarts,   \* bound on the emitters started
  MaxBreaks,   \* bound on how often the server goes away
  MaxTime      \* bound on the hours that pass

Tier == DOMAIN Interval
Emitter == 1..MaxStarts
Time == 0..MaxTime
Key == {"failed", "overdue", "storageLow"}
Event == [tier : Tier, ok : BOOLEAN, free : Free \cup {Unknown}]

ASSUME EmitterAssumption == /\ {MaxStarts, MaxBreaks, MaxTime} \subseteq Nat
                            /\ \A t \in Tier : Interval[t] \in Nat
                            /\ Free \subseteq 0..100
                            /\ Unknown \notin Free /\ None \notin Nat

VARIABLES
  current,     \* the module's state: the emitter that is not stopped
  starts,      \* how many emitters were started
  stream,      \* what each emitter's connect() is doing
  last,        \* lastSuccessByTier of the current emitter
  active,      \* activeNotifications of the current emitter
  metrics,     \* the metrics Signal K shows
  shown,       \* the notifications Signal K shows
  up,          \* the server answers
  breaks,
  now,         \* the hour of the server's latest run
  done,        \* history: latest good run of each tier since the last start
  missed,      \* history: a run since the last start was not heard
  judged       \* history: latest free space outside the dead band

published == <<metrics, shown>>
memory == <<last, active>>
truth == <<done, missed, judged>>
vars == <<current, starts, stream, memory, published, up, breaks, now, truth>>

Never == [t \in Tier |-> None]

Init == /\ current = None /\ starts = 0
        /\ stream = [g \in Emitter |-> "idle"]
        /\ last = Never /\ active = {}
        /\ metrics = None
        /\ shown = [k \in Key |-> "normal"]
        /\ up = TRUE /\ breaks = 0 /\ now = 0
        /\ done = Never /\ missed = FALSE /\ judged = None

-----------------------------------------------------------------------------
(* Faulty variant: a start while one runs replaces the state. *)
StartTwice ==
  /\ starts < MaxStarts
  /\ starts' = starts + 1
  /\ current' = starts'
  /\ stream' = [stream EXCEPT ![starts'] = "connecting"]
  /\ last' = Never /\ active' = {}
  /\ done' = Never /\ missed' = FALSE /\ judged' = None
  /\ UNCHANGED <<published, up, breaks, now>>

(* startSignalKEmitter, with emitSignalKDeltas on: a start while one runs  *)
(* does nothing.                                                           *)
Start == current = None /\ StartTwice

(* stopSignalKEmitter: the request is aborted or the timer cleared. *)
Stop == /\ current # None
        /\ current' = None
        /\ stream' = [stream EXCEPT ![current] =
                        IF @ = "waiting" THEN "idle" ELSE "aborted"]
        /\ UNCHANGED <<starts, memory, published, up, breaks, now, truth>>

Goto(g, pc) ==
  /\ stream' = [stream EXCEPT ![g] = pc]
  /\ UNCHANGED <<current, starts, memory, published, up, breaks, now, truth>>

(* The catch of an aborted connect(): its emitter is stopped. *)
Abandon(g) == stream[g] = "aborted" /\ Goto(g, "idle")

(* Faulty variant: a refused connection is not tried again. *)
GiveUp(g) == stream[g] \in {"connecting", "reading"} /\ ~up /\ Goto(g, "idle")

(* fetch fails or the stream ends: scheduleReconnect. *)
Lose(g) == stream[g] \in {"connecting", "reading"} /\ ~up /\ Goto(g, "waiting")

(* Faulty variant: an answer is never read. *)
ConnectDone(g) == stream[g] = "connecting" /\ up /\ Goto(g, "done")

Connect(g) == stream[g] = "connecting" /\ up /\ Goto(g, "reading")

Reconnect(g) == stream[g] = "waiting" /\ Goto(g, "connecting")

-----------------------------------------------------------------------------
(* Faulty variant: overdue from the second interval on. *)
OverdueAt(ls, t, h) ==
  Interval[t] > 0 /\ ls[t] # None /\ h - ls[t] >= 2 * Interval[t]

Overdue(ls, t, h) ==
  Interval[t] > 0 /\ ls[t] # None /\ h - ls[t] > 2 * Interval[t]

(* Faulty variant: a failed run does not count for storage. *)
RaisedQuietly(e, ls, h) ==
  {k \in Key : \/ k = "overdue" /\ \E t \in Tier : Overdue(ls, t, h)
               \/ k = "storageLow" /\ e.free \in Free /\ e.free < 10}

(* What an event raises, given the good runs it leaves known. *)
Raised(e, ls, h) ==
  {k \in Key : \/ k = "failed" /\ ~e.ok
               \/ k = "overdue" /\ \E t \in Tier : Overdue(ls, t, h)
               \/ k = "storageLow" /\ e.free \in Free /\ e.free < 10}

(* Faulty variant: no dead band. *)
ClearedAtWarn(e, ls, h) ==
  {k \in active \ Raised(e, ls, h) : k = "storageLow" => e.free \in Free}

(* What it clears, of what this emitter raised. *)
Cleared(e, ls, h) ==
  {k \in active \ Raised(e, ls, h) :
     k = "storageLow" => e.free \in Free /\ e.free >= 12}

Level(k, e) == IF k = "failed" \/ (k = "storageLow" /\ e.free < 5)
               THEN "alert" ELSE "warn"

(* handleEvent *)
Handle(e) ==
  LET h == now'
      ls == IF e.ok THEN [last EXCEPT ![e.tier] = h] ELSE last
      raised == Raised(e, ls, h)
      cleared == Cleared(e, ls, h)
  IN /\ last' = ls
     /\ metrics' = [at |-> h, ok |-> e.ok]
     /\ active' = (active \cup raised) \ cleared
     /\ shown' = [k \in Key |-> IF k \in raised THEN Level(k, e)
                                ELSE IF k \in cleared THEN "normal"
                                ELSE shown[k]]
     /\ judged' = IF e.free \in Free /\ e.free \notin 10..11
                  THEN e.free ELSE judged

-----------------------------------------------------------------------------
(* The server. *)

Heard == current # None /\ stream[current] = "reading"

(* A scheduled run is over: those who listen are told. *)
Run == \E e \in Event, h \in now..MaxTime :
  /\ up
  /\ h > now
  /\ now' = h
  /\ done' = IF e.ok THEN [done EXCEPT ![e.tier] = h] ELSE done
  /\ missed' = (missed \/ ~Heard)
  /\ IF Heard THEN Handle(e)
     ELSE UNCHANGED <<memory, published, judged>>
  /\ UNCHANGED <<current, starts, stream, up, breaks>>

Toggle == /\ up => breaks < MaxBreaks
          /\ up' = ~up
          /\ breaks' = IF up THEN breaks + 1 ELSE breaks
          /\ UNCHANGED <<current, starts, stream, memory, published, now, truth>>

Next == \/ Start \/ Stop \/ Run \/ Toggle
        \/ \E g \in Emitter : Abandon(g) \/ Lose(g) \/ Connect(g) \/ Reconnect(g)

(* undici gives up on a silent server, timers fire and the server comes    *)
(* back; nobody has to start or stop the emitter.                          *)
Fairness == \A g \in Emitter : WF_vars(Lose(g) \/ Connect(g) \/ Reconnect(g))

Spec == Init /\ [][Next]_vars /\ Fairness

-----------------------------------------------------------------------------
TypeOK ==
  /\ current \in Emitter \cup {None} /\ starts \in 0..MaxStarts
  /\ stream \in [Emitter -> {"idle", "connecting", "reading", "waiting",
                             "aborted"}]
  /\ last \in [Tier -> Time \cup {None}] /\ active \subseteq Key
  /\ metrics \in [at : Time, ok : BOOLEAN] \cup {None}
  /\ shown \in [Key -> {"normal", "warn", "alert"}]
  /\ up \in BOOLEAN /\ breaks \in 0..MaxBreaks /\ now \in Time
  /\ done \in [Tier -> Time \cup {None}] /\ missed \in BOOLEAN
  /\ judged \in Free \cup {None}

(* However the plugin starts and stops it and however the server breaks    *)
(* off, a run is never published by two emitters, and a stopped one has no *)
(* stream and no timer left that would bring it back.                      *)
OneListener ==
  \A g \in Emitter : stream[g] \in {"connecting", "reading", "waiting"}
                       <=> g = current

(* Right after a run was heard, the overdue alarm stands if a tier it has  *)
(* heard of had no good run for two intervals, although other runs may     *)
(* have gone by unheard; and it is false only if some did.                 *)
OverdueTrue ==
  LET late(t) == /\ Interval[t] > 0 /\ done[t] # None
                 /\ now > done[t] + 2 * Interval[t]
  IN current # None /\ metrics # None /\ metrics.at = now
       => /\ (\E t \in Tier : late(t) /\ last[t] # None) => "overdue" \in active
          /\ "overdue" \in active => missed \/ \E t \in Tier : late(t)

(* The storage alarm has hysteresis: it is what the latest free space      *)
(* below 10% or from 12% on calls for, whatever came in between.           *)
StorageHysteresis ==
  LET low == judged # None /\ judged < 10
  IN current # None => /\ "storageLow" \in active <=> low
                       /\ low => shown["storageLow"] =
                                   IF judged < 5 THEN "alert" ELSE "warn"

(* A failure Signal K shows as the status of the last run is always backed *)
(* by the alarm, over restarts of the emitter too.                         *)
FailureAlarmed ==
  metrics # None /\ ~metrics.ok => shown["failed"] = "alert"

(* An emitter that is left running, with a server that stays, ends up      *)
(* listening.                                                              *)
Reconnects ==
  \A g \in Emitter :
    <>[](current = g /\ up) => <>[](stream[g] = "reading")

=============================================================================
