------------------------ MODULE UplinkReporterProofs ------------------------
(***************************************************************************)
(* Proofs about UplinkReporter for any link states and bounds: its types,  *)
(* that a quiet reporter has told the server the state, and that no hold   *)
(* is lifted early.                                                        *)
(***************************************************************************)
EXTENDS UplinkReporter, TLAPS

(* What a send may be. *)
SendType == [pc : {"ask", "enabled", "absent", "put", "told"}, to : Client,
             state : State \cup {None}, gen : Nat] \cup {NoSend}

(* A link state is one the server knows, or null. *)
LEMMA StateTyped == \A v : ToUplinkState(v) \in State \cup {None}
BY DEF ToUplinkState

(* A new send is well formed if there is a client to send to. *)
LEMMA BeginTyped ==
  ASSUME generation' \in Nat, target' \in Client PROVE Begin \in SendType
BY StateTyped DEF Begin, PutUnlessTold, SendType

(* A report leaves a send of the declared shape.                           *)
LEMMA ReportTyped ==
  ASSUME TypeOK, generation' \in Nat, target' \in Client \cup {None}, Report
  PROVE  send' \in SendType /\ queued' \in BOOLEAN
BY BeginTyped DEF Report, TypeOK, SendType

(* So does the end of a send, with the queued report it begins.            *)
LEMMA FinishTyped ==
  ASSUME generation' \in Nat, target' \in Client \cup {None}, Finish
  PROVE  send' \in SendType /\ queued' \in BOOLEAN
BY BeginTyped DEF Finish, SendType

(* The types, the flags apart from the rest. *)
Flags == /\ started \in BOOLEAN /\ wait \in BOOLEAN /\ queued \in BOOLEAN
         /\ listed \in BOOLEAN /\ waited \in BOOLEAN /\ unsure \in BOOLEAN

Shape == /\ value \in Value
         /\ last \in [to : Client, state : State \cup {None}] \cup {None}
         /\ send \in SendType
         /\ generation \in Nat
         /\ target \in Client \cup {None} /\ clients \in 0..MaxClients
         /\ known \in [Client -> State \cup {None, Forgotten}]
         /\ events \in 0..MaxEvents

(* The type invariant in two parts, flags and records.                     *)
LEMMA TypeParts == TypeOK <=> Flags /\ Shape
BY DEF TypeOK, Flags, Shape, SendType

(* Both hold at first.                                                     *)
LEMMA InitTyped == Init => Flags /\ Shape
<1>1. Init => Flags
  BY DEF Init, Flags
<1>2. Init => Shape
  BY BoundsAssumption DEF Init, Shape, Value, SendType, NoSend
<1> QED
  BY <1>1, <1>2

(* Every step keeps the flags typed.                                       *)
LEMMA FlagsStep == TypeOK /\ [Next]_vars => Flags'
<1> SUFFICES ASSUME TypeOK, [Next]_vars PROVE Flags'
  OBVIOUS
<1> USE TypeParts DEF Flags, outside, Report, Finish
<1>1. CASE Start
  BY <1>1 DEF Start, StartReporter, Clear
<1>2. CASE Up
  BY <1>2 DEF Up, StartReporter, Clear
<1>3. CASE Down
  BY <1>3 DEF Down, Clear
<1>4. CASE Adopt
  BY <1>4 DEF Adopt
<1>5. ASSUME NEW v \in State \cup {Other, None}, Delta(v) PROVE Flags'
  BY <1>5 DEF Delta
<1>6. CASE WaitOver \/ Resend
  BY <1>6 DEF WaitOver, Resend
<1>7. CASE ListRead \/ ListArrives
  BY <1>7 DEF ListRead, ListArrives
<1>8. CASE PutTaken
  BY <1>8 DEF PutTaken
<1>9. CASE PutAnswered \/ PutFails
  BY <1>9 DEF PutAnswered, PutFails
<1>10. CASE ServerRestarts \/ ListChanges
  BY <1>10 DEF ServerRestarts, ListChanges
<1>11. CASE UNCHANGED vars
  BY <1>11 DEF vars
<1> QED
  BY <1>1, <1>2, <1>3, <1>4, <1>5, <1>6, <1>7, <1>8, <1>9, <1>10, <1>11
     DEF Next

(* Every step keeps the records typed.                                     *)
LEMMA ShapeStep == TypeOK /\ [Next]_vars => Shape'
<1> SUFFICES ASSUME TypeOK, [Next]_vars PROVE Shape'
  OBVIOUS
<1>0. Shape
  BY TypeParts
<1> USE <1>0, BoundsAssumption DEF Shape, Value, outside, Event
<1>1. CASE Start
  BY <1>1, ReportTyped DEF Start, StartReporter, Clear
<1>2. CASE Up
  <2>1. target' \in Client /\ clients' \in 0..MaxClients
    BY <1>2 DEF Up, NewClient, Client
  <2> QED
    BY <1>2, <2>1, ReportTyped DEF Up, StartReporter, Clear
<1>3. CASE Down
  BY <1>3 DEF Down, Clear
<1>4. CASE Adopt
  <2>1. target' \in Client /\ clients' \in 0..MaxClients
    BY <1>4 DEF Adopt, NewClient, Client
  <2> QED
    BY <1>4, <2>1, ReportTyped DEF Adopt
<1>5. ASSUME NEW v \in State \cup {Other, None}, Delta(v) PROVE Shape'
  BY <1>5, ReportTyped DEF Delta
<1>6. CASE WaitOver
  BY <1>6, ReportTyped DEF WaitOver
<1>7. CASE Resend
  BY <1>7, ReportTyped DEF Resend
<1>8. CASE ListRead \/ ListArrives
  <2>1. CASE ListRead
    BY <2>1 DEF ListRead, SendType, NoSend
  <2>2. CASE ListArrives
    BY <2>2, FinishTyped, StateTyped DEF ListArrives, PutUnlessTold, SendType, NoSend
  <2> QED
    BY <1>8, <2>1, <2>2
<1>9. CASE PutTaken
  BY <1>9 DEF PutTaken, SendType, NoSend
<1>10. CASE PutAnswered
  BY <1>10, FinishTyped DEF PutAnswered, Told, SendType, NoSend
<1>11. CASE PutFails
  BY <1>11, FinishTyped DEF PutFails
<1>12. CASE ServerRestarts
  BY <1>12 DEF ServerRestarts
<1>13. CASE ListChanges
  BY <1>13 DEF ListChanges
<1>14. CASE UNCHANGED vars
  BY <1>14 DEF vars
<1> QED
  BY <1>1, <1>2, <1>3, <1>4, <1>5, <1>6, <1>7, <1>8, <1>9, <1>10, <1>11,
     <1>12, <1>13, <1>14 DEF Next

(* The reporter's variables have their types for any link states, clients  *)
(* and events: only known states and null are sent and recorded.           *)
THEOREM UplinkTypeCorrect == Spec => []TypeOK
<1>1. Init => TypeOK
  BY InitTyped, TypeParts
<1>2. TypeOK /\ [Next]_vars => TypeOK'
  <2> SUFFICES ASSUME TypeOK, [Next]_vars PROVE TypeOK'
    OBVIOUS
  <2>1. Flags' /\ Shape'
    BY FlagsStep, ShapeStep
  <2> QED
    BY <2>1 DEF TypeOK, Flags, Shape, SendType
<1> QED
  BY <1>1, <1>2, PTL DEF Spec

-----------------------------------------------------------------------------
(* Why a quiet reporter may be believed.                                   *)

Now == ToUplinkState(value)

(* Nobody names a client or a generation that is still to come. *)
NothingAhead ==
  /\ target # None => target <= clients
  /\ last # None => last.to <= clients
  /\ send # NoSend => send.to <= clients /\ send.gen <= generation

(* A send that nothing is queued behind speaks of the present. *)
SendIsCurrent ==
  send # NoSend /\ ~queued /\ target # None =>
    /\ send.to = target
    /\ send.gen = generation
    /\ send.pc \notin {"ask", "enabled", "absent"} => send.state = Now

(* A send that stop() overtook left no record behind. *)
OldSendUnrecorded ==
  send # NoSend /\ send.gen # generation => last = None

(* What was told is known, and what is recorded is, until the next PUT.    *)
ToldIsKnown ==
  send.pc = "told" /\ send.to = target /\ send.gen = generation /\ ~unsure
    => known[target] = send.state

RecordIsKnown ==
  /\ last # None /\ last.to = target /\ ~unsure
  /\ ~(send.pc = "told" /\ send.to = target)
  => known[target] = last.state

(* A reporter goes quiet only when the present state is on record. *)
QuietIsRecorded ==
  /\ send = NoSend /\ target # None /\ ~unsure
  /\ Now # None \/ ~wait
  => last = Told(target, Now)

QuietInv ==
  /\ NothingAhead
  /\ SendIsCurrent
  /\ OldSendUnrecorded
  /\ ToldIsKnown
  /\ RecordIsKnown
  /\ QuietIsRecorded

(* While the reporter is started its wait is armed or has run out. *)
WaitInv == started => wait \/ waited

(* A send that begins asks for the plugin list or speaks of the present;   *)
(* it is left out only when the present state is on record.                *)
LEMMA BeginSays ==
  /\ Begin # NoSend => /\ Begin.to = target' /\ Begin.gen = generation'
                       /\ Begin.pc # "told"
                       /\ Begin.pc \notin {"ask", "enabled", "absent"} =>
                            Begin.state = Now'
  /\ Begin = NoSend => last' = Told(target', Now')
BY DEF Begin, PutUnlessTold, NoSend, Now

(* report() leaves nothing of the past under way and unqueued. *)
LEMMA ReportSays ==
  ASSUME Report
  PROVE  /\ SendIsCurrent' /\ QuietIsRecorded'
         /\ send # NoSend => send' = send
         /\ send = NoSend /\ send' # NoSend
              => send'.to = target' /\ send'.gen = generation'
                 /\ send'.pc # "told" /\ target' # None
BY BeginSays DEF Report, SendIsCurrent, QuietIsRecorded

(* So does the end of a send, if it was not queued behind and has said the *)
(* present state.                                                          *)
LEMMA FinishSays ==
  ASSUME Finish, send # NoSend,
         ~queued /\ target' # None /\ ~unsure' /\ (Now' # None \/ ~wait')
           => last' = Told(target', Now')
  PROVE  /\ SendIsCurrent' /\ QuietIsRecorded'
         /\ send' # NoSend => send'.to = target' /\ send'.gen = generation'
                              /\ send'.pc # "told" /\ target' # None
BY BeginSays DEF Finish, SendIsCurrent, QuietIsRecorded

(* What the types say of the numbers that NothingAhead compares. *)
LEMMA Numbers ==
  ASSUME TypeOK
  PROVE  /\ clients \in Nat /\ generation \in Nat
         /\ target # None => target \in Nat
         /\ send # NoSend => send.to \in Nat /\ send.gen \in Nat
         /\ last # None => last.to \in Nat
BY BoundsAssumption DEF TypeOK, Client

(* Each step keeps QuietInv. *)
LEMMA QuietStep ==
  TypeOK /\ TypeOK' /\ QuietInv /\ [Next]_vars => QuietInv'
<1> SUFFICES ASSUME TypeOK, TypeOK', QuietInv, [Next]_vars PROVE QuietInv'
  OBVIOUS
<1> DEFINE Rest == NothingAhead /\ OldSendUnrecorded /\ ToldIsKnown
                   /\ RecordIsKnown
<1> USE DEF QuietInv, outside
<1>1. CASE Start \/ Up
  <2>1. Report /\ last' = None /\ generation' = generation + 1
        /\ UNCHANGED known /\ clients <= clients'
    BY <1>1 DEF Start, Up, StartReporter, Clear, NewClient, TypeOK
  <2>2. (target' = target /\ clients' = clients) \/ target' = clients'
    BY <1>1 DEF Start, Up, NewClient
  <2>3. NothingAhead'
    <3>1. clients' \in Nat /\ generation' \in Nat
      BY BoundsAssumption DEF TypeOK
    <3>2. target' # None => target' <= clients'
      BY <2>2, <3>1 DEF NothingAhead
    <3>3. send' # NoSend => send'.to <= clients' /\ send'.gen <= generation'
      <4>1. CASE send # NoSend
        BY <2>1, <3>1, <4>1, ReportSays, Numbers DEF NothingAhead
      <4>2. CASE send = NoSend
        BY <2>1, <3>1, <3>2, <4>2, ReportSays
      <4> QED
        BY <4>1, <4>2
    <3> QED
      BY <2>1, <3>2, <3>3 DEF NothingAhead
  <2>4. OldSendUnrecorded' /\ ToldIsKnown' /\ RecordIsKnown'
    BY <2>1, ReportSays
       DEF OldSendUnrecorded, ToldIsKnown, RecordIsKnown, NothingAhead, TypeOK,
           NoSend
  <2> QED
    BY <2>1, <2>3, <2>4, ReportSays
<1>2. CASE Down
  <2>1. NothingAhead' /\ OldSendUnrecorded'
    BY <1>2 DEF Down, Clear, NothingAhead, OldSendUnrecorded, TypeOK
  <2> QED
    BY <1>2, <2>1
       DEF Down, Clear, SendIsCurrent, ToldIsKnown, RecordIsKnown,
           QuietIsRecorded, NothingAhead, TypeOK, NoSend
<1>3. CASE Adopt
  <2>1. Report /\ UNCHANGED <<known, last, generation>> /\ target' = clients + 1
        /\ clients' = clients + 1 /\ target # None
    BY <1>3 DEF Adopt, NewClient
  <2>2. NothingAhead'
    BY <2>1, ReportSays, Numbers DEF NothingAhead
  <2>3. OldSendUnrecorded' /\ ToldIsKnown' /\ RecordIsKnown'
    BY <2>1, ReportSays
       DEF OldSendUnrecorded, ToldIsKnown, RecordIsKnown, NothingAhead, TypeOK,
           NoSend
  <2> QED
    BY <2>1, <2>2, <2>3, ReportSays
<1>4. ASSUME NEW v \in State \cup {Other, None},
             Delta(v) \/ WaitOver \/ Resend
      PROVE  QuietInv'
  <2>1. /\ Report /\ UNCHANGED <<known, generation, unsure, target, clients>>
        /\ last' = last \/ last' = None
    BY <1>4 DEF Delta, WaitOver, Resend
  <2>2. NothingAhead'
    BY <2>1, ReportSays, Numbers DEF NothingAhead
  <2>3. OldSendUnrecorded' /\ ToldIsKnown' /\ RecordIsKnown'
    BY <2>1, ReportSays
       DEF OldSendUnrecorded, ToldIsKnown, RecordIsKnown, NoSend
  <2> QED
    BY <2>1, <2>2, <2>3, ReportSays
<1>5. CASE ListArrives
  <2> DEFINE put == PutUnlessTold(send.to, Now, send.gen)
  <2>1. /\ send.pc \in {"enabled", "absent"} /\ send # NoSend
        /\ UNCHANGED <<known, last, generation, unsure, target, clients, value,
                       wait>>
        /\ Now' = Now
    BY <1>5 DEF ListArrives, Now, NoSend
  <2>2. CASE Finish
    <3>1. ~queued /\ target' # None /\ (Now' # None \/ ~wait')
            => last' = Told(target', Now')
      BY <1>5, <2>1, <2>2
         DEF ListArrives, Now, PutUnlessTold, SendIsCurrent, NoSend, Finish
    <3> QED
      BY <2>1, <2>2, <3>1, FinishSays
         DEF NothingAhead, OldSendUnrecorded, ToldIsKnown, RecordIsKnown,
             TypeOK, NoSend
  <2>3. CASE ~Finish
    <3>1. /\ send' = [pc |-> "put", to |-> send.to, state |-> Now,
                      gen |-> send.gen]
          /\ send' # NoSend /\ UNCHANGED queued
      BY <1>5, <2>3 DEF ListArrives, PutUnlessTold, NoSend, Now
    <3> QED
      BY <2>1, <3>1
         DEF NothingAhead, SendIsCurrent, OldSendUnrecorded, ToldIsKnown,
             RecordIsKnown, QuietIsRecorded
  <2> QED
    BY <2>2, <2>3
<1>11. CASE ListRead
  <2>1. /\ send.pc = "ask" /\ send # NoSend /\ send' # NoSend
        /\ send'.pc \in {"enabled", "absent"} /\ send'.to = send.to
        /\ send'.gen = send.gen
        /\ UNCHANGED <<known, last, generation, unsure, target, clients, value,
                       wait, queued>>
        /\ Now' = Now
    BY <1>11 DEF ListRead, Now, NoSend, TypeOK
  <2> QED
    BY <2>1
       DEF NothingAhead, SendIsCurrent, OldSendUnrecorded, ToldIsKnown,
           RecordIsKnown, QuietIsRecorded
<1>6. CASE PutTaken
  <2>1. /\ send.pc = "put" /\ send # NoSend /\ send.to \in Client
        /\ send' # NoSend /\ send'.pc = "told" /\ send'.to = send.to
        /\ send'.state = send.state /\ send'.gen = send.gen
    BY <1>6 DEF PutTaken, TypeOK, NoSend
  <2>2. /\ UNCHANGED <<last, generation, target, clients, value, wait, queued>>
        /\ Now' = Now
    BY <1>6 DEF PutTaken, Now
  <2>3. /\ known'[send.to] = send.state
        /\ \A c \in Client : c # send.to => known'[c] = known[c]
        /\ unsure' <=> unsure /\ (send.to # target \/ send.gen # generation)
    BY <1>6, <2>1 DEF PutTaken, TypeOK
  <2>4. NothingAhead' /\ SendIsCurrent' /\ QuietIsRecorded'
    BY <2>1, <2>2 DEF NothingAhead, SendIsCurrent, QuietIsRecorded
  <2>5. OldSendUnrecorded' /\ ToldIsKnown'
    BY <2>1, <2>2, <2>3 DEF OldSendUnrecorded, ToldIsKnown
  <2>6. RecordIsKnown'
    BY <2>1, <2>2, <2>3 DEF RecordIsKnown, TypeOK
  <2> QED
    BY <2>4, <2>5, <2>6
<1>7. CASE PutAnswered
  <2>1. /\ send.pc = "told" /\ send # NoSend /\ Finish
        /\ UNCHANGED <<known, generation, unsure, target, clients, value, wait>>
        /\ Now' = Now
        /\ last' = IF send.gen = generation THEN Told(send.to, send.state)
                                            ELSE last
    BY <1>7 DEF PutAnswered, NoSend, Now
  <2>2. ~queued /\ target' # None => last' = Told(target', Now')
    BY <2>1 DEF SendIsCurrent
  <2>3. NothingAhead'
    BY <2>1, <2>2, FinishSays DEF NothingAhead, Told, TypeOK, NoSend
  <2>4. OldSendUnrecorded' /\ ToldIsKnown' /\ RecordIsKnown'
    BY <2>1, <2>2, FinishSays
       DEF OldSendUnrecorded, ToldIsKnown, RecordIsKnown, Told, NoSend
  <2> QED
    BY <2>1, <2>2, <2>3, <2>4, FinishSays
<1>8. CASE PutFails
  <2>1. /\ send # NoSend /\ Finish /\ unsure'
        /\ UNCHANGED <<last, generation, target, clients>>
    BY <1>8 DEF PutFails, NoSend
  <2> QED
    BY <2>1, FinishSays
       DEF NothingAhead, OldSendUnrecorded, ToldIsKnown, RecordIsKnown, TypeOK,
           NoSend
<1>9. CASE ServerRestarts
  BY <1>9
     DEF ServerRestarts, NothingAhead, SendIsCurrent, OldSendUnrecorded,
         ToldIsKnown, RecordIsKnown, QuietIsRecorded, Now
<1>10. CASE ListChanges \/ UNCHANGED vars
  BY <1>10
     DEF ListChanges, vars, NothingAhead, SendIsCurrent, OldSendUnrecorded,
         ToldIsKnown, RecordIsKnown, QuietIsRecorded, Now
<1> QED
  BY <1>1, <1>2, <1>3, <1>4, <1>5, <1>6, <1>7, <1>8, <1>9, <1>10, <1>11
     DEF Next

(* When no send is under way the server behind the present client has been *)
(* told the present state: no change, replaced client or restart of the    *)
(* reporter is lost behind a send, for any number of them.                 *)
THEOREM QuietIsKnown == Spec => []QuietMeansKnown
<1>1. Init => QuietInv
  BY DEF Init, QuietInv, NothingAhead, SendIsCurrent, OldSendUnrecorded,
         ToldIsKnown, RecordIsKnown, QuietIsRecorded, NoSend
<1>2. TypeOK /\ TypeOK' /\ QuietInv /\ [Next]_vars => QuietInv'
  BY QuietStep
<1>3. TypeOK /\ QuietInv => QuietMeansKnown
  <2> SUFFICES ASSUME TypeOK, QuietInv, started, target # None,
                      send = NoSend, ~unsure, Now # None \/ ~wait
               PROVE  known[target] = Now
    BY DEF QuietMeansKnown, Now
  <2>1. last = Told(target, Now)
    BY DEF QuietInv, QuietIsRecorded
  <2>2. Told(target, Now) # None
    BY StateTyped, NamesDistinct DEF TypeOK, Told, Now
  <2> QED
    BY <2>1, <2>2 DEF QuietInv, RecordIsKnown, Told, NoSend
<1> QED
  BY <1>1, <1>2, <1>3, UplinkTypeCorrect, PTL DEF Spec

-----------------------------------------------------------------------------
(* Why no hold is lifted early: the wait of a started reporter is armed or *)
(* has run out, and a send that begins says null only when it is not armed.*)
LEMMA WaitStep == TypeOK /\ WaitInv /\ [Next]_vars => WaitInv'
<1> SUFFICES ASSUME TypeOK, WaitInv, [Next]_vars PROVE WaitInv'
  OBVIOUS
<1> USE DEF WaitInv, outside
<1>1. CASE Start \/ Up
  BY <1>1 DEF Start, Up, StartReporter
<1>2. CASE Down \/ Adopt
  BY <1>2 DEF Down, Adopt
<1>3. ASSUME NEW v \in State \cup {Other, None}, Delta(v) PROVE WaitInv'
  BY <1>3 DEF Delta
<1>4. CASE WaitOver \/ Resend \/ ListRead \/ ListArrives
  BY <1>4 DEF WaitOver, Resend, ListRead, ListArrives
<1>5. CASE PutTaken \/ PutAnswered \/ PutFails
  BY <1>5 DEF PutTaken, PutAnswered, PutFails
<1>6. CASE ServerRestarts \/ ListChanges \/ UNCHANGED vars
  BY <1>6 DEF ServerRestarts, ListChanges, vars
<1> QED
  BY <1>1, <1>2, <1>3, <1>4, <1>5, <1>6 DEF Next

(* What a step that begins a send tells the server. *)
LEMMA BegunNull ==
  ASSUME Report \/ Finish, NullSent PROVE ~wait'
BY DEF Report, Finish, NullSent, Begin, PutUnlessTold, NoSend

(* Unless the plugin list had no signalk-internet enabled, a started       *)
(* reporter sends no null before its wait has run out: whatever overtakes  *)
(* a send, the decision is made with the wait that start() or the latest   *)
(* null began.                                                             *)
THEOREM HoldIsKept == Spec => HoldKept
<1>1. Init => WaitInv
  BY DEF Init, WaitInv
<1>2. TypeOK /\ WaitInv /\ [Next]_vars => WaitInv'
  BY WaitStep
<1>3. TypeOK /\ WaitInv /\ WaitInv' /\ [Next]_vars
        => [NullSent /\ started' => waited' \/ send.pc = "absent"]_vars
  <2> SUFFICES ASSUME TypeOK, WaitInv, WaitInv', Next, NullSent, started'
               PROVE  waited' \/ send.pc = "absent"
    OBVIOUS
  <2>1. CASE Report \/ Finish
    BY <2>1, BegunNull DEF WaitInv
  <2>2. CASE ListArrives /\ ~Finish
    BY <2>2 DEF ListArrives, WaitInv, NullSent, PutUnlessTold, NoSend
  <2>3. CASE PutTaken
    BY <2>3 DEF PutTaken, NullSent
  <2>4. CASE Down \/ ServerRestarts \/ ListChanges
    BY <2>4 DEF Down, ServerRestarts, ListChanges, NullSent
  <2>5. CASE ListRead
    <3>1. send'.pc # "put"
      BY <2>5 DEF ListRead, TypeOK, NoSend
    <3> QED
      BY <3>1 DEF NullSent
  <2> QED
    BY <2>1, <2>2, <2>3, <2>4, <2>5
       DEF Next, Start, Up, Adopt, Delta, WaitOver, Resend, PutAnswered,
           PutFails
<1> QED
  BY <1>1, <1>2, <1>3, UplinkTypeCorrect, PTL DEF Spec, HoldKept
=============================================================================
