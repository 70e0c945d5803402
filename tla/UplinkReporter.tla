--------------------------- MODULE UplinkReporter ---------------------------
(***************************************************************************)
(* The uplink reporter of src/uplink-state.ts: what signalk-internet says  *)
(* about the link is told to the backup server, one PUT at a time, while   *)
(* the plugin starts and stops the reporter, the server is replaced or     *)
(* restarts and PUTs fail.                                                 *)
(*                                                                         *)
(* A step is the code between two awaits of something outside the plugin:  *)
(* the plugin list, and the PUT.                                           *)
(***************************************************************************)
EXTENDS Naturals

CONSTANTS
  State,        \* the link states signalk-internet publishes
  Other,        \* a value the backup server does not know
  Unset,        \* no value since start()
  Forgotten,    \* what a server that has just started knows
  None,         \* null
  MaxEvents,    \* bound on what happens to the reporter from outside
  MaxClients    \* bound on the BackupClients created

Client == 1..MaxClients
Value == State \cup {Other, Unset, None}

ASSUME BoundsAssumption == MaxEvents \in Nat /\ MaxClients \in Nat
ASSUME NamesDistinct ==
  /\ {Other, Unset, Forgotten, None} \cap (State \cup Client) = {}
  /\ None \notin [to : Client, state : State \cup {None}]

VARIABLES
  started,      \* subscribed, and the resend timer is armed
  value,        \* signalk-internet's last value since start()
  wait,         \* waitTimer is armed
  last,         \* what is recorded as told to which client
  send,         \* the send under way, at "ask", "enabled", "absent", "put"
                \* or "told"
  queued,
  generation,
  target,       \* the plugin's client
  clients,      \* how many clients were created
  known,        \* what the server behind each client was told last
  listed,       \* the plugin list has signalk-internet enabled
  waited,       \* history: the wait ran out since the last start or null
  unsure,       \* history: a PUT failed or the server restarted since
  events        \* how much has happened from outside

outside == <<target, clients, listed, events>>
vars == <<started, value, wait, last, send, queued, generation, known, waited,
          unsure, outside>>

NoSend == [pc |-> "none", to |-> None, state |-> None, gen |-> 0]

-----------------------------------------------------------------------------
(* Faulty variant: an unknown value is passed on. *)
AnyValue(v) == IF v = Unset THEN None ELSE v

ToUplinkState(v) == IF v \in State THEN v ELSE None

Told(t, s) == [to |-> t, state |-> s]

(* The second half of send(): nothing is sent that the target already has. *)
PutUnlessTold(t, s, g) ==
  IF last' = Told(t, s) THEN NoSend
  ELSE [pc |-> "put", to |-> t, state |-> s, gen |-> g]

(* A new send reads the state, and asks for the plugin list only when a    *)
(* missing state is still waited for.                                      *)
Begin == IF ToUplinkState(value') = None /\ wait'
           THEN [pc |-> "ask", to |-> target', state |-> None,
                 gen |-> generation']
           ELSE PutUnlessTold(target', ToUplinkState(value'), generation')

(* report(): one send at a time; a call during a send runs after it. *)
Report ==
  \/ send # NoSend /\ queued' = TRUE /\ UNCHANGED send
  \/ send = NoSend /\ target' # None /\ send' = Begin /\ UNCHANGED queued
  \/ send = NoSend /\ target' = None /\ UNCHANGED <<send, queued>>

(* Faulty variant: what was queued is forgotten. *)
FinishForgetful == send' = NoSend /\ queued' = FALSE

(* A send is over: a queued report runs. *)
Finish == /\ queued' = FALSE
          /\ send' = IF queued /\ target' # None THEN Begin ELSE NoSend

(* stop(), as a part of start() too. *)
Clear == /\ value' = Unset
         /\ last' = None
         /\ generation' = generation + 1
         /\ waited' = FALSE

Event == events < MaxEvents /\ events' = events + 1

Init == /\ started = FALSE /\ value = Unset /\ wait = FALSE /\ last = None
        /\ send = NoSend /\ queued = FALSE /\ generation = 0
        /\ target = None /\ clients = 0
        /\ known = [c \in Client |-> Forgotten]
        /\ listed \in BOOLEAN
        /\ waited = FALSE /\ unsure = FALSE /\ events = 0

-----------------------------------------------------------------------------
(* What the plugin does with the reporter.  start() subscribes, stop() has *)
(* cleared what there was before.                                          *)

StartReporter == /\ Clear
                 /\ started' = TRUE
                 /\ wait' = TRUE
                 /\ unsure' = FALSE

(* A recreated server that kept its address: start() alone. *)
Start == /\ Event
         /\ StartReporter
         /\ UNCHANGED <<known, target, clients, listed>>
         /\ Report

NewClient == /\ clients < MaxClients
             /\ clients' = clients + 1
             /\ target' = clients'

(* A startup is over: the client is published and the reporter started. *)
Up == /\ Event
      /\ NewClient
      /\ StartReporter
      /\ UNCHANGED <<known, listed>>
      /\ Report

(* The plugin is stopped or started again: no reporter, no client. *)
Down == /\ Event
        /\ Clear
        /\ started' = FALSE
        /\ wait' = FALSE
        /\ target' = None
        /\ UNCHANGED <<send, queued, known, unsure, clients, listed>>

(* adoptServerAddress: a client for the container's new address. *)
Adopt == /\ target # None
         /\ Event
         /\ NewClient
         /\ unsure' = FALSE
         /\ UNCHANGED <<started, value, wait, last, generation, known, waited,
                        listed>>
         /\ Report

-----------------------------------------------------------------------------
(* Faulty variant: a null starts no wait. *)
DeltaWithoutWait(v) ==
  /\ started
  /\ Event
  /\ value' = v
  /\ waited' = (waited /\ v # None)
  /\ UNCHANGED <<started, wait, last, generation, known, unsure, target,
                 clients, listed>>
  /\ Report

(* onDelta: signalk-internet published v; a null starts a new wait. *)
Delta(v) ==
  /\ started
  /\ Event
  /\ value' = v
  /\ wait' = (wait \/ v = None)
  /\ waited' = (waited /\ v # None)
  /\ UNCHANGED <<started, last, generation, known, unsure, target, clients,
                 listed>>
  /\ Report

(* waitTimer fires. *)
WaitOver == /\ wait
            /\ wait' = FALSE
            /\ waited' = TRUE
            /\ UNCHANGED <<started, value, last, generation, known, unsure,
                           outside>>
            /\ Report

(* Faulty variant: a state the server was told is not sent again. *)
ResendChanges == /\ started
                 /\ UNCHANGED <<started, value, wait, last, generation, known,
                                waited, unsure, outside>>
                 /\ Report

(* resendTimer fires. *)
Resend == /\ started
          /\ last' = None
          /\ UNCHANGED <<started, value, wait, generation, known, waited,
                         unsure, outside>>
          /\ Report

(* The server lists its plugins; much can change before the list arrives.  *)
ListRead ==
  /\ send.pc = "ask"
  /\ send' = [send EXCEPT !.pc = IF listed THEN "enabled" ELSE "absent"]
  /\ UNCHANGED <<started, value, wait, last, queued, generation, known, waited,
                 unsure, outside>>

(* The list arrives.  A state that came meanwhile is believed; a missing   *)
(* one is waited for where the list has signalk-internet enabled.          *)
ListArrives ==
  /\ send.pc \in {"enabled", "absent"}
  /\ UNCHANGED <<started, value, wait, last, generation, known, waited, unsure,
                 outside>>
  /\ LET put == PutUnlessTold(send.to, ToUplinkState(value), send.gen)
         hold == ToUplinkState(value) = None /\ send.pc = "enabled" /\ wait
     IN  IF hold \/ put = NoSend
           THEN Finish
           ELSE send' = put /\ UNCHANGED queued

(* The server takes the PUT. *)
PutTaken == /\ send.pc = "put"
            /\ known' = [known EXCEPT ![send.to] = send.state]
            /\ unsure' = (unsure /\ (send.to # target \/ send.gen # generation))
            /\ send' = [send EXCEPT !.pc = "told"]
            /\ UNCHANGED <<started, value, wait, last, queued, generation,
                           waited, outside>>

(* Faulty variant: a send that stop() overtook is recorded. *)
PutAnsweredAnyway == /\ send.pc = "told"
                     /\ last' = Told(send.to, send.state)
                     /\ UNCHANGED <<started, value, wait, generation, known,
                                    waited, unsure, outside>>
                     /\ Finish

(* The PUT is answered; a send that stop() overtook is not recorded. *)
PutAnswered ==
  /\ send.pc = "told"
  /\ last' = IF send.gen = generation THEN Told(send.to, send.state) ELSE last
  /\ UNCHANGED <<started, value, wait, generation, known, waited, unsure,
                 outside>>
  /\ Finish

(* The PUT fails, before or after the server took it. *)
PutFails == /\ send.pc \in {"put", "told"}
            /\ Event
            /\ unsure' = TRUE
            /\ UNCHANGED <<started, value, wait, last, generation, known,
                           waited, target, clients, listed>>
            /\ Finish

-----------------------------------------------------------------------------
(* The server restarts and forgets, which the plugin may not see. *)
ServerRestarts == /\ target # None
                  /\ Event
                  /\ known' = [known EXCEPT ![target] = Forgotten]
                  /\ unsure' = TRUE
                  /\ UNCHANGED <<started, value, wait, last, send, queued,
                                 generation, waited, target, clients, listed>>

(* signalk-internet is enabled or disabled, or the list cannot be read. *)
ListChanges == /\ Event
               /\ listed' = ~listed
               /\ UNCHANGED <<started, value, wait, last, send, queued,
                              generation, known, waited, unsure, target,
                              clients>>

Next == \/ Start \/ Up \/ Down \/ Adopt
        \/ \E v \in State \cup {Other, None} : Delta(v)
        \/ WaitOver \/ Resend \/ ListRead \/ ListArrives
        \/ PutTaken \/ PutAnswered \/ PutFails
        \/ ServerRestarts \/ ListChanges

Spec == Init /\ [][Next]_vars

(* Both timers fire, the list arrives and every PUT that does not fail is  *)
(* taken and answered.                                                     *)
FairSpec == /\ Spec
            /\ WF_vars(WaitOver) /\ WF_vars(Resend)
            /\ WF_vars(ListRead \/ ListArrives \/ PutTaken \/ PutAnswered)

-----------------------------------------------------------------------------
(* The reporter's variables have their types: what is sent and recorded is *)
(* a state the backup server knows, or null.                               *)
TypeOK ==
  /\ started \in BOOLEAN /\ wait \in BOOLEAN /\ queued \in BOOLEAN
  /\ value \in Value
  /\ last \in [to : Client, state : State \cup {None}] \cup {None}
  /\ send \in [pc : {"ask", "enabled", "absent", "put", "told"}, to : Client,
               state : State \cup {None}, gen : Nat] \cup {NoSend}
  /\ generation \in Nat
  /\ target \in Client \cup {None} /\ clients \in 0..MaxClients
  /\ known \in [Client -> State \cup {None, Forgotten}]
  /\ listed \in BOOLEAN /\ waited \in BOOLEAN /\ unsure \in BOOLEAN
  /\ events \in 0..MaxEvents

(* When no send is under way the server has been told the current state:   *)
(* no change is lost behind a send, a replaced client or a stop() and      *)
(* start() that a send outlives.  Where a PUT failed or the server         *)
(* restarted unseen, this waits for the next PUT.                          *)
QuietMeansKnown ==
  /\ started /\ target # None /\ send = NoSend /\ ~unsure
  /\ ToUplinkState(value) # None \/ ~wait
  => known[target] = ToUplinkState(value)

NullSent == /\ send' # send
            /\ send'.pc = "put"
            /\ send'.state = None

(* A running reporter lifts no hold early: unless the list it asked for    *)
(* had no signalk-internet enabled, it sends no null before the wait that  *)
(* start() or signalk-internet's own null began has run out.               *)
HoldKept == [][NullSent /\ started' => waited' \/ send.pc = "absent"]_vars

(* Once things settle the server knows the state, also after restarts the  *)
(* plugin did not see and PUTs that failed.                                *)
Learned ==
  <>[](started /\ target # None => known[target] = ToUplinkState(value))
=============================================================================
