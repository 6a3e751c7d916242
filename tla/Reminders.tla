------------------------------ MODULE Reminders ------------------------------
(***************************************************************************)
(* The reminders of tomorrow's deliveries.  At eight every morning each    *)
(* API process asks for the orders due the next day, and for each of them  *)
(* looks for its reminder and inserts one if there is none; a unique index *)
(* on the reminder's key, the order and the day, settles races, and an     *)
(* error ends the whole round.                                             *)
(*                                                                         *)
(* A day has two halves, before and after eight; a round is over by the    *)
(* next half.                                                              *)
(***************************************************************************)
EXTENDS Naturals, FiniteSets

CONSTANTS
  Servers,    \* the API processes
  Deliveries, \* the scheduled orders
  LastHalf    \* bound: halves of days

ASSUME RemindersAssumption == LastHalf \in Nat /\ Deliveries # {}

VARIABLES
  half,       \* halves of days that have passed
  due,        \* the orders there are: order -> day of delivery
  reminders,  \* the reminders, by order and day: the unique key
  server,     \* what each process is doing
  expected,   \* history: the orders that were due the next day at eight
  remCauses   \* history: what can cost a reminder

remVars == <<half, due, reminders, server, expected, remCauses>>

Halves   == 0 .. LastHalf
Days     == 0 .. LastHalf \div 2 + 1
Today    == half \div 2
Morning  == half % 2 = 0
Reminder == [order : Deliveries, day : Days]

(* alarm: the day of the next round; left: the orders still to be looked   *)
(* at; order: the one whose reminder is about to be inserted.              *)
Server == [at : {"off", "waiting", "find", "look", "insert"}, alarm : Nat,
           left : SUBSET Deliveries, order : Deliveries]

Dues == UNION {[os -> Days] : os \in SUBSET Deliveries}

(* Mutant: the first round is on the next day. *)
NextAlarmTomorrow == Today + 1

(* scheduleUpcomingReminders: at eight today, or tomorrow if that is past. *)
NextAlarm == IF Morning THEN Today ELSE Today + 1

RemInit ==
  /\ half      = 0
  /\ due       = [o \in {} |-> 0]
  /\ reminders = {}
  /\ server    = [s \in Servers |-> [at |-> "waiting", alarm |-> 0, left |-> {},
                                     order |-> CHOOSE o \in Deliveries : TRUE]]
  /\ expected  = {}
  /\ remCauses = {}

InRound(s) == server[s].at \in {"find", "look", "insert"}

-----------------------------------------------------------------------------
(* The orders and the time *)

PlaceOrder(o, d) ==
  /\ o \notin DOMAIN due
  /\ d >= Today
  /\ due' = [x \in DOMAIN due \cup {o} |-> IF x = o THEN d ELSE due[x]]
  /\ UNCHANGED <<half, reminders, server, expected, remCauses>>

RemoveOrder(o) ==
  /\ o \in DOMAIN due
  /\ due' = [x \in DOMAIN due \ {o} |-> due[x]]
  /\ expected' = expected \ {o}
  /\ UNCHANGED <<half, reminders, server, remCauses>>

DueTomorrow == {o \in DOMAIN due : due[o] = Today + 1}

(* The timers that are set for this day must have fired by its end. *)
Pass ==
  /\ half < LastHalf
  /\ \A s \in Servers : /\ ~InRound(s)
                        /\ server[s].at = "waiting" => Morning \/ server[s].alarm > Today
  /\ half' = half + 1
  /\ expected' = IF Morning THEN DueTomorrow ELSE {}
  /\ remCauses' = IF Morning /\ \A s \in Servers : server[s].at = "off"
                    THEN remCauses \cup {"down"} ELSE remCauses
  /\ UNCHANGED <<due, reminders, server>>

-----------------------------------------------------------------------------
(* A round: processUpcomingReminders *)

Fire(s) ==
  /\ server[s].at = "waiting"
  /\ server[s].alarm = Today /\ ~Morning
  /\ server' = [server EXCEPT ![s].at = "find", ![s].alarm = Today + 1]
  /\ UNCHANGED <<half, due, reminders, expected, remCauses>>

(* The orders due tomorrow; a status the code never gives is left out. *)
FindOrders(s) ==
  /\ server[s].at = "find"
  /\ server' = [server EXCEPT ![s].at = "look", ![s].left = DueTomorrow]
  /\ UNCHANGED <<half, due, reminders, expected, remCauses>>

Known(o) == \E r \in reminders : r.order = o /\ r.day = Today + 1

(* findOne({reminderKey}) *)
Look(s, o) ==
  /\ server[s].at = "look"
  /\ o \in server[s].left
  /\ server' = [server EXCEPT ![s].left = @ \ {o},
                              ![s].at = IF Known(o) THEN "look" ELSE "insert",
                              ![s].order = o]
  /\ UNCHANGED <<half, due, reminders, expected, remCauses>>

(* createNotification: the index refuses a second reminder, and that error *)
(* ends the round of the loser, with what it had left.                     *)
InsertReminder(s) ==
  /\ server[s].at = "insert"
  /\ IF Known(server[s].order)
       THEN /\ server' = [server EXCEPT ![s].at = "waiting", ![s].left = {}]
            /\ UNCHANGED reminders
       ELSE /\ reminders' = reminders \cup
                 {[order |-> server[s].order, day |-> Today + 1]}
            /\ server' = [server EXCEPT ![s].at = "look"]
  /\ UNCHANGED <<half, due, expected, remCauses>>

EndRound(s) ==
  /\ server[s].at = "look"
  /\ server[s].left = {}
  /\ server' = [server EXCEPT ![s].at = "waiting"]
  /\ UNCHANGED <<half, due, reminders, expected, remCauses>>

-----------------------------------------------------------------------------
(* Faults *)

(* The database fails: the error is logged and nothing tries again. *)
RoundFails(s) ==
  /\ InRound(s)
  /\ server' = [server EXCEPT ![s].at = "waiting", ![s].left = {}]
  /\ remCauses' = remCauses \cup {"failed"}
  /\ UNCHANGED <<half, due, reminders, expected>>

(* A process stops.  That costs reminders if a round of its own was due or *)
(* under way.                                                              *)
StopServer(s) ==
  /\ server[s].at # "off"
  /\ server' = [server EXCEPT ![s].at = "off", ![s].left = {}]
  /\ remCauses' = IF InRound(s) \/ (server[s].alarm = Today /\ ~Morning)
                    THEN remCauses \cup {"stopped"} ELSE remCauses
  /\ UNCHANGED <<half, due, reminders, expected>>

(* onModuleInit *)
StartServer(s) ==
  /\ server[s].at = "off"
  /\ server' = [server EXCEPT ![s].at = "waiting", ![s].alarm = NextAlarm]
  /\ UNCHANGED <<half, due, reminders, expected, remCauses>>

-----------------------------------------------------------------------------

RemNext ==
  \/ Pass
  \/ \E o \in Deliveries : RemoveOrder(o) \/ \E d \in Days : PlaceOrder(o, d)
  \/ \E s \in Servers :
       \/ Fire(s) \/ FindOrders(s) \/ InsertReminder(s) \/ EndRound(s)
       \/ RoundFails(s) \/ StopServer(s) \/ StartServer(s)
       \/ \E o \in Deliveries : Look(s, o)

RemSpec == RemInit /\ [][RemNext]_remVars

-----------------------------------------------------------------------------
(* Properties *)

(* The shape of the state. *)
RemTypeOK ==
  /\ half \in Halves /\ due \in Dues
  /\ reminders \subseteq Reminder
  /\ server \in [Servers -> Server]
  /\ expected \subseteq Deliveries
  /\ remCauses \subseteq {"down", "failed", "stopped"}

(* The processes have done their rounds of the day. *)
RoundsAreOver ==
  \A s \in Servers : ~InRound(s) /\ (server[s].at = "waiting" => server[s].alarm > Today)

(* When the rounds of a day are over, every order that was there at eight, *)
(* is there still and is due tomorrow has a reminder, unless a round       *)
(* failed or stopped, or no process was up at eight: those who lose a race *)
(* give up what they had left, but never all of them at once.              *)
DeliveriesAreReminded ==
  ~Morning /\ RoundsAreOver /\ remCauses = {}
    => \A o \in expected : Known(o)

=============================================================================
