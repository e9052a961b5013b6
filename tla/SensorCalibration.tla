------------------------- MODULE SensorCalibration --------------------------
(***************************************************************************)
(* Calibration of a window, door or universal sensor: the CRE library of    *)
(* its type (ws02-16.lua, ds02-134.lua, um01-9.lua) and the endnode handler *)
(* of gwctl, both in the Lua interpreter of the base, which runs one        *)
(* handler at a time; the marker file /tmp/gwarm.<devId> between them; the  *)
(* sensor; and the user, who moves the window, presses the sensor's button, *)
(* and orders commands in Home Assistant.                                   *)
(*                                                                          *)
(* Libraries and markers keep a state per sensor, so one sensor will do.    *)
(* The sensor sleeps: a command reaches it for sure only as the answer to   *)
(* its own event.  A ws02 takes "cal" only while it asks for a calibration, *)
(* and takes the position it is in for closed.  A um01 restarts on          *)
(* "cfgclose" and then takes its position for closed; "cal2" makes it take  *)
(* another one for open.  A ds02 is a ws02 by another name.                 *)
(*                                                                          *)
(* Home Assistant shows the buttons of a type at all times, and the gateway *)
(* accepts what they order at all times: nothing keeps the user from moving *)
(* the window before an order has arrived, or from ordering again.          *)
(***************************************************************************)
EXTENDS Naturals

CONSTANTS
    Position, None,
    Types,          \* types of sensors, of "ws02", "um01"
    Keen,           \* does the user press the button again and again?
    MaxQueue,       \* bound on the orders of one command that are on their way
    MaxOrders, MaxMoves, MaxReloads, MaxWords  \* bounds

ASSUME SensorCalibrationAssumption ==
    /\ None \notin Position /\ Types \subseteq {"ws02", "um01"}
    /\ Keen \in BOOLEAN /\ MaxQueue \in Nat \ {0}
    /\ {MaxOrders, MaxMoves, MaxReloads, MaxWords} \subseteq Nat

VARIABLES
    type,           \* of the sensor
    position,       \* of the window
    zero, far,      \* what the sensor takes for closed, and a um01 for open, or None
    asks,           \* has a ws02 sent calreq since it was calibrated last?
    saving,         \* the end a um01 is about to store, "zero" or "far", or "none"
    event,          \* its event the base has not handled yet, or "none"
    awaiting,       \* state[devId].awaiting, of the library
    marker,         \* /tmp/gwarm.<devId>, or "none"
    pending,        \* how many orders of each command are on their way; two sources
                    \* and two channels carry them, so they arrive in any order
    confirmed,      \* history: where the user confirmed the position last, None
                    \* after a move
    moved,          \* history: did a move since then overtake an order or a press?
    words,          \* history: how often the user has asked for a calibration (at
                    \* most MaxWords counted), less the calibrations since
    pressed,        \* history: has a user who is not keen pressed the button since
                    \* the last order arrived?
    orders, moves, reloads  \* counters

sensor == <<type, position, zero, far, asks, saving>>
base   == <<awaiting, marker>>
user   == <<confirmed, moved, words, pressed>>
counts == <<orders, moves, reloads>>
vars   == <<sensor, event, base, pending, user, counts>>

\* What the buttons of a type order: calibrate and cal_reset, or calibrate_step1,
\* calibrate_step2 and cal_reset.
Buttons == [ws02 |-> {"cal", "recal"}, um01 |-> {"cfgclose", "cal2", "recal"}]
Command == UNION {Buttons[t] : t \in DOMAIN Buttons}
Storing == Command \ {"recal"}

Init ==
    /\ type \in Types
    /\ position \in Position /\ zero \in Position \cup {None} /\ asks = FALSE
    /\ far \in IF type = "um01" /\ zero # None THEN Position \cup {None} ELSE {None}
    /\ saving = "none" /\ event = "none" /\ awaiting = FALSE /\ marker = "none"
    /\ pending = [c \in Command |-> 0]
    /\ confirmed = None /\ moved = FALSE /\ words = 0 /\ pressed = FALSE
    /\ orders = 0 /\ moves = 0 /\ reloads = 0

-----------------------------------------------------------------------------
(* The sensor *)

Served == words' = IF words = 0 THEN 0 ELSE words - 1
Calibrated == zero # None /\ (type = "um01" => far # None)

\* A ws02 takes command c, or ignores it; a calibration is confirmed with caldone.
TakeWindow(c) ==
    /\ UNCHANGED <<far, saving>>
    /\ CASE c = "cal" /\ asks ->
               zero' = position /\ asks' = FALSE /\ event' = "caldone" /\ Served
         [] c = "recal" ->
               zero' = None /\ asks' = FALSE /\ event' = "none" /\ UNCHANGED words
         [] OTHER -> event' = "none" /\ UNCHANGED <<zero, asks, words>>
\* A um01 begins a step, and says so.  "recal" it only acknowledges; whether it drops
\* what it has stored, nobody has found out.
TakeUniversal(c) ==
    /\ UNCHANGED <<asks, words>>
    /\ CASE c = "cfgclose"             ->
               saving' = "zero" /\ event' = "started" /\ UNCHANGED <<zero, far>>
         [] c = "cal2" /\ zero # None ->
               saving' = "far" /\ event' = "started" /\ UNCHANGED <<zero, far>>
         [] c = "recal"               ->
               /\ event' = "report" /\ UNCHANGED saving
               /\ UNCHANGED <<zero, far>> \/ (zero' = None /\ far' = None)
         [] OTHER                     -> event' = "none" /\ UNCHANGED <<zero, far, saving>>
Take(c) == IF type = "um01" THEN TakeUniversal(c) ELSE TakeWindow(c)

\* Some seconds later the um01 stores its position: cal1done, cal2done.
Store ==
    /\ saving # "none" /\ event = "none"
    /\ IF saving = "zero" THEN zero' = position /\ far' = None ELSE far' = position /\ UNCHANGED zero
    /\ saving' = "none" /\ event' = "caldone" /\ Served
    /\ UNCHANGED <<type, position, asks, base, pending, confirmed, moved, pressed, counts>>

\* Not calibrated, it asks again and again: calreq, cal1req, cal2req.
Ask ==
    /\ ~Calibrated /\ saving = "none" /\ event = "none"
    /\ asks' = (type = "ws02") /\ event' = "calreq"
    /\ UNCHANGED <<type, position, zero, far, saving, base, pending, user, counts>>

\* Its other reports: the position, battery, a sign of life.
Report ==
    /\ event = "none" /\ event' = "report"
    /\ UNCHANGED <<sensor, base, pending, user, counts>>

-----------------------------------------------------------------------------
(* The base *)

\* on_ule_event: caldone ends everything that was under way.
CalDone ==
    /\ event = "caldone" /\ event' = "none"
    /\ awaiting' = FALSE /\ marker' = "none"
    /\ UNCHANGED <<sensor, pending, user, counts>>

\* A command in the marker goes before anything else; "recal" resets the library
\* of a ws02; that of a um01 keeps no state.
SendArmed ==
    /\ event \notin {"none", "caldone"} /\ marker # "none"
    /\ Take(marker) /\ marker' = "none"
    /\ awaiting' = IF marker = "cal" THEN awaiting ELSE FALSE
    /\ UNCHANGED <<type, position, pending, confirmed, moved, pressed, counts>>

\* Mutant of Button: the press is answered only while nothing is awaited.
ButtonNever ==
    /\ type = "ws02" /\ event = "button" /\ marker = "none"
    /\ IF awaiting \/ ~asks THEN Take("none") ELSE Take("cal")
    /\ UNCHANGED <<type, position, base, pending, confirmed, moved, pressed, counts>>
\* The button, pressed while a calreq is waiting, confirms the position.
Button ==
    /\ type = "ws02" /\ event = "button" /\ marker = "none"
    /\ IF awaiting THEN Take("cal") ELSE Take("none")
    /\ UNCHANGED <<type, position, base, pending, confirmed, moved, pressed, counts>>

\* Mutant of CalReq: it is answered at once (the library before ws02-16.lua).
CalReqAnswered ==
    /\ type = "ws02" /\ event = "calreq" /\ marker = "none"
    /\ Take("cal") /\ awaiting' = TRUE
    /\ UNCHANGED <<type, position, marker, pending, confirmed, moved, pressed, counts>>
\* Mutant of CalReq: the library puts its own command into the marker.
CalReqArms ==
    /\ type = "ws02" /\ event = "calreq" /\ marker = "none"
    /\ event' = "none" /\ awaiting' = TRUE /\ marker' = "calreq"
    /\ UNCHANGED <<sensor, pending, user, counts>>
\* A calreq is noted, and only the log hears of the ones after it.
CalReq ==
    /\ type = "ws02" /\ event = "calreq" /\ marker = "none"
    /\ event' = "none" /\ awaiting' = TRUE
    /\ UNCHANGED <<sensor, marker, pending, user, counts>>

Ignore ==
    /\ type = "ws02" /\ event = "report" /\ marker = "none" /\ event' = "none"
    /\ UNCHANGED <<sensor, base, pending, user, counts>>

\* Mutant of Measure: a um01 that asks for its first step is made to take it.
MeasureAnswers ==
    /\ type = "um01" /\ event \notin {"none", "caldone"} /\ marker = "none"
    /\ Take(IF event = "calreq" /\ zero = None THEN "cfgclose" ELSE "temp")
    /\ UNCHANGED <<type, position, base, pending, confirmed, moved, pressed, counts>>
\* To a um01 there is nothing else to say, but perhaps "temp".
Measure ==
    /\ type = "um01" /\ event \notin {"none", "caldone"} /\ marker = "none"
    /\ Take("temp")
    /\ UNCHANGED <<type, position, base, pending, confirmed, moved, pressed, counts>>

Handle == CalDone \/ SendArmed \/ Button \/ CalReq \/ Ignore \/ Measure

\* gwctl has polled an order: endnode() leaves the marker and sends the command at
\* once, to a sensor that may be asleep.
Endnode(c) ==
    /\ pending[c] > 0 /\ pending' = [pending EXCEPT ![c] = @ - 1]
    /\ marker' = c /\ pressed' = FALSE
    /\ \/ event = "none" /\ Take(c)
       \/ UNCHANGED <<zero, far, asks, saving, event, words>>
    /\ UNCHANGED <<type, position, awaiting, confirmed, moved, counts>>

\* Or it comes through the events channel: on_cloud_event, without a marker.
CloudEvent(c) ==
    /\ pending[c] > 0 /\ pending' = [pending EXCEPT ![c] = @ - 1]
    /\ awaiting' = FALSE /\ pressed' = FALSE
    /\ \/ event = "none" /\ Take(c)
       \/ UNCHANGED <<zero, far, asks, saving, event, words>>
    /\ UNCHANGED <<type, position, marker, confirmed, moved, counts>>

\* The CRE is loaded anew and forgets; the marker stays in /tmp.
Reload ==
    /\ reloads < MaxReloads /\ reloads' = reloads + 1
    /\ awaiting' = FALSE
    /\ UNCHANGED <<sensor, event, marker, pending, user, orders, moves>>

-----------------------------------------------------------------------------
(* The user *)

Word == words' = IF words < MaxWords THEN words + 1 ELSE words

\* Has the user asked for a calibration that may still come?
Asked ==
    \/ \E c \in Storing : pending[c] > 0
    \/ event # "caldone" /\ (marker \in Storing \/ saving # "none")
    \/ type = "ws02" /\ event = "button"

\* The window is moved; between the two steps of a um01 it has to be.
Move(p) ==
    /\ p # position /\ position' = p /\ confirmed' = None
    /\ moved' = (moved \/ Asked)
    /\ IF type = "um01" /\ zero = position /\ far = None
          THEN UNCHANGED moves ELSE moves < MaxMoves /\ moves' = moves + 1
    /\ event' = IF event = "none" /\ Calibrated THEN "report" ELSE event
    /\ UNCHANGED <<type, zero, far, asks, saving, base, pending, words, pressed, orders, reloads>>

Press ==
    /\ event = "none" /\ event' = "button"
    /\ ~pressed /\ pressed' = ~Keen
    /\ IF type = "ws02" THEN confirmed' = position /\ moved' = FALSE /\ Word
                        ELSE UNCHANGED <<confirmed, moved, words>>
    /\ UNCHANGED <<sensor, base, pending, counts>>

\* The next step of a um01; ordered again when nothing came of it, it is not counted.
Needed(c) ==
    /\ type = "um01" /\ ~Asked
    /\ \/ c = "cfgclose" /\ zero = None
       \/ c = "cal2" /\ zero \notin {None, position} /\ far = None

\* A button in Home Assistant.
Order(c) ==
    /\ c \in Buttons[type]
    /\ pending[c] < MaxQueue /\ pending' = [pending EXCEPT ![c] = @ + 1]
    /\ IF Needed(c) THEN UNCHANGED orders ELSE orders < MaxOrders /\ orders' = orders + 1
    /\ IF c \in Storing THEN confirmed' = position /\ moved' = FALSE /\ Word
                       ELSE UNCHANGED <<confirmed, moved, words>>
    /\ UNCHANGED <<sensor, event, base, pressed, moves, reloads>>

Next ==
    \/ Ask \/ Report \/ Store \/ Handle \/ Reload \/ Press
    \/ \E p \in Position : Move(p)
    \/ \E c \in Command : Order(c) \/ Endnode(c) \/ CloudEvent(c)

Spec == Init /\ [][Next]_vars

(***************************************************************************)
(* Fairness: the base handles what it is sent and keeps polling, the sensor *)
(* asks until it is calibrated, a keen user presses its button, and goes on *)
(* with the steps of a um01.                                                *)
(***************************************************************************)
FairSpec ==
    /\ Spec
    /\ WF_vars(Handle) /\ SF_vars(Ask) /\ SF_vars(Store) /\ SF_vars(Press)
    /\ SF_vars(\E c \in Command : Endnode(c)) /\ SF_vars(\E c \in Command : Needed(c) /\ Order(c))
    /\ SF_vars(type = "um01" /\ zero = position /\ far = None /\ \E p \in Position : Move(p))

-----------------------------------------------------------------------------
TypeOK ==
    /\ type \in Types /\ position \in Position /\ {zero, far} \subseteq Position \cup {None}
    /\ saving \in {"none", "zero", "far"} /\ marker \in Command \cup {"none"}
    /\ {asks, awaiting, moved, pressed} \subseteq BOOLEAN
    /\ event \in {"none", "calreq", "caldone", "started", "button", "report"}
    /\ pending \in [Command -> 0..MaxQueue]
    /\ confirmed \in Position \cup {None} /\ words \in 0..MaxWords
    /\ orders \in 0..MaxOrders /\ moves \in 0..MaxMoves /\ reloads \in 0..MaxReloads

Stores == \/ zero' # zero /\ zero' # None
          \/ far' # far /\ far' # None

\* A sensor stores a position only on the user's word, a press of its button or an order
\* from Home Assistant, and no word serves twice ("never on a timer, and
\* never without that confirmation").
OnlyOnWord == [][Stores => words > 0]_vars

\* A sensor stores the position the user has confirmed by the button, or ordered the
\* command in, with no move since, however often the command reaches it ("answering
\* automatically could capture whatever position it happened to be in"): unless the
\* window was moved before an order or a press had arrived and been answered.
AsConfirmed == [][Stores /\ ~moved => position = confirmed]_vars

\* A user who goes on pressing the button, and ordering the steps of a um01, gets the
\* sensor calibrated, whatever else was ordered and whatever the CRE forgot.
GetsCalibrated == ~Calibrated ~> Calibrated

\* "Press the button on the sensor itself.  This both wakes it and confirms the position
\* is correct now - the bundled library sends cal in response, and the current position
\* becomes closed" (gigaset_gateway/DOCS.md:241-243; by README.md:361-364 not even the
\* confirmation is needed).  But the press that wakes the sensor is spent on the marker.
PressCalibrates == event = "button" /\ marker = "recal" ~> Calibrated
=============================================================================
