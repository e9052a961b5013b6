---------------------- MODULE SensorCalibration_proofs ----------------------
(***************************************************************************)
(* A sensor is calibrated only on the user's word, and where the user said, *)
(* for any positions, orders, moves, presses and reloads, at any time.      *)
(***************************************************************************)
EXTENDS SensorCalibration, TLAPS

One(b) == IF b THEN 1 ELSE 0

\* The words of the user that a ws02 may still be calibrated on: the orders on their
\* way, a marker, a press the base has not handled.  caldone ends the last two.
OpenWindow == pending["cal"]
              + (IF event = "caldone" THEN 0 ELSE One(marker = "cal") + One(event = "button"))

WindowInv ==
    type = "ws02" =>
        /\ saving = "none" /\ marker \notin {"cfgclose", "cal2"}
        /\ pending["cfgclose"] = 0 /\ pending["cal2"] = 0
        /\ words >= OpenWindow

\* And those of a um01: the marker and the step under way are one order, sent twice.
OpenUniversal == pending["cfgclose"] + pending["cal2"]
                 + (IF event = "caldone" THEN 0
                    ELSE One(marker \in {"cfgclose", "cal2"} \/ saving # "none"))

UniversalInv ==
    type = "um01" =>
        /\ pending["cal"] = 0 /\ marker # "cal"
        /\ event = "caldone" => saving = "none"
        /\ words >= OpenUniversal

\* Where the user has confirmed it, if nothing has been moved before the answer.
PlaceInv == Asked /\ ~moved => position = confirmed

CalibrationInv == TypeOK /\ WindowInv /\ UniversalInv /\ PlaceInv

\* No count of the user's words is cut off while it matters.
CountsEnough == MaxWords >= 2 * MaxQueue + 2

-----------------------------------------------------------------------------
LEMMA Commands ==
    /\ Command = {"cal", "recal", "cfgclose", "cal2"}
    /\ Storing = {"cal", "cfgclose", "cal2"}
<1>1. DOMAIN Buttons = {"ws02", "um01"}
  BY DEF Buttons
<1>2. Buttons["ws02"] = {"cal", "recal"} /\ Buttons["um01"] = {"cfgclose", "cal2", "recal"}
  BY DEF Buttons
<1>3. Command = {"cal", "recal", "cfgclose", "cal2"}
  BY <1>1, <1>2 DEF Command
<1>. QED  BY <1>3 DEF Storing

\* Asked, with the commands spelled out.
LEMMA AskedIs ==
    /\ Asked <=> \/ pending["cal"] > 0 \/ pending["cfgclose"] > 0 \/ pending["cal2"] > 0
                 \/ event # "caldone" /\ (marker \in {"cal", "cfgclose", "cal2"} \/ saving # "none")
                 \/ type = "ws02" /\ event = "button"
    /\ Asked' <=> \/ pending'["cal"] > 0 \/ pending'["cfgclose"] > 0 \/ pending'["cal2"] > 0
                  \/ event' # "caldone" /\ (marker' \in {"cal", "cfgclose", "cal2"} \/ saving' # "none")
                  \/ type' = "ws02" /\ event' = "button"
<1>1. Storing = {"cal", "cfgclose", "cal2"}
  BY Commands
<1>. QED  BY <1>1 DEF Asked, Storing

LEMMA InitCalibrated == Init => CalibrationInv
<1>. SUFFICES ASSUME Init PROVE CalibrationInv
  OBVIOUS
<1>1. far \in Position \cup {None}
  BY DEF Init
<1>2. /\ type \in Types /\ position \in Position /\ zero \in Position \cup {None}
      /\ asks = FALSE /\ awaiting = FALSE /\ pressed = FALSE /\ moved = FALSE /\ confirmed = None
      /\ saving = "none" /\ event = "none" /\ marker = "none"
      /\ words = 0 /\ orders = 0 /\ moves = 0 /\ reloads = 0
  BY DEF Init
<1>3. pending = [c \in Command |-> 0]
  BY DEF Init
<1>4. /\ 0 \in 0..MaxWords /\ 0 \in 0..MaxOrders /\ 0 \in 0..MaxMoves /\ 0 \in 0..MaxReloads
      /\ 0 \in 0..MaxQueue
  BY SensorCalibrationAssumption
<1>5. pending \in [Command -> 0..MaxQueue]
  BY <1>3, <1>4
<1>6. pending["cal"] = 0 /\ pending["cfgclose"] = 0 /\ pending["cal2"] = 0
  BY <1>3, Commands
<1>7. TypeOK
  BY <1>1, <1>2, <1>4, <1>5 DEF TypeOK
<1>8. ~Asked
  BY <1>2, <1>6, AskedIs
<1>. QED  BY <1>2, <1>6, <1>7, <1>8 DEF CalibrationInv, WindowInv, UniversalInv, PlaceInv,
          OpenWindow, OpenUniversal, One

\* What the invariant says of types, and what the counters of orders are.
LEMMA Typed ==
    ASSUME CalibrationInv
    PROVE  /\ type \in {"ws02", "um01"} /\ position \in Position
           /\ zero \in Position \cup {None} /\ far \in Position \cup {None}
           /\ asks \in BOOLEAN /\ saving \in {"none", "zero", "far"} /\ words \in Nat
           /\ words \in 0..MaxWords /\ MaxWords \in Nat /\ MaxQueue \in Nat
           /\ pending["cal"] \in 0..MaxQueue /\ pending["recal"] \in 0..MaxQueue
           /\ pending["cfgclose"] \in 0..MaxQueue /\ pending["cal2"] \in 0..MaxQueue
<1>1. /\ type \in Types /\ position \in Position /\ {zero, far} \subseteq Position \cup {None}
      /\ asks \in BOOLEAN /\ saving \in {"none", "zero", "far"} /\ words \in 0..MaxWords
      /\ pending \in [Command -> 0..MaxQueue]
  BY DEF CalibrationInv, TypeOK
<1>2. Types \subseteq {"ws02", "um01"} /\ MaxWords \in Nat /\ MaxQueue \in Nat
  BY SensorCalibrationAssumption
<1>. QED  BY <1>1, <1>2, Commands

\* What a command does to a ws02.
LEMMA WindowTakes ==
    ASSUME CalibrationInv, type = "ws02", NEW c, Take(c)
    PROVE  /\ far' = far /\ saving' = saving /\ asks' \in BOOLEAN
           /\ \/ /\ c = "cal" /\ zero' = position /\ event' = "caldone"
                 /\ words' = IF words = 0 THEN 0 ELSE words - 1
              \/ zero' \in {zero, None} /\ event' = "none" /\ words' = words
<1>1. TakeWindow(c)
  BY DEF Take
<1>2. asks \in BOOLEAN
  BY DEF CalibrationInv, TypeOK
<1>. QED  BY <1>1, <1>2 DEF TakeWindow, Served

\* And to a um01.
LEMMA UniversalTakes ==
    ASSUME CalibrationInv, type = "um01", NEW c, Take(c)
    PROVE  /\ UNCHANGED <<asks, words>> /\ zero' \in {zero, None} /\ far' \in {far, None}
           /\ \/ event' = "started" /\ saving' \in {"zero", "far"} /\ c \in {"cfgclose", "cal2"}
              \/ event' \in {"none", "report"} /\ saving' = saving
<1>1. TakeUniversal(c)
  BY DEF Take
<1>. QED  BY <1>1 DEF TakeUniversal

\* A command keeps the types of what it changes.
LEMMA TakeTyped ==
    ASSUME CalibrationInv, NEW c, Take(c)
    PROVE  /\ {zero', far'} \subseteq Position \cup {None} /\ asks' \in BOOLEAN
           /\ saving' \in {"none", "zero", "far"} /\ words' \in 0..MaxWords
           /\ event' \in {"none", "caldone", "started", "report"}
<1>1. CASE type = "ws02"
  BY <1>1, Typed, WindowTakes
<1>2. CASE type = "um01"
  BY <1>2, Typed, UniversalTakes
<1>. QED  BY <1>1, <1>2, Typed

-----------------------------------------------------------------------------
(* The steps of the base, given by what they do *)

\* An order leaves the way to the base.
Arrives(c) == Endnode(c) \/ CloudEvent(c)

LEMMA ArrivalTakesOne ==
    ASSUME CalibrationInv, NEW c \in Command, Arrives(c)
    PROVE  /\ UNCHANGED <<type, position, confirmed, moved, counts>>
           /\ pending' \in [Command -> 0..MaxQueue] /\ pending'[c] = pending[c] - 1
           /\ \A d \in Command \ {c} : pending'[d] = pending[d]
           /\ pending[c] \in Nat \ {0} /\ pressed' = FALSE /\ awaiting' \in BOOLEAN
           /\ marker' \in {marker, c}
           /\ \/ event = "none" /\ Take(c)
              \/ UNCHANGED <<zero, far, asks, saving, event, words>>
<1>1. /\ pending \in [Command -> 0..MaxQueue] /\ awaiting \in BOOLEAN
  BY DEF CalibrationInv, TypeOK
<1>2. /\ UNCHANGED <<type, position, confirmed, moved, counts>>
      /\ pending[c] > 0 /\ pending' = [pending EXCEPT ![c] = pending[c] - 1]
      /\ pressed' = FALSE /\ awaiting' \in {awaiting, FALSE} /\ marker' \in {marker, c}
      /\ \/ event = "none" /\ Take(c)
         \/ UNCHANGED <<zero, far, asks, saving, event, words>>
  BY DEF Arrives, Endnode, CloudEvent
<1>3. pending[c] \in 0..MaxQueue /\ MaxQueue \in Nat
  BY <1>1, SensorCalibrationAssumption
<1>4. pending[c] \in Nat \ {0} /\ pending[c] - 1 \in 0..MaxQueue
  BY <1>2, <1>3
<1>5. /\ pending' \in [Command -> 0..MaxQueue] /\ pending'[c] = pending[c] - 1
      /\ \A d \in Command \ {c} : pending'[d] = pending[d]
  BY <1>1, <1>2, <1>4
<1>. QED  BY <1>1, <1>2, <1>4, <1>5

\* A handler of the library ends what was under way, sends a command, or does neither.
LEMMA HandlerIs ==
    ASSUME Handle
    PROVE  \/ /\ UNCHANGED <<sensor, pending, user, counts>>
              /\ event = "caldone" /\ event' = "none" /\ marker' = "none" /\ awaiting' = FALSE
           \/ /\ UNCHANGED <<type, position, pending, confirmed, moved, pressed, counts>>
              /\ event \notin {"none", "caldone"} /\ marker' = "none"
              /\ awaiting' \in {awaiting, FALSE}
              /\ \/ marker # "none" /\ Take(marker)
                 \/ type = "ws02" /\ event = "button" /\ Take("cal")
                 \/ Take("none") \/ Take("temp")
           \/ /\ UNCHANGED <<sensor, marker, pending, user, counts>>
              /\ event \notin {"caldone", "button"} /\ event' = "none"
              /\ awaiting' \in {awaiting, TRUE}
<1>1. CASE CalDone
  BY <1>1 DEF CalDone
<1>2. CASE SendArmed
  BY <1>2 DEF SendArmed
<1>3. CASE Button
  BY <1>3 DEF Button, base
<1>4. CASE CalReq \/ Ignore
  BY <1>4 DEF CalReq, Ignore, base
<1>5. CASE Measure
  BY <1>5 DEF Measure, base
<1>. QED  BY <1>1, <1>2, <1>3, <1>4, <1>5 DEF Handle

LEMMA HandleTyped ==
    ASSUME CalibrationInv, Handle \/ \E c \in Command : Arrives(c)
    PROVE  TypeOK'
<1>. USE DEF TypeOK
<1>a. TypeOK
  BY DEF CalibrationInv
<1>1. CASE Handle
  <2>1. CASE /\ UNCHANGED <<sensor, pending, user, counts>>
             /\ event' = "none" /\ marker' \in {marker, "none"} /\ awaiting' \in BOOLEAN
    BY <1>a, <2>1 DEF sensor, user, counts
  <2>2. CASE /\ UNCHANGED <<type, position, pending, confirmed, moved, pressed, counts>>
             /\ marker' = "none" /\ awaiting' \in BOOLEAN /\ \E c : Take(c)
    BY <1>a, <2>2, TakeTyped DEF counts
  <2>3. awaiting \in BOOLEAN
    BY <1>a
  <2>. QED  BY <1>1, <2>1, <2>2, <2>3, HandlerIs
<1>2. ASSUME NEW c \in Command, Arrives(c) PROVE TypeOK'
  <2>1. CASE Take(c)
    BY <1>a, <1>2, <2>1, ArrivalTakesOne, TakeTyped DEF counts
  <2>2. CASE UNCHANGED <<zero, far, asks, saving, event, words>>
    BY <1>a, <1>2, <2>2, ArrivalTakesOne DEF counts
  <2>. QED  BY <1>2, <2>1, <2>2, ArrivalTakesOne
<1>. QED  BY <1>1, <1>2

\* What the steps keep, and what a stored position rests on.
Kept == WindowInv' /\ UniversalInv' /\ PlaceInv'
Grounded == Stores => words > 0 /\ (~moved => position = confirmed)

LEMMA HandleKeeps ==
    ASSUME CalibrationInv, Handle
    PROVE  Kept /\ Grounded
<1>. USE DEF One
<1>a. /\ type = "ws02" => /\ saving = "none" /\ marker \notin {"cfgclose", "cal2"}
                          /\ pending["cfgclose"] = 0 /\ pending["cal2"] = 0
                          /\ words >= OpenWindow
      /\ type = "um01" => /\ pending["cal"] = 0 /\ marker # "cal"
                          /\ event = "caldone" => saving = "none"
                          /\ words >= OpenUniversal
      /\ Asked /\ ~moved => position = confirmed
  BY DEF CalibrationInv, WindowInv, UniversalInv, PlaceInv
<1>b. /\ type \in {"ws02", "um01"} /\ words \in Nat
      /\ pending["cal"] \in Nat /\ pending["cfgclose"] \in Nat /\ pending["cal2"] \in Nat
      /\ saving \in {"none", "zero", "far"}
  BY Typed
<1>1. CASE /\ UNCHANGED <<sensor, pending, user, counts>>
           /\ event = "caldone" /\ event' = "none" /\ marker' = "none" /\ awaiting' = FALSE
  <2>1. UNCHANGED <<type, position, zero, far, saving, pending, words, confirmed, moved>>
    BY <1>1 DEF sensor, user
  <2>2. ~Stores
    BY <2>1 DEF Stores
  <2>3. WindowInv' /\ UniversalInv'
    BY <1>a, <1>b, <1>1, <2>1 DEF WindowInv, UniversalInv, OpenWindow, OpenUniversal
  <2>4. Asked' => Asked
    BY <1>a, <1>b, <1>1, <2>1, AskedIs
  <2>. QED  BY <1>a, <2>1, <2>2, <2>3, <2>4 DEF Kept, Grounded, PlaceInv
<1>2. CASE /\ UNCHANGED <<sensor, marker, pending, user, counts>>
           /\ event \notin {"caldone", "button"} /\ event' = "none"
           /\ awaiting' \in {awaiting, TRUE}
  <2>1. UNCHANGED <<type, position, zero, far, saving, marker, pending, words, confirmed, moved>>
    BY <1>2 DEF sensor, user
  <2>2. ~Stores
    BY <2>1 DEF Stores
  <2>3. WindowInv' /\ UniversalInv'
    BY <1>a, <1>b, <1>2, <2>1 DEF WindowInv, UniversalInv, OpenWindow, OpenUniversal
  <2>4. Asked' => Asked
    BY <1>a, <1>b, <1>2, <2>1, AskedIs
  <2>. QED  BY <1>a, <2>1, <2>2, <2>3, <2>4 DEF Kept, Grounded, PlaceInv
<1>3. CASE /\ UNCHANGED <<type, position, pending, confirmed, moved, pressed, counts>>
           /\ event \notin {"none", "caldone"} /\ marker' = "none"
           /\ awaiting' \in {awaiting, FALSE}
           /\ \/ marker # "none" /\ Take(marker)
              \/ type = "ws02" /\ event = "button" /\ Take("cal")
              \/ Take("none") \/ Take("temp")
  <2>1. CASE type = "ws02"
    <3>1. PICK c : /\ Take(c)
                   /\ c = "cal" => marker = "cal" \/ event = "button"
      BY <1>3
    <3>2. /\ far' = far /\ saving' = "none"
          /\ \/ /\ c = "cal" /\ zero' = position /\ event' = "caldone"
                /\ words' = IF words = 0 THEN 0 ELSE words - 1
             \/ zero' \in {zero, None} /\ event' = "none" /\ words' = words
      BY <1>a, <2>1, <3>1, WindowTakes
    <3>3. Stores => words > 0 /\ Asked
      BY <1>a, <1>b, <1>3, <2>1, <3>1, <3>2, AskedIs DEF Stores, OpenWindow
    <3>4. WindowInv'
      BY <1>a, <1>b, <1>3, <2>1, <3>1, <3>2 DEF WindowInv, OpenWindow
    <3>5. UniversalInv'
      BY <1>3, <2>1 DEF UniversalInv
    <3>6. Asked' => Asked
      BY <1>a, <1>b, <1>3, <2>1, <3>2, AskedIs
    <3>. QED  BY <1>a, <1>3, <3>3, <3>4, <3>5, <3>6 DEF Kept, Grounded, PlaceInv
  <2>2. CASE type = "um01"
    <3>1. PICK c : Take(c) /\ (c \in {"cfgclose", "cal2"} => marker = c)
      BY <1>3, <2>2
    <3>2. /\ UNCHANGED words /\ zero' \in {zero, None} /\ far' \in {far, None}
          /\ \/ event' = "started" /\ saving' \in {"zero", "far"} /\ c \in {"cfgclose", "cal2"}
             \/ event' \in {"none", "report"} /\ saving' = saving
      BY <2>2, <3>1, UniversalTakes
    <3>3. ~Stores
      BY <3>2 DEF Stores
    <3>4. UniversalInv'
      BY <1>a, <1>b, <1>3, <2>2, <3>1, <3>2 DEF UniversalInv, OpenUniversal
    <3>5. WindowInv'
      BY <1>3, <2>2 DEF WindowInv
    <3>6. Asked' => Asked
      BY <1>a, <1>b, <1>3, <2>2, <3>1, <3>2, AskedIs
    <3>. QED  BY <1>a, <1>3, <3>3, <3>4, <3>5, <3>6 DEF Kept, Grounded, PlaceInv
  <2>. QED  BY <1>b, <2>1, <2>2
<1>. QED  BY <1>1, <1>2, <1>3, HandlerIs

LEMMA ArrivalKeeps ==
    ASSUME CalibrationInv, NEW c \in Command, Arrives(c)
    PROVE  Kept /\ Grounded
<1>. USE DEF One
<1>a. /\ type = "ws02" => /\ saving = "none" /\ marker \notin {"cfgclose", "cal2"}
                          /\ pending["cfgclose"] = 0 /\ pending["cal2"] = 0
                          /\ words >= OpenWindow
      /\ type = "um01" => /\ pending["cal"] = 0 /\ marker # "cal"
                          /\ event = "caldone" => saving = "none"
                          /\ words >= OpenUniversal
      /\ Asked /\ ~moved => position = confirmed
  BY DEF CalibrationInv, WindowInv, UniversalInv, PlaceInv
<1>b. /\ type \in {"ws02", "um01"} /\ words \in Nat
      /\ pending["cal"] \in Nat /\ pending["cfgclose"] \in Nat /\ pending["cal2"] \in Nat
      /\ saving \in {"none", "zero", "far"}
  BY Typed
<1>c. /\ UNCHANGED <<type, position, confirmed, moved>>
      /\ pending[c] \in Nat \ {0} /\ pending'[c] = pending[c] - 1
      /\ marker' \in {marker, c}
      /\ \/ event = "none" /\ Take(c)
         \/ UNCHANGED <<zero, far, asks, saving, event, words>>
  BY ArrivalTakesOne
<1>d. /\ pending'["cal"] = pending["cal"] - One(c = "cal")
      /\ pending'["cfgclose"] = pending["cfgclose"] - One(c = "cfgclose")
      /\ pending'["cal2"] = pending["cal2"] - One(c = "cal2")
  <2>1. /\ "cal" # c => pending'["cal"] = pending["cal"]
        /\ "cfgclose" # c => pending'["cfgclose"] = pending["cfgclose"]
        /\ "cal2" # c => pending'["cal2"] = pending["cal2"]
    <3>1. \A d \in Command \ {c} : pending'[d] = pending[d]
      BY ArrivalTakesOne
    <3>2. {"cal", "cfgclose", "cal2"} \subseteq Command
      BY Commands
    <3>. QED  BY <3>1, <3>2
  <2>. QED  BY <1>b, <1>c, <2>1
<1>e. c \in {"cal", "recal", "cfgclose", "cal2"}
  BY Commands
<1>1. CASE type = "ws02"
  <2>a. c \in {"cal", "recal"}
    BY <1>1, <1>a, <1>c, <1>e
  <2>1. /\ far' = far /\ saving' = "none"
        /\ \/ /\ c = "cal" /\ zero' = position /\ event' = "caldone" /\ event = "none"
              /\ words' = IF words = 0 THEN 0 ELSE words - 1
           \/ zero' \in {zero, None} /\ event' = "none" /\ words' = words /\ event = "none"
           \/ zero' = zero /\ event' = event /\ words' = words
    BY <1>1, <1>a, <1>c, WindowTakes
  <2>2. Stores => words > 0 /\ Asked
    BY <1>a, <1>b, <1>c, <1>1, <2>1, AskedIs DEF Stores, OpenWindow
  <2>3. WindowInv'
    BY <1>a, <1>b, <1>c, <1>d, <1>1, <2>a, <2>1 DEF WindowInv, OpenWindow
  <2>4. UniversalInv'
    BY <1>c, <1>1 DEF UniversalInv
  <2>5. Asked' => Asked
    BY <1>a, <1>b, <1>c, <1>d, <1>1, <2>a, <2>1, AskedIs
  <2>. QED  BY <1>a, <1>c, <2>2, <2>3, <2>4, <2>5 DEF Kept, Grounded, PlaceInv
<1>2. CASE type = "um01"
  <2>a. c # "cal"
    BY <1>2, <1>a, <1>c
  <2>1. /\ UNCHANGED words /\ zero' \in {zero, None} /\ far' \in {far, None}
        /\ \/ event' = "started" /\ saving' \in {"zero", "far"} /\ c \in {"cfgclose", "cal2"}
           \/ event' \in {"none", "report"} /\ saving' = saving /\ event = "none"
           \/ event' = event /\ saving' = saving
    BY <1>2, <1>c, UniversalTakes
  <2>2. ~Stores
    BY <2>1 DEF Stores
  <2>3. UniversalInv'
    BY <1>a, <1>b, <1>c, <1>d, <1>2, <2>a, <2>1 DEF UniversalInv, OpenUniversal
  <2>4. WindowInv'
    BY <1>c, <1>2 DEF WindowInv
  <2>5. Asked' => Asked
    BY <1>a, <1>b, <1>c, <1>d, <1>e, <1>2, <2>a, <2>1, AskedIs
  <2>. QED  BY <1>a, <1>c, <2>2, <2>3, <2>4, <2>5 DEF Kept, Grounded, PlaceInv
<1>. QED  BY <1>b, <1>1, <1>2

-----------------------------------------------------------------------------
(* The steps of the sensor and the user *)

Others == \/ Ask \/ Report \/ Store \/ Reload \/ Press
          \/ \E p \in Position : Move(p)
          \/ \E c \in Command : Order(c)

LEMMA WordCounts ==
    ASSUME CalibrationInv, Word
    PROVE  words' \in 0..MaxWords /\ (words' = words + 1 \/ words' = MaxWords)
<1>1. words \in 0..MaxWords /\ MaxWords \in Nat
  BY Typed
<1>. QED  BY <1>1 DEF Word

LEMMA OthersTyped ==
    ASSUME CalibrationInv, Others
    PROVE  TypeOK'
<1>. USE DEF TypeOK
<1>a. TypeOK
  BY DEF CalibrationInv
<1>1. CASE Ask \/ Report
  BY <1>1, <1>a DEF Ask, Report, sensor, user, base, counts
<1>2. CASE Store
  <2>1. words' \in 0..MaxWords
    BY <1>2, <1>a, SensorCalibrationAssumption DEF Store, Served
  <2>. QED  BY <1>2, <1>a, <2>1 DEF Store, base, counts
<1>3. CASE Reload
  <2>1. reloads' \in 0..MaxReloads
    BY <1>3, <1>a, SensorCalibrationAssumption DEF Reload
  <2>. QED  BY <1>3, <1>a, <2>1 DEF Reload, sensor, user
<1>4. CASE Press
  <2>1. pressed' \in BOOLEAN
    BY <1>4, SensorCalibrationAssumption DEF Press
  <2>. QED  BY <1>4, <1>a, <2>1, WordCounts DEF Press, sensor, base, counts
<1>5. ASSUME NEW p \in Position, Move(p) PROVE TypeOK'
  <2>1. moves' \in 0..MaxMoves
    BY <1>5, <1>a, SensorCalibrationAssumption DEF Move
  <2>2. event' \in {"none", "calreq", "caldone", "started", "button", "report"} /\ confirmed' = None
    BY <1>5, <1>a DEF Move
  <2>3. moved' \in BOOLEAN
    BY <1>5, <1>a DEF Move, Asked
  <2>. QED  BY <1>5, <1>a, <2>1, <2>2, <2>3 DEF Move, base
<1>6. ASSUME NEW c \in Command, Order(c) PROVE TypeOK'
  <2>1. orders' \in 0..MaxOrders
    BY <1>6, <1>a, SensorCalibrationAssumption DEF Order
  <2>2. pending[c] + 1 \in 0..MaxQueue
    BY <1>6, <1>a, SensorCalibrationAssumption DEF Order
  <2>3. pending' \in [Command -> 0..MaxQueue]
    BY <1>6, <1>a, <2>2 DEF Order
  <2>4. words' \in 0..MaxWords /\ confirmed' \in Position \cup {None} /\ moved' \in BOOLEAN
    BY <1>6, <1>a, WordCounts DEF Order
  <2>. QED  BY <1>6, <1>a, <2>1, <2>3, <2>4 DEF Order, sensor, base
<1>. QED  BY <1>1, <1>2, <1>3, <1>4, <1>5, <1>6 DEF Others

LEMMA OthersKeep ==
    ASSUME CalibrationInv, CountsEnough, Others
    PROVE  Kept /\ Grounded
<1>. USE DEF One
<1>a. /\ type = "ws02" => /\ saving = "none" /\ marker \notin {"cfgclose", "cal2"}
                          /\ pending["cfgclose"] = 0 /\ pending["cal2"] = 0
                          /\ words >= OpenWindow
      /\ type = "um01" => /\ pending["cal"] = 0 /\ marker # "cal"
                          /\ event = "caldone" => saving = "none"
                          /\ words >= OpenUniversal
      /\ Asked /\ ~moved => position = confirmed
  BY DEF CalibrationInv, WindowInv, UniversalInv, PlaceInv
<1>b. /\ type \in {"ws02", "um01"} /\ words \in Nat /\ MaxWords \in Nat /\ MaxQueue \in Nat
      /\ pending["cal"] \in 0..MaxQueue /\ pending["cfgclose"] \in 0..MaxQueue
      /\ pending["cal2"] \in 0..MaxQueue
      /\ saving \in {"none", "zero", "far"}
  BY Typed
<1>c. MaxWords >= MaxQueue + MaxQueue + 2
  BY <1>b DEF CountsEnough
<1>1. CASE Ask \/ Report \/ Reload
  <2>1. /\ UNCHANGED <<type, position, zero, far, saving, words, pending, marker, confirmed, moved>>
        /\ event' = event \/ (event = "none" /\ event' \in {"calreq", "report"})
    BY <1>1 DEF Ask, Report, Reload, sensor, user, base
  <2>2. ~Stores
    BY <2>1 DEF Stores
  <2>3. WindowInv' /\ UniversalInv'
    BY <1>a, <1>b, <2>1 DEF WindowInv, UniversalInv, OpenWindow, OpenUniversal
  <2>4. Asked' => Asked
    BY <1>a, <1>b, <2>1, AskedIs
  <2>. QED  BY <1>a, <2>1, <2>2, <2>3, <2>4 DEF Kept, Grounded, PlaceInv
<1>2. CASE Store
  <2>1. /\ UNCHANGED <<type, position, pending, marker, confirmed, moved>> /\ saving # "none"
        /\ event = "none" /\ saving' = "none" /\ event' = "caldone"
        /\ words' = IF words = 0 THEN 0 ELSE words - 1
    BY <1>2 DEF Store, base, Served
  <2>2. type = "um01"
    BY <1>a, <1>b, <2>1
  <2>3. words > 0 /\ Asked
    BY <1>a, <1>b, <2>1, <2>2, AskedIs DEF OpenUniversal
  <2>4. WindowInv' /\ UniversalInv'
    BY <1>a, <1>b, <2>1, <2>2, <2>3 DEF WindowInv, UniversalInv, OpenUniversal
  <2>. QED  BY <1>a, <2>1, <2>3, <2>4 DEF Kept, Grounded, PlaceInv
<1>3. CASE Press
  <2>1. /\ UNCHANGED <<type, position, zero, far, saving, pending, marker>>
        /\ event = "none" /\ event' = "button"
        /\ type = "ws02" => Word /\ confirmed' = position /\ moved' = FALSE
        /\ type # "ws02" => UNCHANGED <<words, confirmed, moved>>
    BY <1>3 DEF Press, sensor, base
  <2>2. ~Stores
    BY <2>1 DEF Stores
  <2>3. WindowInv'
    BY <1>a, <1>b, <1>c, <2>1, WordCounts DEF WindowInv, OpenWindow
  <2>4. UniversalInv'
    BY <1>a, <1>b, <2>1 DEF UniversalInv, OpenUniversal
  <2>5. type # "ws02" => (Asked' => Asked)
    BY <1>a, <1>b, <2>1, AskedIs
  <2>. QED  BY <1>a, <2>1, <2>2, <2>3, <2>4, <2>5 DEF Kept, Grounded, PlaceInv
<1>4. ASSUME NEW p \in Position, Move(p) PROVE Kept /\ Grounded
  <2>1. /\ UNCHANGED <<type, zero, far, saving, pending, marker, words>>
        /\ moved' = (moved \/ Asked)
        /\ event' = event \/ (event = "none" /\ event' = "report")
    BY <1>4 DEF Move, base
  <2>2. ~Stores
    BY <2>1 DEF Stores
  <2>3. WindowInv' /\ UniversalInv'
    BY <1>a, <1>b, <2>1 DEF WindowInv, UniversalInv, OpenWindow, OpenUniversal
  <2>4. Asked' => Asked
    BY <1>a, <1>b, <2>1, AskedIs
  <2>. QED  BY <2>1, <2>2, <2>3, <2>4 DEF Kept, Grounded, PlaceInv
<1>5. ASSUME NEW c \in Command, Order(c) PROVE Kept /\ Grounded
  <2>1. /\ UNCHANGED <<type, position, zero, far, saving, event, marker>>
        /\ c \in Buttons[type] /\ pending' = [pending EXCEPT ![c] = pending[c] + 1]
        /\ c \in Storing => Word /\ confirmed' = position /\ moved' = FALSE
        /\ c \notin Storing => UNCHANGED <<words, confirmed, moved>>
    BY <1>5 DEF Order, sensor, base
  <2>2. /\ pending \in [Command -> 0..MaxQueue]
        /\ c \in {"cal", "recal", "cfgclose", "cal2"}
        /\ type = "ws02" => c \in {"cal", "recal"}
        /\ type = "um01" => c \in {"cfgclose", "cal2", "recal"}
    BY <2>1, Commands DEF CalibrationInv, TypeOK, Buttons
  <2>3. /\ pending'["cal"] = pending["cal"] + One(c = "cal")
        /\ pending'["cfgclose"] = pending["cfgclose"] + One(c = "cfgclose")
        /\ pending'["cal2"] = pending["cal2"] + One(c = "cal2")
    BY <1>b, <2>1, <2>2, Commands
  <2>4. pending[c] < MaxQueue
    BY <1>5 DEF Order
  <2>5. c \in Storing <=> c \in {"cal", "cfgclose", "cal2"}
    BY Commands
  <2>6. c \in Storing => words' = words + 1 \/ words' = MaxWords
    BY <2>1, WordCounts
  <2>7. WindowInv'
    BY <1>a, <1>b, <1>c, <2>1, <2>2, <2>3, <2>4, <2>5, <2>6 DEF WindowInv, OpenWindow
  <2>8. UniversalInv'
    BY <1>a, <1>b, <1>c, <2>1, <2>2, <2>3, <2>4, <2>5, <2>6 DEF UniversalInv, OpenUniversal
  <2>9. c \notin Storing => (Asked' => Asked)
    BY <1>a, <1>b, <2>1, <2>3, <2>5, AskedIs
  <2>10. ~Stores
    BY <2>1 DEF Stores
  <2>. QED  BY <1>a, <2>1, <2>7, <2>8, <2>9, <2>10 DEF Kept, Grounded, PlaceInv
<1>. QED  BY <1>1, <1>2, <1>3, <1>4, <1>5 DEF Others

LEMMA NextCalibrated ==
    ASSUME CountsEnough
    PROVE  CalibrationInv /\ [Next]_vars => CalibrationInv' /\ Grounded
<1>. SUFFICES ASSUME CalibrationInv, [Next]_vars PROVE CalibrationInv' /\ Grounded
  OBVIOUS
<1>1. CASE UNCHANGED vars
  <2>1. TypeOK' /\ WindowInv' /\ UniversalInv' /\ ~Stores
    BY <1>1 DEF vars, sensor, base, user, counts, CalibrationInv, TypeOK, WindowInv,
       UniversalInv, OpenWindow, OpenUniversal, Stores
  <2>2. PlaceInv'
    BY <1>1 DEF vars, sensor, base, user, counts, CalibrationInv, PlaceInv, Asked
  <2>. QED  BY <2>1, <2>2 DEF CalibrationInv, Grounded
<1>2. CASE Handle
  BY <1>2, HandleTyped, HandleKeeps DEF CalibrationInv, Kept
<1>3. ASSUME NEW c \in Command, Arrives(c) PROVE CalibrationInv' /\ Grounded
  BY <1>3, HandleTyped, ArrivalKeeps DEF CalibrationInv, Kept
<1>4. CASE Others
  BY <1>4, OthersTyped, OthersKeep DEF CalibrationInv, Kept
<1>. QED  BY <1>1, <1>2, <1>3, <1>4 DEF Next, Others, Arrives

-----------------------------------------------------------------------------
(* What follows of it *)

\* Type correctness of the sensor, the library, the marker and the user.
THEOREM TypeCorrect ==
    ASSUME CountsEnough
    PROVE  Spec => []TypeOK
<1>1. CalibrationInv => TypeOK
  BY DEF CalibrationInv
<1>. QED  BY <1>1, InitCalibrated, NextCalibrated, PTL DEF Spec

\* A sensor stores a position only on the user's word, and no word serves twice, with a
\* marker that outlives the reload, an order that is sent at once and again with the next
\* event, and orders at any time (ws02-16.lua, um01-9.lua, gigaset_gateway.py:546-554).
THEOREM NeverWithoutWord ==
    ASSUME CountsEnough
    PROVE  Spec => OnlyOnWord
<1>1. CalibrationInv /\ [Next]_vars => [Stores => words > 0]_vars
  BY NextCalibrated DEF Grounded
<1>. QED  BY <1>1, InitCalibrated, NextCalibrated, PTL DEF Spec, OnlyOnWord

\* A sensor stores the position the user has confirmed by its button, or ordered the
\* command in, unless the window was moved before the answer.
THEOREM WhereConfirmed ==
    ASSUME CountsEnough
    PROVE  Spec => AsConfirmed
<1>1. CalibrationInv /\ [Next]_vars => [Stores /\ ~moved => position = confirmed]_vars
  BY NextCalibrated DEF Grounded
<1>. QED  BY <1>1, InitCalibrated, NextCalibrated, PTL DEF Spec, AsConfirmed
=============================================================================
