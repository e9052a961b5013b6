------------------------ MODULE BaseControls_proofs ------------------------
(***************************************************************************)
(* What Home Assistant shows of a base is right once nothing is under way,  *)
(* and the automatic stop closes no later window, for any number of nodes,  *)
(* modes, presses, changes and faults.                                      *)
(***************************************************************************)
EXTENDS BaseControls, TLAPS

\* The commands and the reports there are: a mode command names a mode, a node report a
\* node, and no number is of a press to come.
Orders == {c \in Commands : (c.act = "mode" => c.mode \in Mode) /\ c.num <= starts}
Said   == {r \in Reports : /\ r.kind = "mode" => r.mode \in Mode
                           /\ r.kind = "node" => r.node \in Node}

\* The types, and that record() is at a place the oldest report takes it to.
TypeInv ==
    /\ TypeOK
    /\ queue \in Seq(Orders) /\ batch \in Seq(Orders) /\ outbox \in Seq(Said)
    /\ pc = "save" => Now.kind = "mode"
    /\ pc \in {"store", "publish", "close"} => Now.kind = "node"

\* The reports of the base that the gateway has not answered yet, by what they say.
Modes == {i \in DOMAIN outbox : outbox[i].kind = "mode"}

\* The newest report of a mode is of the mode the base is in; once all are handled the
\* mode that is saved, and the one that is shown, are that mode too.
ModeInv ==
    /\ \A i \in Modes : (\A j \in Modes : j <= i) => outbox[i].mode = mode
    /\ (\A i \in Modes : i = 1 /\ pc = "answer") => SeedMode = mode
    /\ /\ \A i \in Modes : i = 1 /\ pc \in {"save", "answer"}
       /\ ~HoldsMode(queue) /\ ~HoldsMode(batch) /\ chosen = None /\ ~lost /\ shownMode # None
       => shownMode = mode

\* What a report makes of the alarm sensor.
Tells(r) == r.kind \in {"start", "end"} \/ (r.kind = "mode" /\ r.mode # "away")
Alarms   == {i \in DOMAIN outbox : Tells(outbox[i])}

\* Is there an alarm that no later end of another one hides?
Alarming == alarms # {} /\ ~hidden

\* The newest report that tells of an alarm says whether there is one; once all are
\* handled the sensor shows it.
AlarmInv ==
    /\ \A i \in Alarms : (\A j \in Alarms : j <= i) =>
          (outbox[i].kind = "start" <=> Alarming)
    /\ (\A i \in Alarms : i = 1 /\ pc \notin {"idle", "telemetry"}) =>
          (shownAlarm <=> Alarming)

\* A node the gateway has not heard of, or is about to close the window for, has paired
\* after the last press; a stop for a node is before every command that opens a later
\* window: but for the nodes that a press has overtaken.
StopFor(c, d) == c.act = "stop" /\ c.node = d
StopInv ==
    /\ \A i \in DOMAIN outbox : outbox[i].kind = "node" => pairedAt[outbox[i].node] # None
    /\ \A d \in Paired \ known : d \notin overtaken => pairedAt[d] = starts
    /\ pc = "close" => isNew
    /\ pc \in {"publish", "close"} /\ isNew /\ Now.node \notin overtaken =>
          pairedAt[Now.node] = starts
    /\ \A d \in Node \ overtaken, i \in DOMAIN batch : StopFor(batch[i], d) =>
          /\ pairedAt[d] # None /\ window <= pairedAt[d]
          /\ \A j \in 1..i - 1 : batch[j].num <= pairedAt[d]
    /\ \A d \in Node \ overtaken, i \in DOMAIN queue : StopFor(queue[i], d) =>
          /\ pairedAt[d] # None /\ window <= pairedAt[d]
          /\ \A j \in DOMAIN batch : batch[j].num <= pairedAt[d]
          /\ \A j \in 1..i - 1 : queue[j].num <= pairedAt[d]

-----------------------------------------------------------------------------
(* Sequences, commands and reports *)

LEMMA AppendFacts ==
    ASSUME NEW S, NEW s \in Seq(S), NEW e \in S
    PROVE  /\ Append(s, e) \in Seq(S) /\ Append(s, e) # <<>>
           /\ DOMAIN Append(s, e) = DOMAIN s \cup {Len(s) + 1}
           /\ \A i \in DOMAIN s : Append(s, e)[i] = s[i] /\ i \in 1..Len(s)
           /\ Append(s, e)[Len(s) + 1] = e
           /\ Len(s) \in Nat /\ DOMAIN s = 1..Len(s)
           /\ s # <<>> => Head(Append(s, e)) = Head(s)
<1>1. /\ Append(s, e) \in Seq(S) /\ Len(s) \in Nat /\ DOMAIN s = 1..Len(s)
      /\ Len(Append(s, e)) = Len(s) + 1
  OBVIOUS
<1>2. DOMAIN Append(s, e) = 1..Len(s) + 1
  BY <1>1
<1>3. /\ \A i \in 1..Len(s) : Append(s, e)[i] = s[i]
      /\ Append(s, e)[Len(s) + 1] = e
  OBVIOUS
<1>4. s # <<>> => Head(Append(s, e)) = Head(s)
  <2>. SUFFICES ASSUME s # <<>> PROVE Head(Append(s, e)) = Head(s)
    OBVIOUS
  <2>1. 1 \in 1..Len(s) /\ Head(s) = s[1]
    BY <1>1
  <2>. QED  BY <1>1, <1>3, <2>1
<1>5. Append(s, e) # <<>>
  BY <1>1
<1>. QED  BY <1>1, <1>2, <1>3, <1>4, <1>5

LEMMA TailFacts ==
    ASSUME NEW S, NEW s \in Seq(S), s # <<>>
    PROVE  /\ Tail(s) \in Seq(S) /\ Head(s) \in S /\ Head(s) = s[1] /\ 1 \in DOMAIN s
           /\ \A i \in DOMAIN Tail(s) : i + 1 \in DOMAIN s /\ Tail(s)[i] = s[i + 1]
           /\ \A i \in DOMAIN s : i \in Nat /\ (i = 1 \/ i - 1 \in DOMAIN Tail(s))
           /\ \A i \in DOMAIN Tail(s) : i \in Nat \ {0}
<1>1. Len(s) \in Nat \ {0} /\ DOMAIN s = 1..Len(s)
  OBVIOUS
<1>2. Tail(s) \in Seq(S) /\ Head(s) \in S /\ Head(s) = s[1] /\ Len(Tail(s)) = Len(s) - 1
  OBVIOUS
<1>3. DOMAIN Tail(s) = 1..Len(s) - 1
  BY <1>1, <1>2
<1>4. \A i \in 1..Len(s) - 1 : Tail(s)[i] = s[i + 1]
  OBVIOUS
<1>. QED  BY <1>1, <1>2, <1>3, <1>4

LEMMA EmptyFacts ==
    ASSUME NEW S
    PROVE  <<>> \in Seq(S) /\ DOMAIN <<>> = {}
  OBVIOUS

LEMMA SeqWider ==
    ASSUME NEW S, NEW T, S \subseteq T, NEW s \in Seq(S)
    PROVE  s \in Seq(T)
  OBVIOUS

LEMMA CommandsTyped ==
    ASSUME starts \in 0..presses, presses \in 0..MaxPresses
    PROVE  /\ \A m \in Mode : Command("mode", m, 0, None) \in Orders
           /\ \A a \in {"stop", "ack"} : Command(a, None, 0, None) \in Orders
           /\ \A d \in Node : Stop(d) \in Orders
           /\ Command("start", None, starts, None) \in Orders
<1>. starts \in 0..MaxPresses /\ 0 \in 0..MaxPresses /\ 0 <= starts
  BY BaseControlsAssumption
<1>. QED  BY DEF Command, Commands, Stop, Orders

LEMMA ReportsTyped ==
    /\ \A m \in Mode : ModeReport(m) \in Said
    /\ \A a \in AlarmKind : StartReport(a) \in Said /\ EndReport(a) \in Said
    /\ \A d \in Node : NodeReport(d) \in Said
    /\ OtherReport \in Said
  BY DEF Report, Reports, ModeReport, StartReport, EndReport, NodeReport, OtherReport, Said

-----------------------------------------------------------------------------
(* Types *)

LEMMA InitTyped == Init => TypeInv
<1>. SUFFICES ASSUME Init PROVE TypeInv
  OBVIOUS
<1>1. /\ queue \in Seq(Commands) /\ queue \in Seq(Orders) /\ batch \in Seq(Commands)
      /\ batch \in Seq(Orders) /\ outbox \in Seq(Reports) /\ outbox \in Seq(Said)
  BY EmptyFacts DEF Init
<1>2. pairedAt \in [Node -> 0..starts \cup {None}]
  BY DEF Init
<1>3. /\ {chosen, savedMode, shownMode} \subseteq Mode \cup {None} /\ mode \in Mode
      /\ {seeded, isNew, shownAlarm, timer, lost, hidden} \subseteq BOOLEAN
  BY BaseControlsAssumption DEF Init
<1>4. /\ alarms \subseteq AlarmKind /\ known \subseteq Node /\ overtaken \subseteq Node
      /\ pc = "idle" /\ changes \in 0..MaxChanges /\ faults \in 0..MaxFaults
      /\ window \in 0..starts /\ starts \in 0..presses /\ presses \in 0..MaxPresses
  BY BaseControlsAssumption DEF Init
<1>. QED  BY <1>1, <1>2, <1>3, <1>4 DEF TypeOK, TypeInv

\* Where nothing is pressed, the lines are of the same sets as before.
LEMMA SameOrders ==
    ASSUME starts' = starts
    PROVE  Orders' = Orders
  BY DEF Orders

LEMMA Wide ==
    /\ \A s : s \in Seq(Orders) => s \in Seq(Commands)
    /\ \A s : s \in Seq(Said) => s \in Seq(Reports)
  BY SeqWider DEF Orders, Said

LEMMA UserTyped ==
    ASSUME TypeInv, UserNext \/ QueueMode
    PROVE  TypeInv'
<1>. USE DEF TypeInv, TypeOK
<1>1. ASSUME NEW m \in Mode, ChooseMode(m) PROVE TypeInv'
  <2>1. starts' = starts /\ presses' = presses + 1 /\ presses' \in 0..MaxPresses
    BY <1>1, BaseControlsAssumption DEF ChooseMode, Press
  <2>. QED  BY <1>1, <2>1, SameOrders DEF ChooseMode, base, past, Now
<1>2. CASE QueueMode
  <2>1. starts' = starts /\ Orders' = Orders
    BY <1>2, SameOrders DEF QueueMode, counts, past
  <2>2. Command("mode", chosen, 0, None) \in Orders
    BY <1>2, CommandsTyped DEF QueueMode
  <2>3. queue' \in Seq(Orders)
    BY <1>2, <2>2, AppendFacts DEF QueueMode, Enqueue
  <2>. QED  BY <1>2, <2>1, <2>3, Wide DEF QueueMode, ha, base, counts, past, Now
<1>3. CASE PressStart
  <2>1. starts' \in 0..MaxPresses /\ starts' = starts + 1 /\ presses' = presses + 1
        /\ presses' \in 0..MaxPresses /\ starts' \in 0..presses'
    BY <1>3, BaseControlsAssumption DEF PressStart, Press
  <2>2. Orders \subseteq Orders'
    BY <2>1 DEF Orders, Commands
  <2>3. queue \in Seq(Orders') /\ batch \in Seq(Orders')
    BY <2>2, SeqWider
  <2>4. Command("start", None, starts', None) \in Orders'
    BY <2>1, BaseControlsAssumption DEF Command, Commands, Orders
  <2>5. queue' \in Seq(Orders') /\ queue' \in Seq(Commands)
    BY <1>3, <2>3, <2>4, AppendFacts, SeqWider DEF PressStart, Enqueue, Orders
  <2>6. pairedAt' \in [Node -> 0..starts' \cup {None}] /\ window' \in 0..starts'
    BY <1>3, <2>1 DEF PressStart, base, past
  <2>7. overtaken' \subseteq Node
    BY <1>3 DEF PressStart, Unclosed, Paired
  <2>. QED  BY <1>3, <2>1, <2>3, <2>5, <2>6, <2>7 DEF PressStart, gateway, ha, base, Now
<1>4. ASSUME NEW a \in {"stop", "ack"}, PressOther(a) PROVE TypeInv'
  <2>1. starts' = starts /\ Orders' = Orders
    BY <1>4, SameOrders DEF PressOther
  <2>2. queue' \in Seq(Orders)
    BY <1>4, CommandsTyped, AppendFacts DEF PressOther, Enqueue
  <2>3. presses' = presses + 1 /\ presses' \in 0..MaxPresses
    BY <1>4, BaseControlsAssumption DEF PressOther, Press
  <2>. QED  BY <1>4, <2>1, <2>2, <2>3, Wide DEF PressOther, gateway, ha, base, past, Now
<1>. QED  BY <1>1, <1>2, <1>3, <1>4 DEF UserNext

\* A report more does not change what the gateway is at.
LEMMA PostTyped ==
    ASSUME TypeInv, NEW r \in Said, Post(r)
    PROVE  /\ outbox' \in Seq(Said) /\ outbox' \in Seq(Reports) /\ outbox' # <<>>
           /\ outbox # <<>> => Now' = Now
<1>1. outbox' = Append(outbox, r) /\ outbox \in Seq(Said)
  BY DEF Post, TypeInv
<1>2. outbox' \in Seq(Said) /\ outbox' # <<>> /\ (outbox # <<>> => Head(outbox') = Head(outbox))
  BY <1>1, AppendFacts
<1>. QED  BY <1>2, Wide DEF Now

\* The types of what a step of the base leaves alone.
LEMMA BaseTyped ==
    ASSUME TypeInv, BaseNext
    PROVE  TypeInv'
<1>. USE DEF TypeInv, TypeOK
<1>0. starts' = starts /\ Orders' = Orders /\ pc' = pc
  BY SameOrders DEF BaseNext, Poll, LosePoll, Run, PairTimer, Reload, Pair, Contact, Happens,
     LocalMode, AlarmStarts, AlarmEnds, NodeEvent, counts, past, gateway
<1>1. CASE Poll
  BY <1>0, <1>1, EmptyFacts DEF Poll, gateway, ha, base, counts, past, Now
<1>b. CASE LosePoll
  <2>1. lost' \in BOOLEAN /\ faults' \in 0..MaxFaults
    BY <1>b, BaseControlsAssumption DEF LosePoll, HoldsMode
  <2>. QED  BY <1>0, <1>b, <2>1, EmptyFacts DEF LosePoll, gateway, ha, base, past, Now
<1>2. CASE Run
  <2>. DEFINE c == Head(batch)
  <2>1. batch' \in Seq(Orders) /\ c \in Orders
    BY <1>2, TailFacts DEF Run
  <2>. HIDE DEF c
  <2>2. UNCHANGED <<queue, gateway, ha, pairedAt, lost, overtaken, counts>>
    BY <1>2 DEF Run
  <2>a. c.num \in 0..starts /\ (c.act = "mode" => c.mode \in Mode)
    BY <2>1 DEF Orders, Commands
  <2>b. \/ c.act = "start" /\ OpenWindow(c.num) /\ UNCHANGED <<mode, alarms, outbox>>
        \/ c.act = "stop" /\ window' = 0 /\ UNCHANGED <<mode, alarms, timer, outbox>>
        \/ c.act = "mode" /\ SetMode(c.mode) /\ UNCHANGED <<window, timer>>
        \/ c.act = "ack" /\ Acknowledge /\ UNCHANGED <<mode, window, timer>>
    BY <1>2 DEF Run, c
  <2>3. /\ window' \in 0..starts /\ timer' \in BOOLEAN
        /\ mode' \in Mode /\ alarms' \subseteq AlarmKind /\ hidden' \in BOOLEAN
    <3>1. timer' \in BOOLEAN
      BY <2>b DEF OpenWindow
    <3>2. window' \in 0..starts
      BY <2>a, <2>b DEF OpenWindow
    <3>3. mode' \in Mode /\ alarms' \subseteq AlarmKind
      BY <2>a, <2>b DEF SetMode, Acknowledge, Ended
    <3>4. hidden' \in BOOLEAN
      <4>1. hidden' = hidden \/ hidden' = (alarms' # {})
        BY <1>2 DEF Run, SetMode, Acknowledge, Ended
      <4>. QED  BY <4>1
    <3>. QED  BY <3>1, <3>2, <3>3, <3>4
  <2>4. outbox' = outbox \/ \E r \in Said : Post(r)
    BY <2>a, <2>b, ReportsTyped, BaseControlsAssumption DEF SetMode, Acknowledge
  <2>5. /\ outbox' \in Seq(Said) /\ outbox' \in Seq(Reports) /\ (outbox # <<>> => outbox' # <<>>)
        /\ outbox # <<>> => Now' = Now
    BY <2>4, PostTyped DEF Now
  <2>. QED  BY <1>0, <2>1, <2>2, <2>3, <2>5, Wide DEF gateway, ha, counts, past
<1>3. CASE PairTimer
  <2>1. timer' \in BOOLEAN
    BY <1>3 DEF PairTimer
  <2>2. window' = 0
    BY <1>3 DEF PairTimer
  <2>. QED  BY <1>0, <1>3, <2>1, <2>2 DEF PairTimer, gateway, ha, counts, past, Now
<1>c. CASE Reload
  <2>1. timer' \in BOOLEAN /\ faults' \in 0..MaxFaults
    BY <1>c, BaseControlsAssumption DEF Reload
  <2>. QED  BY <1>0, <1>c, <2>1 DEF Reload, gateway, ha, past, Now
<1>4. ASSUME NEW d \in Node, Pair(d) PROVE TypeInv'
  BY <1>0, <1>4, ReportsTyped, PostTyped DEF Pair, gateway, ha, counts, past
<1>5. CASE Contact
  BY <1>0, <1>5, ReportsTyped, PostTyped DEF Contact, gateway, ha, base, counts, past
<1>6. ASSUME Happens PROVE changes' \in 0..MaxChanges
  BY <1>6, BaseControlsAssumption DEF Happens
<1>7. ASSUME NEW m \in Mode, LocalMode(m) PROVE TypeInv'
  BY <1>0, <1>6, <1>7, ReportsTyped, PostTyped DEF LocalMode, SetMode, Ended, Happens, gateway, ha, past
<1>8. ASSUME NEW a \in AlarmKind, AlarmStarts(a) PROVE TypeInv'
  BY <1>0, <1>6, <1>8, ReportsTyped, PostTyped DEF AlarmStarts, Happens, gateway, ha, past
<1>9. ASSUME NEW a \in AlarmKind, AlarmEnds(a) PROVE TypeInv'
  BY <1>0, <1>9, ReportsTyped, PostTyped DEF AlarmEnds, Ended, gateway, ha, counts, past
<1>10. ASSUME NEW d \in Node, NodeEvent(d) PROVE TypeInv'
  BY <1>0, <1>6, <1>10, ReportsTyped, PostTyped DEF NodeEvent, Happens, gateway, ha, past
<1>. QED  BY <1>1, <1>b, <1>2, <1>3, <1>c, <1>4, <1>5, <1>7, <1>8, <1>9, <1>10 DEF BaseNext

LEMMA RecordTyped ==
    ASSUME TypeInv, RecordNext
    PROVE  TypeInv'
<1>. USE DEF TypeInv, TypeOK
<1>0. starts' = starts /\ Orders' = Orders
  BY SameOrders DEF RecordNext, Announce, Telemetry, SaveMode, Store, PublishEvent, CloseWindow,
     Answer, counts, past
<1>a. outbox # <<>> => Now \in Said
  BY TailFacts DEF Now
<1>1. CASE Announce
  BY <1>0, <1>1, BaseControlsAssumption DEF Announce, Goto, SeedMode, Now, base, counts, past
<1>2. CASE Telemetry
  BY <1>0, <1>a, <1>2 DEF Telemetry, Goto, ShowMode, Now, base, counts, past, Said, Reports
<1>3. CASE SaveMode
  BY <1>0, <1>a, <1>3 DEF SaveMode, Goto, Now, ha, base, counts, past, Said, Reports
<1>4. CASE Store
  BY <1>0, <1>a, <1>4 DEF Store, Goto, Fresh, Now, ha, base, counts, past, Said
<1>5. CASE PublishEvent
  BY <1>0, <1>a, <1>5 DEF PublishEvent, Goto, Now, ha, base, counts, past, Said
<1>6. CASE CloseWindow
  <2>1. Now.node \in Node
    BY <1>a, <1>6 DEF CloseWindow, Said
  <2>2. queue' \in Seq(Orders) /\ queue' \in Seq(Commands)
    BY <1>6, <2>1, CommandsTyped, AppendFacts, Wide DEF CloseWindow, Enqueue
  <2>. QED  BY <1>0, <1>6, <2>2 DEF CloseWindow, Goto, Now, ha, base, counts, past
<1>7. CASE Answer
  <2>1. outbox' \in Seq(Said) /\ outbox' \in Seq(Reports)
    BY <1>7, TailFacts, Wide DEF Answer
  <2>. QED  BY <1>0, <1>7, <2>1 DEF Answer, Goto, ha, base, counts, past
<1>. QED  BY <1>1, <1>2, <1>3, <1>4, <1>5, <1>6, <1>7 DEF RecordNext

LEMMA NextTyped == TypeInv /\ [Next]_vars => TypeInv'
<1>. SUFFICES ASSUME TypeInv, [Next]_vars PROVE TypeInv'
  OBVIOUS
<1>1. CASE Crash
  <2>. USE DEF TypeInv, TypeOK
  <2>1. lost' \in BOOLEAN /\ faults' \in 0..MaxFaults
    BY <1>1, BaseControlsAssumption DEF Crash, HoldsMode
  <2>2. starts' = starts /\ Orders' = Orders
    BY <1>1, SameOrders DEF Crash
  <2>. QED  BY <1>1, <2>1, <2>2, EmptyFacts DEF Crash, Goto, ha, base, past
<1>2. CASE UNCHANGED vars
  BY <1>2, SameOrders DEF vars, gateway, ha, base, counts, past, TypeInv, TypeOK, Now
<1>. QED  BY <1>1, <1>2, UserTyped, BaseTyped, RecordTyped DEF Next

\* Every command and report is one its receiver understands, and record() only runs
\* while there is a report to handle, for any nodes, modes and bounds.
THEOREM TypeCorrect == Spec => []TypeOK
<1>1. TypeInv => TypeOK
  BY DEF TypeInv
<1>. QED  BY <1>1, InitTyped, NextTyped, PTL DEF Spec

-----------------------------------------------------------------------------
(* The mode that is shown *)

LEMMA HoldsFacts ==
    /\ \A s \in Seq(Orders), c \in Orders :
          HoldsMode(Append(s, c)) <=> HoldsMode(s) \/ c.act = "mode"
    /\ \A s \in Seq(Orders) : s # <<>> =>
          (HoldsMode(s) <=> Head(s).act = "mode" \/ HoldsMode(Tail(s)))
    /\ ~HoldsMode(<<>>)
<1>1. ASSUME NEW s \in Seq(Orders), NEW c \in Orders
      PROVE  HoldsMode(Append(s, c)) <=> HoldsMode(s) \/ c.act = "mode"
  BY AppendFacts DEF HoldsMode
<1>2. ASSUME NEW s \in Seq(Orders), s # <<>>
      PROVE  HoldsMode(s) <=> Head(s).act = "mode" \/ HoldsMode(Tail(s))
  <2>1. /\ Head(s) = s[1] /\ 1 \in DOMAIN s
        /\ \A i \in DOMAIN Tail(s) : i + 1 \in DOMAIN s /\ Tail(s)[i] = s[i + 1]
        /\ \A i \in DOMAIN s : i \in Nat /\ (i = 1 \/ i - 1 \in DOMAIN Tail(s))
        /\ \A i \in DOMAIN Tail(s) : i \in Nat \ {0}
    BY <1>2, TailFacts
  <2>2. HoldsMode(s) => Head(s).act = "mode" \/ HoldsMode(Tail(s))
    <3>. SUFFICES ASSUME NEW i \in DOMAIN s, s[i].act = "mode", i # 1
                  PROVE  HoldsMode(Tail(s))
      BY <2>1 DEF HoldsMode
    <3>1. i - 1 \in DOMAIN Tail(s) /\ i \in Nat
      BY <2>1
    <3>2. Tail(s)[i - 1] = s[(i - 1) + 1] /\ (i - 1) + 1 = i
      BY <2>1, <3>1
    <3>. QED  BY <3>1, <3>2 DEF HoldsMode
  <2>3. HoldsMode(Tail(s)) => HoldsMode(s)
    BY <2>1 DEF HoldsMode
  <2>. QED  BY <2>1, <2>2, <2>3 DEF HoldsMode
<1>3. ~HoldsMode(<<>>)
  BY DEF HoldsMode
<1>. QED  BY <1>1, <1>2, <1>3

\* Nothing on its way to the base names a mode.
Clear == ~HoldsMode(queue) /\ ~HoldsMode(batch) /\ chosen = None /\ ~lost /\ shownMode # None

\* Steps that neither report nor handle a report.
LEMMA ModeStays ==
    ASSUME ModeInv, UNCHANGED <<outbox, mode, pc, savedMode>>,
           Clear' => Clear /\ shownMode' = shownMode
    PROVE  ModeInv'
  BY DEF ModeInv, Modes, SeedMode, Clear

\* Where in the outbox a report comes.
LEMMA PostFacts ==
    ASSUME TypeInv, NEW r \in Said, Post(r)
    PROVE  /\ DOMAIN outbox' = DOMAIN outbox \cup {Len(outbox) + 1}
           /\ \A i \in DOMAIN outbox : outbox'[i] = outbox[i] /\ i <= Len(outbox) /\ i \in Nat
           /\ outbox'[Len(outbox) + 1] = r
           /\ Len(outbox) \in Nat /\ Len(outbox) + 1 \notin DOMAIN outbox
           /\ pc # "idle" => Len(outbox) + 1 # 1
<1>1. outbox \in Seq(Said) /\ outbox' = Append(outbox, r)
  BY DEF TypeInv, Post
<1>2. Len(outbox) \in Nat /\ DOMAIN outbox = 1..Len(outbox)
  BY <1>1
<1>3. pc # "idle" => Len(outbox) # 0
  BY <1>1 DEF TypeInv, TypeOK
<1>. QED  BY <1>1, <1>2, <1>3, AppendFacts

LEMMA ModePostOther ==
    ASSUME TypeInv, ModeInv, NEW r \in Said, r.kind # "mode", Post(r),
           UNCHANGED <<mode, pc, savedMode>>,
           Clear' => Clear /\ shownMode' = shownMode
    PROVE  ModeInv'
<1>1. Modes' = Modes /\ \A i \in Modes : outbox'[i] = outbox[i]
  BY PostFacts DEF Modes
<1>. QED  BY <1>1 DEF ModeInv, SeedMode, Clear

LEMMA ModePostMode ==
    ASSUME TypeInv, ModeInv, NEW m \in Mode, SetMode(m), UNCHANGED pc
    PROVE  ModeInv'
<1>. DEFINE n == Len(outbox) + 1
<1>1. ModeReport(m) \in Said /\ Post(ModeReport(m)) /\ mode' = m
  BY ReportsTyped DEF SetMode
<1>2. ModeReport(m).kind = "mode" /\ ModeReport(m).mode = m
  BY DEF ModeReport, Report
<1>3. /\ n \in Modes' /\ outbox'[n].mode = m /\ (pc # "idle" => n # 1)
      /\ \A i \in Modes' : i <= n /\ i \in Nat
  BY <1>1, <1>2, PostFacts DEF Modes
<1>. HIDE DEF n
<1>4. \A i \in Modes' : (\A j \in Modes' : j <= i) => i = n
  BY <1>3, PostFacts, <1>1 DEF n
<1>5. ~(n = 1 /\ pc' = "answer") /\ ~(n = 1 /\ pc' \in {"save", "answer"})
  BY <1>3
<1>. QED  BY <1>1, <1>3, <1>4, <1>5 DEF ModeInv

LEMMA ModeUser ==
    ASSUME TypeInv, ModeInv, UserNext \/ QueueMode
    PROVE  ModeInv'
<1>. USE DEF TypeInv, TypeOK
<1>1. ASSUME NEW m \in Mode, ChooseMode(m) PROVE ModeInv'
  <2>1. ~Clear'
    BY <1>1, BaseControlsAssumption DEF ChooseMode, Clear
  <2>. QED  BY <1>1, <2>1, ModeStays DEF ChooseMode, base, past
<1>2. CASE QueueMode
  <2>1. Command("mode", chosen, 0, None) \in Orders
    BY <1>2, CommandsTyped DEF QueueMode
  <2>2. HoldsMode(queue')
    BY <1>2, <2>1, HoldsFacts DEF QueueMode, Enqueue, Command
  <2>3. ~Clear'
    BY <2>2 DEF Clear, HoldsMode
  <2>. QED  BY <1>2, <2>3, ModeStays DEF QueueMode, base, past
<1>3. ASSUME PressStart \/ \E a \in {"stop", "ack"} : PressOther(a) PROVE ModeInv'
  <2>1. PICK c \in {Command("start", None, starts', None)} \cup
                   {Command(a, None, 0, None) : a \in {"stop", "ack"}} : queue' = Append(queue, c)
    BY <1>3 DEF PressStart, PressOther, Enqueue
  <2>2. HoldsMode(queue) => HoldsMode(queue')
    BY <2>1, AppendFacts DEF HoldsMode
  <2>3. UNCHANGED <<outbox, mode, pc, savedMode, batch, chosen, lost, shownMode>>
    BY <1>3 DEF PressStart, PressOther, gateway, ha, base, past
  <2>4. Clear' => Clear
    BY <2>2, <2>3 DEF Clear, HoldsMode
  <2>. QED  BY <2>3, <2>4, ModeStays
<1>. QED  BY <1>1, <1>2, <1>3 DEF UserNext

LEMMA ModeBase ==
    ASSUME TypeInv, ModeInv, BaseNext
    PROVE  ModeInv'
<1>0. UNCHANGED <<pc, savedMode, chosen, shownMode>>
  BY DEF BaseNext, Poll, LosePoll, Run, PairTimer, Reload, Pair, Contact, Happens, LocalMode,
     AlarmStarts, AlarmEnds, NodeEvent, gateway, ha, past
<1>1. CASE Poll
  BY <1>0, <1>1, HoldsFacts, ModeStays DEF Poll, base, past, Clear
<1>2. CASE LosePoll
  BY <1>0, <1>2, HoldsFacts, ModeStays DEF LosePoll, base, past, Clear
<1>3. CASE PairTimer \/ Reload
  BY <1>0, <1>3, ModeStays DEF PairTimer, Reload, past, Clear
<1>4. CASE Run
  <2>. DEFINE c == Head(batch)
  <2>1. batch \in Seq(Orders) /\ batch # <<>> /\ batch' = Tail(batch)
    BY <1>4 DEF Run, TypeInv
  <2>2. c \in Orders
    BY <2>1, TailFacts
  <2>3. HoldsMode(batch) <=> c.act = "mode" \/ HoldsMode(batch')
    BY <2>1, HoldsFacts
  <2>4. UNCHANGED <<queue, lost>>
    BY <1>4 DEF Run
  <2>5. \/ c.act # "mode" /\ UNCHANGED <<mode, outbox>>
        \/ c.act # "mode" /\ UNCHANGED mode /\ Acknowledge
        \/ c.act = "mode" /\ SetMode(c.mode)
    BY <1>4 DEF Run
  <2>. HIDE DEF c
  <2>6. c.act # "mode" => (Clear' => Clear)
    BY <1>0, <2>3, <2>4 DEF Clear
  <2>7. CASE c.act # "mode" /\ UNCHANGED <<mode, outbox>>
    BY <1>0, <2>6, <2>7, ModeStays
  <2>8. CASE c.act # "mode" /\ UNCHANGED mode /\ Acknowledge
    <3>1. EndReport("intrusion") \in Said /\ EndReport("intrusion").kind # "mode"
      BY ReportsTyped, BaseControlsAssumption DEF EndReport, Report
    <3>. QED  BY <1>0, <2>6, <2>8, <3>1, ModeStays, ModePostOther DEF Acknowledge
  <2>9. CASE c.act = "mode" /\ SetMode(c.mode)
    BY <1>0, <2>2, <2>9, ModePostMode DEF Orders
  <2>. QED  BY <2>5, <2>7, <2>8, <2>9
<1>5. ASSUME NEW m \in Mode, LocalMode(m) PROVE ModeInv'
  BY <1>0, <1>5, ModePostMode DEF LocalMode
<1>6. ASSUME NEW r \in Said, r.kind # "mode", Post(r), UNCHANGED <<mode, queue, batch, lost>>
      PROVE  ModeInv'
  BY <1>0, <1>6, ModePostOther DEF Clear
<1>7. CASE \/ Contact \/ \E d \in Node : Pair(d) \/ NodeEvent(d)
           \/ \E a \in AlarmKind : AlarmStarts(a) \/ AlarmEnds(a)
  <2>1. PICK r \in Said : r.kind # "mode" /\ Post(r)
    BY <1>7, ReportsTyped
    DEF Contact, Pair, NodeEvent, AlarmStarts, AlarmEnds, NodeReport, StartReport, EndReport,
        OtherReport, Report
  <2>2. UNCHANGED <<mode, queue, batch, lost>>
    BY <1>7 DEF Contact, Pair, NodeEvent, AlarmStarts, AlarmEnds, Happens, base, past
  <2>. QED  BY <1>6, <2>1, <2>2
<1>. QED  BY <1>1, <1>2, <1>3, <1>4, <1>5, <1>7 DEF BaseNext

LEMMA ModeRecord ==
    ASSUME TypeInv, ModeInv, RecordNext
    PROVE  ModeInv'
<1>. USE DEF TypeInv
<1>0. mode' = mode
  BY DEF RecordNext, Announce, Telemetry, SaveMode, Store, PublishEvent, CloseWindow, Answer, base, past
<1>a. outbox # <<>> => Now = outbox[1] /\ 1 \in DOMAIN outbox /\ \A i \in DOMAIN outbox : i \in Nat \ {0}
  BY TailFacts DEF Now
<1>1. CASE Announce
  <2>1. Modes' = Modes /\ outbox' = outbox /\ pc = "idle" /\ pc' = "telemetry" /\ savedMode' = savedMode
    BY <1>1 DEF Announce, Goto, Modes
  <2>2. UNCHANGED <<queue, batch, chosen>>
    BY <1>1 DEF Announce
  <2>3. CASE seeded
    BY <1>0, <1>1, <2>1, <2>2, <2>3 DEF Announce, ModeInv, SeedMode
  <2>4. CASE ~seeded
    BY <1>0, <1>1, <2>1, <2>2, <2>4 DEF Announce, ModeInv, SeedMode
  <2>. QED  BY <2>3, <2>4
<1>2. CASE Telemetry
  <2>1. Modes' = Modes /\ outbox' = outbox /\ pc = "telemetry" /\ savedMode' = savedMode
    BY <1>2 DEF Telemetry, Modes
  <2>2. UNCHANGED <<queue, batch, chosen>> /\ outbox # <<>>
    BY <1>2 DEF Telemetry, TypeOK
  <2>3. CASE Now.kind = "mode"
    <3>1. pc' = "save" /\ shownMode' = Now.mode
      BY <1>2, <2>3 DEF Telemetry, ShowMode, Goto
    <3>2. 1 \in Modes /\ \A i \in Modes : i \in Nat
      BY <1>a, <2>2, <2>3 DEF Modes
    <3>3. (\A i \in Modes : i = 1) => Now.mode = mode
      BY <1>a, <2>2, <3>2 DEF ModeInv
    <3>. QED  BY <1>0, <2>1, <2>2, <3>1, <3>2, <3>3 DEF ModeInv, SeedMode
  <2>4. CASE Now.kind # "mode"
    <3>1. pc' \in {"answer", "store"} /\ shownMode' = shownMode /\ lost' = lost
      BY <1>2, <2>4 DEF Telemetry, Goto
    <3>2. 1 \notin Modes
      BY <1>a, <2>2, <2>4 DEF Modes
    <3>. QED  BY <1>0, <2>1, <2>2, <3>1, <3>2 DEF ModeInv, SeedMode
  <2>. QED  BY <2>3, <2>4
<1>3. CASE SaveMode
  <2>1. /\ Modes' = Modes /\ outbox' = outbox /\ pc = "save" /\ pc' = "answer"
        /\ savedMode' = Now.mode /\ UNCHANGED <<queue, batch, chosen, lost, shownMode>>
    BY <1>3 DEF SaveMode, Modes, Goto, ha, past
  <2>2. Now.kind = "mode" /\ outbox # <<>> /\ Now \in Said
    BY <2>1, TailFacts DEF Now, TypeOK
  <2>3. 1 \in Modes /\ (\A i \in Modes : i \in Nat) /\ Now.mode # None
    BY <1>a, <2>2, BaseControlsAssumption DEF Modes, Said
  <2>4. (\A i \in Modes : i = 1) => Now.mode = mode
    BY <1>a, <2>2, <2>3 DEF ModeInv
  <2>. QED  BY <1>0, <2>1, <2>3, <2>4 DEF ModeInv, SeedMode
<1>4. CASE Store \/ PublishEvent \/ CloseWindow
  <2>1. /\ Modes' = Modes /\ outbox' = outbox /\ savedMode' = savedMode
        /\ pc \in {"store", "publish", "close"} /\ pc' \in {"publish", "close", "answer"}
        /\ UNCHANGED <<batch, chosen, lost, shownMode>>
    BY <1>4 DEF Store, PublishEvent, CloseWindow, Modes, Goto, ha, past
  <2>2. 1 \notin Modes
    BY <1>a, <2>1 DEF Modes, TypeOK
  <2>3. HoldsMode(queue) => HoldsMode(queue')
    <3>1. CASE queue' = queue
      BY <3>1
    <3>2. CASE CloseWindow
      <4>1. queue' = Append(queue, Stop(Now.node))
        BY <3>2 DEF CloseWindow, Enqueue
      <4>2. Now \in Said /\ Now.kind = "node"
        BY <2>1, TailFacts DEF Now, TypeOK
      <4>3. Stop(Now.node) \in Orders
        BY <4>2, CommandsTyped DEF Said, TypeOK
      <4>. QED  BY <4>1, <4>3, HoldsFacts
    <3>. QED  BY <1>4, <3>1, <3>2 DEF Store, PublishEvent
  <2>. QED  BY <1>0, <2>1, <2>2, <2>3 DEF ModeInv, SeedMode
<1>5. CASE Answer
  <2>1. /\ outbox' = Tail(outbox) /\ pc = "answer" /\ pc' = "idle" /\ savedMode' = savedMode
        /\ UNCHANGED <<queue, batch, chosen, lost, shownMode>> /\ outbox # <<>>
    BY <1>5 DEF Answer, Goto, ha, past, TypeOK
  <2>2. /\ \A i \in Modes' : i + 1 \in Modes /\ outbox'[i] = outbox[i + 1] /\ i \in Nat \ {0}
        /\ \A i \in Modes : i \in Nat /\ (i = 1 \/ i - 1 \in Modes')
    <3>1. /\ \A i \in DOMAIN outbox' : i + 1 \in DOMAIN outbox /\ outbox'[i] = outbox[i + 1]
                                       /\ i \in Nat \ {0}
          /\ \A i \in DOMAIN outbox : i \in Nat /\ (i = 1 \/ i - 1 \in DOMAIN outbox')
      BY <2>1, TailFacts
    <3>2. \A i \in DOMAIN outbox : i # 1 => outbox'[i - 1] = outbox[i]
      <4>. SUFFICES ASSUME NEW i \in DOMAIN outbox, i # 1 PROVE outbox'[i - 1] = outbox[i]
        OBVIOUS
      <4>1. i - 1 \in DOMAIN outbox' /\ i \in Nat /\ (i - 1) + 1 = i
        BY <3>1
      <4>. QED  BY <3>1, <4>1
    <3>. QED  BY <3>1, <3>2 DEF Modes
  <2>3. \A i \in Modes' : (\A j \in Modes' : j <= i) => outbox'[i].mode = mode'
    <3>. SUFFICES ASSUME NEW i \in Modes', \A j \in Modes' : j <= i PROVE outbox'[i].mode = mode'
      OBVIOUS
    <3>1. \A j \in Modes : j <= i + 1
      BY <2>2
    <3>. QED  BY <1>0, <2>2, <3>1 DEF ModeInv
  <2>4. (\A i \in Modes' : i = 1 /\ pc' \in {"save", "answer"}) => \A i \in Modes : i = 1
    BY <2>1, <2>2
  <2>. QED  BY <1>0, <2>1, <2>3, <2>4 DEF ModeInv, SeedMode
<1>. QED  BY <1>1, <1>2, <1>3, <1>4, <1>5 DEF RecordNext

LEMMA ModeCrash ==
    ASSUME ModeInv, Crash
    PROVE  ModeInv'
<1>1. /\ Modes' = Modes /\ UNCHANGED <<outbox, mode, savedMode, batch, shownMode>> /\ pc' = "idle"
      /\ lost' = (lost \/ chosen # None \/ HoldsMode(queue))
  BY DEF Crash, Goto, Modes, base, ha, past
<1>. QED  BY <1>1 DEF ModeInv, SeedMode

LEMMA ModeInit == Init => ModeInv
  BY DEF Init, ModeInv, Modes, SeedMode

LEMMA ModeNext == TypeInv /\ ModeInv /\ [Next]_vars => ModeInv'
<1>. SUFFICES ASSUME TypeInv, ModeInv, [Next]_vars PROVE ModeInv'
  OBVIOUS
<1>1. CASE UNCHANGED vars
  BY <1>1, ModeStays DEF vars, gateway, ha, base, past, Clear
<1>. QED  BY <1>1, ModeUser, ModeBase, ModeRecord, ModeCrash DEF Next

\* When nothing is under way Home Assistant shows the mode the base is in, or a guess
\* that was lost since, however many modes are chosen here and there and whenever the
\* gateway dies (gigaset_gateway.py:1208-1212, 1285-1298, 3011-3017).
THEOREM ModeShown == Spec => []ModeIsShown
<1>1. ModeInv => ModeIsShown
  BY DEF ModeInv, ModeIsShown, Quiet, Modes, HoldsMode
<1>. QED  BY <1>1, InitTyped, NextTyped, ModeInit, ModeNext, PTL DEF Spec

-----------------------------------------------------------------------------
(* The alarm sensor, of a base that raises one kind of alarm *)

LEMMA AlarmStays ==
    ASSUME AlarmInv, UNCHANGED <<outbox, alarms, hidden, shownAlarm>>,
           pc' = pc \/ pc' \in {"idle", "telemetry"} \/ pc \notin {"idle", "telemetry"}
    PROVE  AlarmInv'
  BY DEF AlarmInv, Alarming, Alarms, Tells

LEMMA AlarmPost ==
    ASSUME TypeInv, AlarmInv, UNCHANGED <<pc, shownAlarm>>, NEW r \in Said, Post(r),
           IF Tells(r) THEN r.kind = "start" <=> Alarming' ELSE UNCHANGED <<alarms, hidden>>
    PROVE  AlarmInv'
<1>. DEFINE n == Len(outbox) + 1
<1>1. CASE Tells(r)
  <2>1. /\ n \in Alarms' /\ outbox'[n] = r /\ (pc # "idle" => n # 1)
        /\ \A i \in Alarms' : i <= n /\ i \in Nat
    BY <1>1, PostFacts DEF Alarms
  <2>2. n \in Nat
    BY PostFacts
  <2>. HIDE DEF n
  <2>3. \A i \in Alarms' : (\A j \in Alarms' : j <= i) => i = n
    BY <2>1, <2>2
  <2>. QED  BY <1>1, <2>1, <2>3 DEF AlarmInv
<1>2. CASE ~Tells(r)
  <2>1. Alarms' = Alarms /\ \A i \in Alarms : outbox'[i] = outbox[i]
    BY <1>2, PostFacts DEF Alarms
  <2>. QED  BY <1>2, <2>1 DEF AlarmInv, Alarming
<1>. QED  BY <1>1, <1>2

LEMMA AlarmMode ==
    ASSUME TypeInv, AlarmInv, UNCHANGED <<pc, shownAlarm>>,
           NEW m \in Mode, SetMode(m)
    PROVE  AlarmInv'
<1>1. /\ ModeReport(m) \in Said /\ Post(ModeReport(m))
      /\ IF m = "away" THEN UNCHANGED <<alarms, hidden>> ELSE hidden' = (alarms' # {})
  BY ReportsTyped DEF SetMode, Ended
<1>2. m # "away" => ~Alarming'
  BY <1>1 DEF Alarming
<1>3. ModeReport(m).kind = "mode" /\ (Tells(ModeReport(m)) <=> m # "away")
  BY DEF ModeReport, Report, Tells
<1>. QED  BY <1>1, <1>2, <1>3, AlarmPost

LEMMA AlarmBase ==
    ASSUME TypeInv, AlarmInv, BaseNext
    PROVE  AlarmInv'
<1>0. UNCHANGED <<pc, shownAlarm>>
  BY DEF BaseNext, Poll, LosePoll, Run, PairTimer, Reload, Pair, Contact, Happens, LocalMode,
     AlarmStarts, AlarmEnds, NodeEvent, gateway, ha, past
<1>a. \A a : Ended(a) => ~Alarming'
  BY DEF Ended, Alarming
<1>1. CASE Poll \/ LosePoll \/ PairTimer \/ Reload
  BY <1>0, <1>1, AlarmStays DEF Poll, LosePoll, PairTimer, Reload, base, past
<1>2. CASE Run
  <2>. DEFINE c == Head(batch)
  <2>1. c \in Orders
    BY <1>2, TailFacts DEF Run, TypeInv
  <2>2. \/ UNCHANGED <<alarms, hidden, outbox>>
        \/ Acknowledge
        \/ c.act = "mode" /\ SetMode(c.mode)
    BY <1>2 DEF Run, OpenWindow
  <2>. HIDE DEF c
  <2>3. CASE UNCHANGED <<alarms, hidden, outbox>>
    BY <1>0, <2>3, AlarmStays
  <2>4. CASE Acknowledge
    <3>1. CASE "intrusion" \in alarms
      <4>1. ~Alarming' /\ Post(EndReport("intrusion")) /\ EndReport("intrusion") \in Said
        BY <2>4, <3>1, ReportsTyped, BaseControlsAssumption DEF Acknowledge, Ended, Alarming
      <4>2. EndReport("intrusion").kind = "end" /\ Tells(EndReport("intrusion"))
        BY DEF EndReport, Report, Tells
      <4>. QED  BY <1>0, <4>1, <4>2, AlarmPost
    <3>2. CASE "intrusion" \notin alarms
      BY <1>0, <2>4, <3>2, AlarmStays DEF Acknowledge
    <3>. QED  BY <3>1, <3>2
  <2>5. CASE c.act = "mode" /\ SetMode(c.mode)
    BY <1>0, <2>1, <2>5, AlarmMode DEF Orders
  <2>. QED  BY <2>2, <2>3, <2>4, <2>5
<1>3. ASSUME NEW m \in Mode, LocalMode(m) PROVE AlarmInv'
  BY <1>0, <1>3, AlarmMode DEF LocalMode
<1>4. ASSUME NEW a \in AlarmKind, AlarmStarts(a) PROVE AlarmInv'
  <2>1. StartReport(a) \in Said /\ StartReport(a).kind = "start" /\ Tells(StartReport(a))
    BY ReportsTyped DEF StartReport, Report, Tells
  <2>2. Post(StartReport(a)) /\ Alarming'
    BY <1>4 DEF AlarmStarts, Alarming
  <2>. QED  BY <1>0, <2>1, <2>2, AlarmPost
<1>5. ASSUME NEW a \in AlarmKind, AlarmEnds(a) PROVE AlarmInv'
  <2>1. EndReport(a) \in Said /\ EndReport(a).kind = "end" /\ Tells(EndReport(a))
    BY ReportsTyped DEF EndReport, Report, Tells
  <2>2. Post(EndReport(a)) /\ ~Alarming'
    BY <1>a, <1>5 DEF AlarmEnds
  <2>. QED  BY <1>0, <2>1, <2>2, AlarmPost
<1>6. CASE Contact \/ \E d \in Node : Pair(d) \/ NodeEvent(d)
  <2>1. PICK r \in Said : ~Tells(r) /\ Post(r)
    BY <1>6, ReportsTyped DEF Contact, Pair, NodeEvent, NodeReport, OtherReport, Report, Tells
  <2>2. alarms' = alarms /\ hidden' = hidden
    BY <1>6 DEF Contact, Pair, NodeEvent, base, past
  <2>. QED  BY <1>0, <2>1, <2>2, AlarmPost
<1>. QED  BY <1>1, <1>2, <1>3, <1>4, <1>5, <1>6 DEF BaseNext

LEMMA AlarmRecord ==
    ASSUME TypeInv, AlarmInv, RecordNext
    PROVE  AlarmInv'
<1>. USE DEF TypeInv
<1>0. alarms' = alarms /\ hidden' = hidden /\ Alarming' = Alarming
  BY DEF RecordNext, Announce, Telemetry, SaveMode, Store, PublishEvent, CloseWindow, Answer, base, past,
     Alarming
<1>1. CASE Announce \/ SaveMode \/ Store \/ PublishEvent \/ CloseWindow
  BY <1>0, <1>1, AlarmStays
  DEF Announce, SaveMode, Store, PublishEvent, CloseWindow, Goto, ha, past
<1>2. CASE Telemetry
  <2>1. /\ Alarms' = Alarms /\ outbox' = outbox /\ pc = "telemetry"
        /\ pc' \notin {"idle", "telemetry"} /\ outbox # <<>>
    BY <1>2 DEF Telemetry, Goto, Alarms, Tells, TypeOK
  <2>2. Now = outbox[1] /\ 1 \in DOMAIN outbox /\ \A i \in DOMAIN outbox : i \in Nat
    BY <2>1, TailFacts DEF Now
  <2>3. CASE Tells(Now)
    <3>1. 1 \in Alarms /\ \A i \in Alarms : i \in Nat
      BY <2>2, <2>3 DEF Alarms
    <3>2. (\A i \in Alarms : i = 1) => (Now.kind = "start" <=> Alarming)
      BY <2>2, <3>1 DEF AlarmInv
    <3>3. shownAlarm' <=> Now.kind = "start"
      BY <1>2, <2>3 DEF Telemetry, ShowMode, Tells
    <3>. QED  BY <1>0, <2>1, <3>2, <3>3 DEF AlarmInv
  <2>4. CASE ~Tells(Now)
    <3>1. 1 \notin Alarms
      BY <2>2, <2>4 DEF Alarms
    <3>a. \/ Now.kind = "mode" /\ ShowMode(Now.mode)
          \/ Now.kind \in {"start", "end"}
          \/ shownAlarm' = shownAlarm
      BY <1>2 DEF Telemetry
    <3>2. shownAlarm' <=> shownAlarm
      <4>1. CASE Now.kind = "mode" /\ ShowMode(Now.mode)
        <5>1. Now.mode = "away"
          BY <2>4, <4>1 DEF Tells
        <5>2. shownAlarm' = (shownAlarm /\ Now.mode = "away")
          BY <4>1 DEF ShowMode
        <5>. QED  BY <5>1, <5>2
      <4>. QED  BY <2>4, <3>a, <4>1 DEF Tells
    <3>. QED  BY <1>0, <2>1, <3>1, <3>2 DEF AlarmInv
  <2>. QED  BY <2>3, <2>4
<1>3. CASE Answer
  <2>1. /\ outbox' = Tail(outbox) /\ pc = "answer" /\ pc' = "idle" /\ shownAlarm' = shownAlarm
        /\ outbox # <<>>
    BY <1>3 DEF Answer, Goto, ha, past, TypeOK
  <2>2. /\ \A i \in Alarms' : i + 1 \in Alarms /\ outbox'[i] = outbox[i + 1] /\ i \in Nat \ {0}
        /\ \A i \in Alarms : i \in Nat /\ (i = 1 \/ i - 1 \in Alarms')
    <3>1. /\ \A i \in DOMAIN outbox' : i + 1 \in DOMAIN outbox /\ outbox'[i] = outbox[i + 1]
                                       /\ i \in Nat \ {0}
          /\ \A i \in DOMAIN outbox : i \in Nat /\ (i = 1 \/ i - 1 \in DOMAIN outbox')
      BY <2>1, TailFacts
    <3>2. \A i \in DOMAIN outbox : i # 1 => outbox'[i - 1] = outbox[i]
      <4>. SUFFICES ASSUME NEW i \in DOMAIN outbox, i # 1 PROVE outbox'[i - 1] = outbox[i]
        OBVIOUS
      <4>1. i - 1 \in DOMAIN outbox' /\ i \in Nat /\ (i - 1) + 1 = i
        BY <3>1
      <4>. QED  BY <3>1, <4>1
    <3>. QED  BY <3>1, <3>2 DEF Alarms, Tells
  <2>3. \A i \in Alarms' : (\A j \in Alarms' : j <= i) =>
           (outbox'[i].kind = "start" <=> Alarming')
    <3>. SUFFICES ASSUME NEW i \in Alarms', \A j \in Alarms' : j <= i
                  PROVE  outbox'[i].kind = "start" <=> Alarming'
      OBVIOUS
    <3>1. \A j \in Alarms : j <= i + 1
      BY <2>2
    <3>. QED  BY <1>0, <2>2, <3>1 DEF AlarmInv
  <2>. QED  BY <1>0, <2>1, <2>2, <2>3 DEF AlarmInv
<1>. QED  BY <1>1, <1>2, <1>3 DEF RecordNext

LEMMA AlarmNext == TypeInv /\ AlarmInv /\ [Next]_vars => AlarmInv'
<1>. SUFFICES ASSUME TypeInv, AlarmInv, [Next]_vars PROVE AlarmInv'
  OBVIOUS
<1>1. CASE UNCHANGED vars \/ Crash
  BY <1>1, AlarmStays DEF vars, Crash, Goto, gateway, ha, base, past
<1>2. CASE UserNext \/ QueueMode
  BY <1>2, AlarmStays DEF UserNext, ChooseMode, PressStart, PressOther, QueueMode, gateway, ha, base, past
<1>. QED  BY <1>1, <1>2, AlarmBase, AlarmRecord DEF Next

\* When nothing is under way Home Assistant shows an alarm only while there is one, and
\* always unless another one has ended since the last one started, for any kinds of alarm
\* (gigaset_gateway.py:1494-1510).
THEOREM AlarmShown == Spec => []AlarmIsShown
<1>1. Init => AlarmInv
  BY DEF Init, AlarmInv, Alarming, Alarms
<1>2. TypeInv /\ AlarmInv => AlarmIsShown
  <2>. SUFFICES ASSUME TypeInv, AlarmInv, Quiet PROVE shownAlarm <=> Alarming
    BY DEF AlarmIsShown, Alarming
  <2>1. Alarms = {}
    BY DEF Quiet, Alarms
  <2>. QED  BY <2>1 DEF AlarmInv
<1>. QED  BY <1>1, <1>2, InitTyped, NextTyped, AlarmNext, PTL DEF Spec

-----------------------------------------------------------------------------
(* The automatic stop *)

\* Steps that leave alone what is pressed, paired and shown, and lengthen no queue.
LEMMA StopStays ==
    ASSUME StopInv, UNCHANGED <<pc, isNew, known, overtaken, pairedAt, starts, outbox, queue, batch>>,
           window' = window
    PROVE  StopInv'
  BY DEF StopInv, StopFor, Paired, Now

\* A command that is no stop for a node, at the end of the queue.
LEMMA StopQueued ==
    ASSUME TypeInv, StopInv, NEW c, c.node = None \/ c.act # "stop",
           queue' = Append(queue, c), c \in Commands,
           UNCHANGED <<pc, isNew, known, overtaken, pairedAt, starts, outbox, batch, window>>
    PROVE  StopInv'
<1>1. queue \in Seq(Commands)
  BY DEF TypeInv, TypeOK
<1>2. /\ DOMAIN queue' = DOMAIN queue \cup {Len(queue) + 1}
      /\ \A i \in DOMAIN queue : queue'[i] = queue[i] /\ i \in 1..Len(queue)
      /\ queue'[Len(queue) + 1] = c /\ Len(queue) \in Nat /\ DOMAIN queue = 1..Len(queue)
  BY <1>1, AppendFacts
<1>3. \A d \in Node : ~StopFor(c, d)
  BY BaseControlsAssumption DEF StopFor
<1>4. \A d \in Node, i \in DOMAIN queue' : StopFor(queue'[i], d) =>
          i \in DOMAIN queue /\ StopFor(queue[i], d) /\ \A j \in 1..i - 1 : queue'[j] = queue[j]
  BY <1>2, <1>3
<1>. QED  BY <1>4 DEF StopInv, StopFor, Paired, Now

LEMMA StopUser ==
    ASSUME TypeInv, StopInv, UserNext \/ QueueMode
    PROVE  StopInv'
<1>1. ASSUME NEW m \in Mode, ChooseMode(m) PROVE StopInv'
  BY <1>1, StopStays DEF ChooseMode, base, past
<1>2. CASE QueueMode
  <2>1. Command("mode", chosen, 0, None) \in Commands
    BY <1>2, CommandsTyped DEF QueueMode, TypeInv, TypeOK, Orders
  <2>2. Command("mode", chosen, 0, None).act # "stop"
    BY DEF Command
  <2>. QED  BY <1>2, <2>1, <2>2, StopQueued DEF QueueMode, Enqueue, ha, base, counts, past
<1>3. ASSUME NEW a \in {"stop", "ack"}, PressOther(a) PROVE StopInv'
  <2>1. Command(a, None, 0, None) \in Commands
    BY CommandsTyped DEF TypeInv, TypeOK, Orders
  <2>2. Command(a, None, 0, None).node = None
    BY DEF Command
  <2>. QED  BY <1>3, <2>1, <2>2, StopQueued DEF PressOther, Enqueue, gateway, ha, base, past
<1>4. CASE PressStart
  <2>1. /\ starts' = starts + 1 /\ overtaken' = overtaken \cup Unclosed
        /\ UNCHANGED <<pc, isNew, known, pairedAt, outbox, batch, window>>
    BY <1>4 DEF PressStart, gateway, ha, base
  <2>. DEFINE c == Command("start", None, starts', None)
  <2>2. queue' = Append(queue, c) /\ c.act # "stop"
    BY <1>4 DEF PressStart, Enqueue, Command
  <2>3. c \in Commands
    BY <1>4, <2>1, BaseControlsAssumption DEF PressStart, Press, Command, Commands, TypeInv, TypeOK
  <2>. HIDE DEF c
  <2>4. queue \in Seq(Commands)
    BY DEF TypeInv, TypeOK
  <2>5. /\ DOMAIN queue' = DOMAIN queue \cup {Len(queue) + 1}
        /\ \A i \in DOMAIN queue : queue'[i] = queue[i] /\ i \in 1..Len(queue)
        /\ queue'[Len(queue) + 1] = c /\ Len(queue) \in Nat /\ DOMAIN queue = 1..Len(queue)
    BY <2>2, <2>3, <2>4, AppendFacts
  <2>6. \A d \in Node, i \in DOMAIN queue' : StopFor(queue'[i], d) =>
          i \in DOMAIN queue /\ StopFor(queue[i], d) /\ \A j \in 1..i - 1 : queue'[j] = queue[j]
    BY <2>2, <2>5 DEF StopFor
  <2>7. Paired' = Paired /\ Node \ overtaken' \subseteq Node \ overtaken
    BY <2>1 DEF Paired
  <2>8. Paired \ known \subseteq overtaken'
    BY <2>1 DEF Unclosed
  <2>9. pc \in {"publish", "close"} /\ isNew => Now.node \in overtaken'
    <3>1. pc # "idle" => outbox # <<>> /\ Now \in Said
      BY TailFacts DEF TypeInv, TypeOK, Now
    <3>. QED  BY <2>1, <3>1 DEF Unclosed, Now, TypeInv, Said
  <2>. QED  BY <2>1, <2>6, <2>7, <2>8, <2>9 DEF StopInv, StopFor, Now
<1>. QED  BY <1>1, <1>2, <1>3, <1>4 DEF UserNext

\* A report more, of a node that is paired if it is of a node.
LEMMA StopPost ==
    ASSUME TypeInv, StopInv, NEW r \in Said, Post(r), r.kind = "node" => pairedAt[r.node] # None,
           UNCHANGED <<pc, isNew, known, overtaken, pairedAt, starts, queue, batch, window>>
    PROVE  StopInv'
<1>1. \A i \in DOMAIN outbox' : outbox'[i].kind = "node" => pairedAt[outbox'[i].node] # None
  BY PostFacts DEF StopInv
<1>2. outbox # <<>> => Now' = Now
  BY PostTyped
<1>3. pc # "idle" => outbox # <<>>
  BY DEF TypeInv, TypeOK
<1>. QED  BY <1>1, <1>2, <1>3 DEF StopInv, StopFor, Paired

\* gwctl runs one command; a window that opens is not later than the stops behind it allow.
LEMMA StopRun ==
    ASSUME TypeInv, StopInv, batch # <<>>, batch' = Tail(batch), window' \in {0, window, Head(batch).num},
           UNCHANGED <<pc, isNew, known, overtaken, pairedAt, starts, outbox, queue>>
    PROVE  StopInv'
<1>1. /\ Head(batch) = batch[1] /\ 1 \in DOMAIN batch
      /\ \A i \in DOMAIN batch' : i + 1 \in DOMAIN batch /\ batch'[i] = batch[i + 1] /\ i \in Nat \ {0}
  BY TailFacts DEF TypeInv
<1>2. \A d \in Node : pairedAt[d] # None => pairedAt[d] \in Nat
  BY DEF TypeInv, TypeOK
<1>a. \A i \in DOMAIN batch' : \A j \in 1..i - 1 : j \in DOMAIN batch' /\ j + 1 \in 1..(i + 1) - 1
  BY DEF TypeInv
<1>3. ASSUME NEW d \in Node \ overtaken, NEW i \in DOMAIN batch', StopFor(batch'[i], d)
      PROVE  /\ pairedAt[d] # None /\ window' <= pairedAt[d]
             /\ \A j \in 1..i - 1 : batch'[j].num <= pairedAt[d]
  <2>1. i + 1 \in DOMAIN batch /\ StopFor(batch[i + 1], d) /\ i \in Nat \ {0}
    BY <1>1, <1>3
  <2>2. /\ pairedAt[d] # None /\ window <= pairedAt[d]
        /\ \A j \in 1..(i + 1) - 1 : batch[j].num <= pairedAt[d]
    BY <2>1 DEF StopInv
  <2>3. batch[1].num <= pairedAt[d]
    BY <2>1, <2>2
  <2>4. window' <= pairedAt[d]
    BY <1>1, <1>2, <2>2, <2>3
  <2>5. ASSUME NEW j \in 1..i - 1 PROVE batch'[j].num <= pairedAt[d]
    BY <1>1, <1>a, <2>2
  <2>. QED  BY <2>2, <2>4, <2>5
<1>4. ASSUME NEW d \in Node \ overtaken, NEW i \in DOMAIN queue, StopFor(queue[i], d)
      PROVE  /\ pairedAt[d] # None /\ window' <= pairedAt[d]
             /\ \A j \in DOMAIN batch' : batch'[j].num <= pairedAt[d]
             /\ \A j \in 1..i - 1 : queue[j].num <= pairedAt[d]
  BY <1>1, <1>2, <1>4 DEF StopInv
<1>. QED  BY <1>3, <1>4 DEF StopInv, StopFor, Paired, Now

LEMMA StopBase ==
    ASSUME TypeInv, StopInv, BaseNext
    PROVE  StopInv'
<1>0. UNCHANGED <<pc, isNew, known, overtaken, starts>>
  BY DEF BaseNext, Poll, LosePoll, Run, PairTimer, Reload, Pair, Contact, Happens, LocalMode,
     AlarmStarts, AlarmEnds, NodeEvent, gateway, ha, counts, past
<1>a. \A d \in Node : pairedAt[d] # None => pairedAt[d] \in Nat
  BY DEF TypeInv, TypeOK
<1>1. CASE Poll
  <2>1. batch = <<>> /\ batch' = queue /\ queue' = <<>> /\ UNCHANGED <<pairedAt, outbox, window>>
    BY <1>1 DEF Poll, base, past
  <2>. QED  BY <1>0, <2>1 DEF StopInv, StopFor, Paired, Now
<1>2. CASE LosePoll
  <2>1. queue' = <<>> /\ UNCHANGED <<pairedAt, outbox, window, batch>>
    BY <1>2 DEF LosePoll, base, past
  <2>. QED  BY <1>0, <2>1 DEF StopInv, StopFor, Paired, Now
<1>3. CASE PairTimer
  <2>1. window' = 0 /\ UNCHANGED <<pairedAt, outbox, queue, batch>>
    BY <1>3 DEF PairTimer
  <2>. QED  BY <1>0, <1>a, <2>1 DEF StopInv, StopFor, Paired, Now
<1>4. CASE Reload
  BY <1>0, <1>4, StopStays DEF Reload
<1>5. CASE Run
  <2>1. /\ batch # <<>> /\ batch' = Tail(batch) /\ UNCHANGED <<queue, pairedAt>>
        /\ window' \in {0, window, Head(batch).num}
    BY <1>5 DEF Run, OpenWindow
  <2>2. CASE outbox' = outbox
    BY <1>0, <2>1, <2>2, StopRun
  <2>3. CASE outbox' # outbox
    <3>1. \/ Head(batch).act = "mode" /\ Post(ModeReport(Head(batch).mode))
          \/ Head(batch).act = "ack" /\ Post(EndReport("intrusion"))
      BY <1>5, <2>3 DEF Run, SetMode, Acknowledge
    <3>2. Head(batch) \in Orders
      BY <2>1, TailFacts DEF TypeInv
    <3>3. PICK r \in Said : r.kind # "node" /\ Post(r)
      BY <3>1, <3>2, ReportsTyped, BaseControlsAssumption
      DEF Orders, ModeReport, EndReport, Report
    <3>4. \A i \in DOMAIN outbox' : outbox'[i].kind = "node" => pairedAt[outbox'[i].node] # None
      BY <3>3, PostFacts DEF StopInv
    <3>5. /\ outbox # <<>> => Now' = Now
          /\ pc # "idle" => outbox # <<>>
      BY <3>3, PostTyped DEF TypeInv, TypeOK
    <3>6. window' = window
      BY <1>5, <2>3 DEF Run
    <3>7. /\ \A i \in DOMAIN batch' : i + 1 \in DOMAIN batch /\ batch'[i] = batch[i + 1] /\ i \in Nat \ {0}
          /\ \A i \in DOMAIN batch' : \A j \in 1..i - 1 : j \in DOMAIN batch' /\ j + 1 \in 1..(i + 1) - 1
      BY <2>1, TailFacts DEF TypeInv
    <3>8. ASSUME NEW d \in Node \ overtaken, NEW i \in DOMAIN batch', StopFor(batch'[i], d)
          PROVE  /\ pairedAt[d] # None /\ window <= pairedAt[d]
                 /\ \A j \in 1..i - 1 : batch'[j].num <= pairedAt[d]
      <4>1. i + 1 \in DOMAIN batch /\ StopFor(batch[i + 1], d)
        BY <3>7, <3>8
      <4>2. /\ pairedAt[d] # None /\ window <= pairedAt[d]
            /\ \A j \in 1..(i + 1) - 1 : batch[j].num <= pairedAt[d]
        BY <4>1 DEF StopInv
      <4>. QED  BY <3>7, <4>2
    <3>. QED  BY <1>0, <2>1, <3>4, <3>5, <3>6, <3>7, <3>8 DEF StopInv, StopFor, Paired
  <2>. QED  BY <2>2, <2>3
<1>6. ASSUME NEW d \in Node, Pair(d) PROVE StopInv'
  <2>1. /\ pairedAt[d] = None /\ pairedAt' = [pairedAt EXCEPT ![d] = starts]
        /\ Post(NodeReport(d)) /\ UNCHANGED <<queue, batch, window>>
    BY <1>6 DEF Pair
  <2>2. starts # None /\ NodeReport(d) \in Said /\ NodeReport(d).node = d
    BY ReportsTyped, BaseControlsAssumption DEF TypeInv, TypeOK, NodeReport, Report
  <2>3. /\ pairedAt'[d] = starts
        /\ \A e \in Node \ {d} : pairedAt'[e] = pairedAt[e]
    BY <2>1 DEF TypeInv, TypeOK
  <2>4. \A i \in DOMAIN outbox' : outbox'[i].kind = "node" => pairedAt'[outbox'[i].node] # None
    <3>1. outbox \in Seq(Said)
      BY DEF TypeInv
    <3>2. \A i \in DOMAIN outbox : outbox[i].kind = "node" => outbox[i].node \in Node
      BY <3>1 DEF Said
    <3>. QED  BY <2>1, <2>2, <2>3, <3>2, PostFacts DEF StopInv
  <2>5. /\ outbox # <<>> => Now' = Now
        /\ pc # "idle" => outbox # <<>>
        /\ pc \in {"publish", "close"} => Now.kind = "node" /\ Now = outbox[1] /\ 1 \in DOMAIN outbox
    BY <2>1, <2>2, PostTyped, TailFacts DEF TypeInv, TypeOK, Now
  <2>6. pc \in {"publish", "close"} => Now.node # d /\ Now.node \in Node
    <3>1. outbox # <<>> => Now \in Said
      BY TailFacts DEF TypeInv, Now
    <3>. QED  BY <2>1, <2>5, <3>1 DEF StopInv, Said
  <2>7. Paired' = Paired \cup {d} /\ d \notin Paired
    BY <2>1, <2>2, <2>3 DEF Paired
  <2>8. Paired \subseteq Node
    BY DEF Paired
  <2>. QED  BY <1>0, <2>1, <2>2, <2>3, <2>4, <2>5, <2>6, <2>7, <2>8 DEF StopInv, StopFor
<1>7. CASE \/ Contact \/ \E m \in Mode : LocalMode(m)
           \/ \E a \in AlarmKind : AlarmStarts(a) \/ AlarmEnds(a)
           \/ \E d \in Node : NodeEvent(d)
  <2>1. UNCHANGED <<queue, batch, window, pairedAt>>
    BY <1>7 DEF Contact, LocalMode, AlarmStarts, AlarmEnds, NodeEvent, Happens, base, past
  <2>2. PICK r \in Said : Post(r) /\ (r.kind = "node" => pairedAt[r.node] # None)
    BY <1>7, ReportsTyped
    DEF Contact, LocalMode, SetMode, AlarmStarts, AlarmEnds, NodeEvent, Paired, ModeReport,
        StartReport, EndReport, NodeReport, OtherReport, Report
  <2>. QED  BY <1>0, <2>1, <2>2, StopPost
<1>. QED  BY <1>1, <1>2, <1>3, <1>4, <1>5, <1>6, <1>7 DEF BaseNext

LEMMA StopRecord ==
    ASSUME TypeInv, StopInv, RecordNext
    PROVE  StopInv'
<1>0. UNCHANGED <<pairedAt, starts, batch, window>>
  BY DEF RecordNext, Announce, Telemetry, SaveMode, Store, PublishEvent, CloseWindow, Answer,
     base, counts, past
<1>a. Paired' = Paired
  BY <1>0 DEF Paired
<1>b. pc # "idle" => Now \in Said /\ Now = outbox[1] /\ 1 \in DOMAIN outbox
  BY TailFacts DEF TypeInv, TypeOK, Now
<1>c. pc \in {"store", "publish", "close"} =>
         Now.kind = "node" /\ Now.node \in Node /\ Now.node \in Paired
  BY <1>b DEF TypeInv, StopInv, Said, Paired
<1>1. CASE Announce \/ Telemetry \/ SaveMode
  <2>1. /\ UNCHANGED <<known, isNew, overtaken, queue, outbox>>
        /\ pc' \in {"telemetry", "save", "answer", "store"}
    BY <1>1 DEF Announce, Telemetry, SaveMode, Goto, ha, past
  <2>. QED  BY <1>0, <1>a, <2>1 DEF StopInv, StopFor, Now
<1>2. CASE Store
  <2>1. /\ UNCHANGED <<overtaken, queue, outbox>> /\ pc = "store" /\ pc' = "publish"
        /\ isNew' = (Now.node \notin known) /\ known' = known \cup {Now.node}
    BY <1>2 DEF Store, Goto, Fresh, ha, past
  <2>2. isNew' /\ Now.node \notin overtaken => pairedAt[Now.node] = starts
    BY <1>c, <2>1 DEF StopInv
  <2>. QED  BY <1>0, <1>a, <2>1, <2>2 DEF StopInv, StopFor, Now
<1>3. CASE PublishEvent
  <2>1. /\ UNCHANGED <<known, isNew, overtaken, queue, outbox>> /\ pc = "publish"
        /\ pc' \in {"close", "answer"} /\ (pc' = "close" => isNew)
    BY <1>3 DEF PublishEvent, Goto, past
  <2>. QED  BY <1>0, <1>a, <2>1 DEF StopInv, StopFor, Now, TypeInv
<1>4. CASE CloseWindow
  <2>1. /\ UNCHANGED <<known, isNew, overtaken, outbox>> /\ pc = "close" /\ pc' = "answer"
        /\ queue' = Append(queue, Stop(Now.node))
    BY <1>4 DEF CloseWindow, Goto, Enqueue, ha, past
  <2>2. /\ Now.node \in Node /\ starts \in Nat /\ starts # None
        /\ Now.node \notin overtaken => pairedAt[Now.node] = starts
    BY <1>c, <2>1, BaseControlsAssumption DEF StopInv, TypeInv, TypeOK
  <2>3. /\ DOMAIN queue' = DOMAIN queue \cup {Len(queue) + 1}
        /\ \A i \in DOMAIN queue : queue'[i] = queue[i] /\ i \in 1..Len(queue)
        /\ queue'[Len(queue) + 1] = Stop(Now.node)
        /\ Len(queue) \in Nat /\ DOMAIN queue = 1..Len(queue)
    <3>1. Stop(Now.node) \in Orders /\ queue \in Seq(Orders)
      BY <2>2, CommandsTyped DEF TypeInv, TypeOK
    <3>. QED  BY <2>1, <3>1, AppendFacts
  <2>4. ASSUME NEW d \in Node \ overtaken, NEW i \in DOMAIN queue', StopFor(queue'[i], d)
        PROVE  /\ pairedAt[d] # None /\ window <= pairedAt[d]
               /\ \A j \in DOMAIN batch : batch[j].num <= pairedAt[d]
               /\ \A j \in 1..i - 1 : queue'[j].num <= pairedAt[d]
    <3>1. CASE i \in DOMAIN queue
      <4>1. StopFor(queue[i], d) /\ \A j \in 1..i - 1 : j \in DOMAIN queue /\ queue'[j] = queue[j]
        BY <2>3, <2>4, <3>1
      <4>2. /\ pairedAt[d] # None /\ window <= pairedAt[d]
            /\ \A j \in DOMAIN batch : batch[j].num <= pairedAt[d]
            /\ \A j \in 1..i - 1 : queue[j].num <= pairedAt[d]
        BY <3>1, <4>1 DEF StopInv
      <4>. QED  BY <4>1, <4>2
    <3>2. CASE i = Len(queue) + 1
      <4>1. pairedAt[d] = starts
        BY <2>2, <2>3, <2>4, <3>2 DEF StopFor, Stop, Command
      <4>2. \A j \in DOMAIN batch : batch[j].num <= starts
        BY DEF TypeInv, Orders
      <4>3. \A j \in DOMAIN queue : queue[j].num <= starts
        BY DEF TypeInv, Orders
      <4>4. \A j \in 1..i - 1 : j \in DOMAIN queue /\ queue'[j] = queue[j]
        BY <2>3, <3>2
      <4>5. window <= starts
        BY DEF TypeInv, TypeOK
      <4>. QED  BY <2>2, <4>1, <4>2, <4>3, <4>4, <4>5
    <3>. QED  BY <2>3, <3>1, <3>2
  <2>. QED  BY <1>0, <1>a, <2>1, <2>4 DEF StopInv, StopFor, Now
<1>5. CASE Answer
  <2>1. UNCHANGED <<known, overtaken, queue>> /\ isNew' = FALSE /\ pc' = "idle" /\ outbox' = Tail(outbox)
    BY <1>5 DEF Answer, Goto, ha, past
  <2>2. outbox # <<>> /\ outbox \in Seq(Said)
    BY <1>5 DEF Answer, TypeInv, TypeOK
  <2>3. \A i \in DOMAIN outbox' : i + 1 \in DOMAIN outbox /\ outbox'[i] = outbox[i + 1]
    BY <2>1, <2>2, TailFacts
  <2>. QED  BY <1>0, <1>a, <2>1, <2>3 DEF StopInv, StopFor
<1>. QED  BY <1>1, <1>2, <1>3, <1>4, <1>5 DEF RecordNext

LEMMA StopNext == TypeInv /\ StopInv /\ [Next]_vars => StopInv'
<1>. SUFFICES ASSUME TypeInv, StopInv, [Next]_vars PROVE StopInv'
  OBVIOUS
<1>1. CASE UNCHANGED vars
  BY <1>1, StopStays DEF vars, gateway, ha, base, counts, past
<1>2. CASE Crash
  <2>1. /\ queue' = <<>> /\ pc' = "idle" /\ isNew' = FALSE
        /\ UNCHANGED <<known, overtaken, pairedAt, starts, outbox, batch, window>>
    BY <1>2 DEF Crash, Goto, ha, base, past
  <2>2. Paired' = Paired
    BY <2>1 DEF Paired
  <2>. QED  BY <2>1, <2>2 DEF StopInv, StopFor
<1>. QED  BY <1>1, <1>2, StopUser, StopBase, StopRecord DEF Next

\* The stop that the gateway sends for a new node closes no window that was asked for
\* after the stop was queued, whenever the buttons are pressed and whatever nodes the
\* gateway had not heard of (gigaset_gateway.py:3061, 3079-3088).
THEOREM ClosesNoneLater == Spec => []ClosesNoLater
<1>1. Init => StopInv
  <2>. SUFFICES ASSUME Init PROVE StopInv
    OBVIOUS
  <2>1. \A d \in Paired : pairedAt[d] = starts
    BY BaseControlsAssumption DEF Init, Paired
  <2>2. DOMAIN outbox = {} /\ DOMAIN batch = {} /\ DOMAIN queue = {} /\ pc = "idle"
    BY DEF Init
  <2>. QED  BY <2>1, <2>2 DEF StopInv
<1>2. TypeInv /\ StopInv => ClosesNoLater
  <2>. SUFFICES ASSUME TypeInv, StopInv, batch # <<>>, Head(batch).act = "stop",
                       Head(batch).node \notin overtaken \cup {None}
                PROVE  window <= pairedAt[Head(batch).node]
    BY DEF ClosesNoLater
  <2>1. Head(batch) = batch[1] /\ 1 \in DOMAIN batch /\ Head(batch) \in Orders
    BY TailFacts DEF TypeInv
  <2>2. Head(batch).node \in Node
    BY <2>1 DEF Orders, Commands
  <2>. QED  BY <2>1, <2>2 DEF StopInv, StopFor
<1>. QED  BY <1>1, <1>2, InitTyped, NextTyped, StopNext, PTL DEF Spec
=============================================================================
