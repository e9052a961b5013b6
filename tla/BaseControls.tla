---------------------------- MODULE BaseControls ----------------------------
(***************************************************************************)
(* A base's own controls in Home Assistant: the selector of the alarm mode, *)
(* the alarm sensor, and the buttons that open and close the pairing window. *)
(*                                                                          *)
(* A command goes through the /gwctl channel (see ControlQueue), of which   *)
(* this module keeps what BaseMailbox promises: commands are handed over in *)
(* order, or lost.  gwctl, on the base, runs them.  What happens on the     *)
(* base comes back as reports, which record() handles one at a time.        *)
(*                                                                          *)
(* Two rules of the gateway meet here: a chosen mode is shown before the    *)
(* base confirms it, and the first event of a node that is not in the       *)
(* registry closes the pairing window.                                      *)
(***************************************************************************)
EXTENDS Naturals, Sequences

CONSTANTS
    Node, Mode,     \* end nodes; alarm modes, with "away"
    InitialMode,    \* last_intrusion_mode of the configuration served
    AlarmKind,      \* kinds of alarms the base raises
    None,
    TimersLast,     \* do gwctl's timers outlive a reload of the CRE?
    MaxPresses, MaxChanges, MaxFaults   \* bounds

ASSUME BaseControlsAssumption ==
    /\ {"away", InitialMode} \subseteq Mode /\ "intrusion" \in AlarmKind
    /\ None \notin Node \cup Mode \cup Nat /\ TimersLast \in BOOLEAN
    /\ {MaxPresses, MaxChanges, MaxFaults} \subseteq Nat

VARIABLES
    queue,          \* commands on their way to the base
    chosen,         \* paho's thread: a mode shown and not yet queued
    savedMode, seeded,  \* alarm_modes and seeded_modes, for this base
    known,          \* nodes in the registry
    pc,             \* the connection thread's place in record()
    isNew,          \* its newly_paired
    shownMode, shownAlarm,              \* in Home Assistant
    batch,          \* lines gwctl has fetched and not run
    mode, alarms,   \* of the base
    window,         \* 0, or the number of the press that opened it
    timer,          \* is PAIR_TIMER set?
    pairedAt,       \* per node: None, or the presses made when it paired
    outbox,         \* reports the base has to post, oldest first
    lost,           \* history: has a mode been lost that Home Assistant shows?
    hidden,         \* history: has an alarm ended since the last start of one, and
                    \* left another going on?
    overtaken,      \* history: nodes that were paired, but their stop not queued yet,
                    \* when a window was asked for
    starts, presses, changes, faults    \* counters

gateway == <<chosen, savedMode, seeded, known, pc, isNew>>
ha      == <<shownMode, shownAlarm>>
base    == <<mode, alarms, window, timer, pairedAt>>
counts  == <<starts, presses, changes, faults>>
past    == <<lost, hidden, overtaken>>
vars    == <<queue, gateway, ha, batch, base, outbox, past, counts>>

Command(a, m, n, d) == [act |-> a, mode |-> m, num |-> n, node |-> d]
Report(k, m, a, d)  == [kind |-> k, mode |-> m, alarm |-> a, node |-> d]
ModeReport(m)  == Report("mode", m, None, None)
StartReport(a) == Report("start", None, a, None)
EndReport(a)   == Report("end", None, a, None)
NodeReport(d)  == Report("node", None, None, d)
OtherReport    == Report("other", None, None, None)

Paired == {d \in Node : pairedAt[d] # None}
HoldsMode(s) == \E i \in DOMAIN s : s[i].act = "mode"
Post(r) == outbox' = Append(outbox, r)

Init ==
    /\ queue = <<>> /\ chosen = None /\ savedMode = None /\ seeded = FALSE
    /\ known = {} /\ pc = "idle" /\ isNew = FALSE
    /\ shownMode = None /\ shownAlarm = FALSE
    /\ batch = <<>> /\ mode = InitialMode /\ alarms = {}
    /\ window = 0 /\ timer = FALSE
    /\ \E old \in SUBSET Node : pairedAt = [d \in Node |-> IF d \in old THEN 0 ELSE None]
    /\ outbox = <<>> /\ lost = FALSE /\ hidden = FALSE /\ overtaken = {}
    /\ starts = 0 /\ presses = 0 /\ changes = 0 /\ faults = 0

-----------------------------------------------------------------------------
(* Home Assistant and paho's thread: on_message, request_control_action *)

Press == presses < MaxPresses /\ presses' = presses + 1
Enqueue(c) == queue' = Append(queue, c)

\* The selector: the mode is shown at once, then queued.
ChooseMode(m) ==
    /\ chosen = None /\ shownMode # None /\ Press
    /\ chosen' = m /\ shownMode' = m
    /\ UNCHANGED <<queue, savedMode, seeded, known, pc, isNew, shownAlarm>>
    /\ UNCHANGED <<batch, base, outbox, past, starts, changes, faults>>

QueueMode ==
    /\ chosen # None /\ Enqueue(Command("mode", chosen, 0, None))
    /\ chosen' = None
    /\ UNCHANGED <<savedMode, seeded, known, pc, isNew, ha, batch, base, outbox, past, counts>>

\* The nodes the gateway has still to send a stop for.
Unclosed == (Paired \ known)
            \cup {d \in Node : pc \in {"publish", "close"} /\ isNew /\ Head(outbox).node = d}

\* The buttons.
PressStart ==
    /\ chosen = None /\ shownMode # None /\ Press
    /\ starts' = starts + 1
    /\ Enqueue(Command("start", None, starts', None))
    /\ overtaken' = overtaken \cup Unclosed
    /\ UNCHANGED <<gateway, ha, batch, base, outbox, lost, hidden, changes, faults>>

PressOther(act) ==
    /\ chosen = None /\ shownMode # None /\ Press
    /\ Enqueue(Command(act, None, 0, None))
    /\ UNCHANGED <<gateway, ha, batch, base, outbox, past, starts, changes, faults>>

-----------------------------------------------------------------------------
(* gwctl and the base *)

\* The base fetches all that waits for it, and runs it line by line.
Poll ==
    /\ batch = <<>> /\ queue # <<>>
    /\ batch' = queue /\ queue' = <<>>
    /\ UNCHANGED <<gateway, ha, base, outbox, past, counts>>

\* The answer to a poll never reaches the base: the commands are gone.
LosePoll ==
    /\ batch = <<>> /\ queue # <<>> /\ faults < MaxFaults /\ faults' = faults + 1
    /\ queue' = <<>> /\ lost' = (lost \/ HoldsMode(queue))
    /\ UNCHANGED <<gateway, ha, batch, base, outbox, hidden, overtaken, starts, presses, changes>>

\* An alarm is over; the others go on.
Ended(a) == alarms' = alarms \ {a} /\ hidden' = (alarms' # {})

\* A mode is set and confirmed; one but "away" acknowledges an intrusion, of which
\* the base says nothing more.
SetMode(m) ==
    /\ mode' = m
    /\ IF m = "away" THEN UNCHANGED <<alarms, hidden>> ELSE Ended("intrusion")
    /\ Post(ModeReport(m))

Acknowledge ==
    IF "intrusion" \in alarms THEN Ended("intrusion") /\ Post(EndReport("intrusion"))
                              ELSE UNCHANGED <<alarms, hidden, outbox>>

\* Mutant of OpenWindow: the timer is left out.
OpenWindowForever(n) == window' = n /\ UNCHANGED timer
\* pairon(): regoff, regon, timer_set.
OpenWindow(n) == window' = n /\ timer' = TRUE

Run ==
    /\ batch # <<>> /\ batch' = Tail(batch)
    /\ LET c == Head(batch) IN
         \/ c.act = "start" /\ OpenWindow(c.num) /\ UNCHANGED <<mode, alarms, hidden, outbox>>
         \/ c.act = "stop" /\ window' = 0 /\ UNCHANGED <<mode, alarms, hidden, timer, outbox>>
         \/ c.act = "mode" /\ SetMode(c.mode) /\ UNCHANGED <<window, timer>>
         \/ c.act = "ack" /\ Acknowledge /\ UNCHANGED <<mode, window, timer>>
    /\ UNCHANGED <<queue, gateway, ha, pairedAt, lost, overtaken, counts>>

PairTimer ==
    /\ timer /\ timer' = FALSE /\ window' = 0
    /\ UNCHANGED <<queue, gateway, ha, batch, mode, alarms, pairedAt, outbox, past, counts>>

\* The CRE is started anew, between two polls.
Reload ==
    /\ batch = <<>> /\ faults < MaxFaults /\ faults' = faults + 1
    /\ timer' = (timer /\ TimersLast)
    /\ UNCHANGED <<queue, gateway, ha, batch, mode, alarms, window, pairedAt>>
    /\ UNCHANGED <<outbox, past, starts, presses, changes>>

\* What the base does by itself.
Pair(d) ==
    /\ window # 0 /\ pairedAt[d] = None
    /\ pairedAt' = [pairedAt EXCEPT ![d] = starts]
    /\ Post(NodeReport(d))
    /\ UNCHANGED <<queue, gateway, ha, batch, mode, alarms, window, timer, past, counts>>

\* The base makes other requests all the time; the first one counts.
Contact ==
    /\ ~seeded /\ outbox = <<>> /\ Post(OtherReport)
    /\ UNCHANGED <<queue, gateway, ha, batch, base, past, counts>>

Happens ==
    /\ changes < MaxChanges /\ changes' = changes + 1
    /\ UNCHANGED <<queue, gateway, ha, batch, window, timer, pairedAt, lost, overtaken>>
    /\ UNCHANGED <<starts, presses, faults>>
LocalMode(m) == Happens /\ SetMode(m)
AlarmStarts(a) ==
    /\ Happens /\ a \notin alarms /\ alarms' = alarms \cup {a} /\ hidden' = FALSE
    /\ Post(StartReport(a)) /\ UNCHANGED mode
AlarmEnds(a) ==
    /\ a \in alarms /\ Ended(a) /\ Post(EndReport(a))
    /\ UNCHANGED <<queue, gateway, ha, batch, mode, window, timer, pairedAt, lost, overtaken, counts>>
NodeEvent(d) ==
    /\ Happens /\ d \in Paired
    /\ Post(NodeReport(d)) /\ UNCHANGED <<mode, alarms, hidden>>

-----------------------------------------------------------------------------
(* record(), on the oldest report *)

Goto(s) == pc' = s
Now == Head(outbox)

\* Mutant of SeedMode: the configured mode, whatever has been confirmed since.
SeedModeConfigured == InitialMode
SeedMode == IF savedMode # None THEN savedMode ELSE InitialMode

\* announce_base(): the mode is published once per run of the gateway.
Announce ==
    /\ pc = "idle" /\ outbox # <<>> /\ Goto("telemetry")
    /\ seeded' = TRUE
    /\ shownMode' = IF seeded THEN shownMode ELSE SeedMode
    /\ lost' = (seeded /\ lost)
    /\ UNCHANGED <<queue, chosen, savedMode, known, isNew, shownAlarm>>
    /\ UNCHANGED <<batch, base, outbox, hidden, overtaken, counts>>

\* Mutant of ShowMode: the alarm is left on.
ShowModeOnly(m) == shownMode' = m /\ UNCHANGED shownAlarm
ShowMode(m) ==
    /\ shownMode' = m
    /\ shownAlarm' = (shownAlarm /\ m = "away")

\* publish_base_telemetry()
Telemetry ==
    /\ pc = "telemetry"
    /\ \/ Now.kind = "mode" /\ ShowMode(Now.mode) /\ lost' = FALSE /\ Goto("save")
       \/ Now.kind = "start" /\ shownAlarm' = TRUE /\ UNCHANGED <<shownMode, lost>> /\ Goto("answer")
       \/ Now.kind = "end" /\ shownAlarm' = FALSE /\ UNCHANGED <<shownMode, lost>> /\ Goto("answer")
       \/ Now.kind = "other" /\ UNCHANGED <<shownMode, shownAlarm, lost>> /\ Goto("answer")
       \/ Now.kind = "node" /\ UNCHANGED <<shownMode, shownAlarm, lost>> /\ Goto("store")
    /\ UNCHANGED <<queue, chosen, savedMode, seeded, known, isNew>>
    /\ UNCHANGED <<batch, base, outbox, hidden, overtaken, counts>>

SaveMode ==
    /\ pc = "save" /\ Goto("answer")
    /\ savedMode' = Now.mode
    /\ UNCHANGED <<queue, chosen, seeded, known, isNew, ha, batch, base, outbox, past, counts>>

\* Mutant of Fresh: any event counts as the first.
FreshAlways(d) == d \in Node
Fresh(d) == d \notin known

\* Under Gateway.lock: is the node new? The registry is saved.
Store ==
    /\ pc = "store" /\ Goto("publish")
    /\ isNew' = Fresh(Now.node)
    /\ known' = known \cup {Now.node}
    /\ UNCHANGED <<queue, chosen, savedMode, seeded, ha, batch, base, outbox, past, counts>>

PublishEvent ==
    /\ pc = "publish" /\ Goto(IF isNew THEN "close" ELSE "answer")
    /\ UNCHANGED <<queue, chosen, savedMode, seeded, known, isNew, ha, batch, base>>
    /\ UNCHANGED <<outbox, past, counts>>

\* Mutant of Stop: the name of the action is not one gwctl knows.
StopMisnamed(d) == Command("pair_off", None, 0, d)
Stop(d) == Command("stop", None, 0, d)

CloseWindow ==
    /\ pc = "close" /\ Goto("answer")
    /\ Enqueue(Stop(Now.node))
    /\ UNCHANGED <<chosen, savedMode, seeded, known, isNew, ha, batch, base, outbox, past, counts>>

Answer ==
    /\ pc = "answer" /\ Goto("idle")
    /\ outbox' = Tail(outbox) /\ isNew' = FALSE
    /\ UNCHANGED <<queue, chosen, savedMode, seeded, known, ha, batch, base, past, counts>>

\* The gateway dies and starts again.  A report that was not answered is posted
\* again; registry and confirmed mode are on disk, commands are not.
Crash ==
    /\ faults < MaxFaults /\ faults' = faults + 1
    /\ queue' = <<>> /\ chosen' = None /\ seeded' = FALSE
    /\ Goto("idle") /\ isNew' = FALSE
    /\ lost' = (lost \/ chosen # None \/ HoldsMode(queue))
    /\ UNCHANGED <<savedMode, known, ha, batch, base, outbox, hidden, overtaken>>
    /\ UNCHANGED <<starts, presses, changes>>

-----------------------------------------------------------------------------
UserNext ==
    \/ \E m \in Mode : ChooseMode(m)
    \/ PressStart \/ PressOther("stop") \/ PressOther("ack")
BaseNext ==
    \/ Poll \/ LosePoll \/ Run \/ PairTimer \/ Reload \/ Contact
    \/ \E m \in Mode : LocalMode(m)
    \/ \E a \in AlarmKind : AlarmStarts(a) \/ AlarmEnds(a)
    \/ \E d \in Node : Pair(d) \/ NodeEvent(d)
RecordNext ==
    \/ Announce \/ Telemetry \/ SaveMode
    \/ Store \/ PublishEvent \/ CloseWindow \/ Answer
Next == UserNext \/ QueueMode \/ BaseNext \/ RecordNext \/ Crash

Spec == Init /\ [][Next]_vars
FairSpec == Spec /\ WF_vars(PairTimer)

-----------------------------------------------------------------------------
(* Properties *)

Commands == [act : {"start", "stop", "mode", "ack"}, mode : Mode \cup {None},
             num : 0..MaxPresses, node : Node \cup {None}]
Reports == [kind : {"mode", "start", "end", "node", "other"}, mode : Mode \cup {None},
            alarm : AlarmKind \cup {None}, node : Node \cup {None}]

\* Every command and report is one its receiver understands, and record() only
\* runs while there is a report to handle.
TypeOK ==
    /\ queue \in Seq(Commands) /\ batch \in Seq(Commands) /\ outbox \in Seq(Reports)
    /\ {chosen, savedMode, shownMode} \subseteq Mode \cup {None}
    /\ mode \in Mode /\ alarms \subseteq AlarmKind
    /\ {seeded, isNew, shownAlarm, timer, lost, hidden} \subseteq BOOLEAN
    /\ known \subseteq Node /\ overtaken \subseteq Node
    /\ pc \in {"idle", "telemetry", "save", "store", "publish", "close", "answer"}
    /\ pc # "idle" => outbox # <<>>
    /\ window \in 0..starts /\ starts \in 0..presses /\ presses \in 0..MaxPresses
    /\ pairedAt \in [Node -> 0..starts \cup {None}]
    /\ changes \in 0..MaxChanges /\ faults \in 0..MaxFaults

\* Nothing is under way between Home Assistant and the base.
Quiet == queue = <<>> /\ chosen = None /\ batch = <<>> /\ outbox = <<>>

\* When nothing is under way Home Assistant shows the mode the base is in, unless
\* a chosen mode was lost on its way and nothing has been heard since: the shown
\* mode is a guess, and each guess is confirmed or corrected, crashes included
\* (gigaset_gateway.py:1208-1212, 1285-1298, 3011-3017).
ModeIsShown == Quiet /\ ~lost /\ shownMode # None => shownMode = mode

\* When nothing is under way Home Assistant shows an alarm only while there is one, and
\* always then, unless another alarm has ended since the last one started; although the
\* base does not report the end of an intrusion that a change of mode acknowledges
\* (gigaset_gateway.py:1494-1510).
AlarmIsShown == Quiet => (shownAlarm <=> alarms # {} /\ ~hidden)

\* The stop the gateway sends for a new node never closes a window the user asked for
\* after that node had paired, wherever record() is; only a window that was asked for
\* before the stop was queued is in danger (gigaset_gateway.py:3061, 3079-3088).
ClosesNoLater ==
    batch # <<>> /\ Head(batch).act = "stop" /\ Head(batch).node \notin overtaken \cup {None} =>
        window <= pairedAt[Head(batch).node]

\* An open pairing window is closed at last, with the gateway dead or its stop
\* lost on the way (gigaset_gateway.py:388-391, 519-536).
WindowCloses == window # 0 ~> window = 0
=============================================================================
