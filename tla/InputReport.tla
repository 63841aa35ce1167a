----------------------------- MODULE InputReport -----------------------------
(***************************************************************************)
(* The input of the clients on its way to the console (src/src/Input.cpp). *)
(*                                                                         *)
(* The server thread stores what a client sends: first the time, then the  *)
(* fields of that kind of input. The input thread looks at the clock, and  *)
(* when it is time again reads every kind and sends a report. An input     *)
(* whose time is too long ago counts as released. There is no lock, and    *)
(* the program is built without optimisation, so every access of one       *)
(* thread is a step of its own.                                            *)
(*                                                                         *)
(* A time is one number here; Sec and Nsec are the two words of a timespec.*)
(***************************************************************************)
EXTENDS Integers, Sequences, FiniteSets

CONSTANTS
  Second,     \* clock ticks in a second
  Delay,      \* Args::input_delay
  Interval,   \* HID_UPDATE_INTERVAL
  Kinds,      \* the kinds of input the clients send
  Axes,       \* axes of the two joysticks (4)
  Buttons,    \* what a client sends for buttons
  Sticks,     \* and for an axis: 1-100 is negative, 101-200 positive
  Points,     \* and for a touch: its x and y
  Sizes,      \* and the width and height of its screen
  SeqMod,     \* reports are numbered modulo this (65535)
  MaxTime,    \* bound: the clock stops here
  LastSet,    \* bound: clients are silent after this
  MaxSets     \* bound: inputs that clients send

\* The words of the program.
UInt8  == 0..255
UInt16 == 0..65535

ASSUME InputAssumption ==
  /\ Second \in Nat \ {0} /\ Delay \in 0..Second /\ Interval \in 1..(Second - 1)
  /\ Kinds \subseteq {"touch", "button", "extra", "joystick"} /\ Axes \in Nat \ {0}
  /\ Buttons \subseteq UInt16 /\ Sticks \subseteq 0..200
  /\ Points \subseteq Nat /\ Sizes \subseteq Nat \ {0}
  /\ SeqMod \in Nat \ {0} /\ SeqMod <= 65536 /\ MaxTime \in Nat /\ LastSet \in Nat /\ MaxSets \in Nat

VARIABLES
  now,                                        \* CLOCK_MONOTONIC_RAW
  tv_sec, tv_nsec, fields,                    \* the static input_... objects
  spc, skind, sload, sfield,                  \* the server thread in a set_input_...
  ipc, last_sent_time, seq_id,                \* the input thread
  report, rsec, plan, loaded, rtime,          \* its report, and the read it is at
  alive,                                      \* the process runs
  stamps,      \* history: when each input was stored
  overlapped,  \* history: kinds that were being stored during the report
  wire         \* history: the last report the console got

input   == <<tv_sec, tv_nsec, fields>>
setter  == <<spc, skind, sload, sfield>>
reading == <<rsec, plan, loaded, rtime>>
reader  == <<ipc, last_sent_time, seq_id, report, reading>>
history == <<stamps, overlapped, wire>>
vars    == <<now, input, setter, reader, alive, history>>

Sec(t)  == t \div Second
Nsec(t) == t % Second

-----------------------------------------------------------------------------
(* The report is a sequence of reads: the touchscreen, the buttons, each axis. *)

Read == [kind : Kinds \ {"joystick"}, axis : {0}] \cup [kind : Kinds \cap {"joystick"}, axis : 1..Axes]

One(k)  == IF k \in Kinds THEN <<[kind |-> k, axis |-> 0]>> ELSE <<>>
Stick   == IF "joystick" \in Kinds THEN [a \in 1..Axes |-> [kind |-> "joystick", axis |-> a]] ELSE <<>>
Program == One("touch") \o (One("button") \o (One("extra") \o Stick))

Width(k) == CASE k = "touch" -> 4 [] k = "joystick" -> Axes [] OTHER -> 1

\* A touch lies within the screen the client says it has.
Touches == {t \in Points \X Points \X Sizes \X Sizes : t[1] <= t[3] /\ t[2] <= t[4]}
Payload(k) ==
  CASE k = "touch" -> Touches [] k = "joystick" -> [1..Axes -> Sticks] [] k = "button" -> [1..1 -> Buttons]
    [] OTHER -> [1..1 -> Buttons \cap UInt8]

\* What a read loads once the time is accepted. The arguments of one
\* translate_bounds may be evaluated in any order; an axis is loaded twice.
Plans(r) ==
  CASE r.kind = "touch"    -> {<<1, 3, 2, 4>>, <<1, 3, 4, 2>>, <<3, 1, 2, 4>>, <<3, 1, 4, 2>>}
    [] r.kind = "joystick" -> {<<r.axis, r.axis>>}
    [] OTHER               -> {<<1>>}

\* What the console is told when the input is too old.
Released(r) == CASE r.kind = "touch" -> <<0, 0>> [] r.kind = "joystick" -> <<8>> [] OTHER -> <<0>>

Truncated(a, b) == IF a < 0 THEN -((-a) \div b) ELSE a \div b
TranslateBounds_NoMin(old, size, min, max) == Truncated(old * (max - min), size) % 65536
TranslateBounds(old, size, min, max) == (Truncated(old * (max - min), size) + min) % 65536

\* get_joystick_input: the sign comes from one load, the deflection from the next.
Deflection_NoOffset(first, second) == IF first <= 100 THEN -second ELSE second
Deflection(first, second) == IF first <= 100 THEN -second ELSE second - 100
StickValue(first, second) == (8 + (Deflection(first, second) * 8) \div 100) % 65536

\* get_touch_input from the loaded x, y, width and height. A coordinate of 0 is
\* no touch.
TouchValue(x, y, w, h) ==
  LET tx == TranslateBounds(x, w, 120, 4000)
      ty == TranslateBounds(y, h, 4000, 120)
  IN IF tx > 0 /\ ty > 0 THEN <<tx, ty>> ELSE <<0, 0>>

Loaded(f)  == loaded[CHOOSE j \in 1..Len(plan) : plan[j] = f].val
Value(r) ==
  CASE r.kind = "touch"    -> TouchValue(Loaded(1), Loaded(2), Loaded(3), Loaded(4))
    [] r.kind = "joystick" -> <<StickValue(loaded[1].val, loaded[2].val)>>
    [] OTHER               -> <<loaded[1].val>>

DividesByZero(r) == r.kind = "touch" /\ (Loaded(3) = 0 \/ Loaded(4) = 0)

-----------------------------------------------------------------------------
(* is_input_within_time and update. Both subtract seconds and nanoseconds one *)
(* by one, and borrow nothing.                                                *)

WithinTime_NoSeconds(sec, nsec, t) == Nsec(t) - nsec <= Delay
WithinTime_Late(sec, nsec, t)      == Sec(t) - sec <= 0 /\ Nsec(t) - nsec <= Delay + 1
WithinTime(sec, nsec, t)           == Sec(t) - sec <= 0 /\ Nsec(t) - nsec <= Delay

Due_NoSeconds(last, t) == Nsec(t) - Nsec(last) >= Interval
Due_Early(last, t)     == Sec(t) - Sec(last) > 0 \/ Nsec(t) - Nsec(last) >= Interval - 1
Due(last, t)           == Sec(t) - Sec(last) > 0 \/ Nsec(t) - Nsec(last) >= Interval

-----------------------------------------------------------------------------

Slots == UNION {{k} \X (1..Width(k)) : k \in Kinds}
Field == [val : Nat, set : 0..MaxSets]
Entry == [out : Seq(Nat), from : SUBSET (0..MaxSets), time : Nat]

SetterTypes ==
  /\ spc \in {"idle", "nsec", "fields"}
  /\ spc # "idle" => skind \in Kinds /\ sload \in Payload(skind) /\ sfield \in 1..Width(skind)

ReaderTypes ==
  /\ ipc \in {"poll", "start", "sec", "nsec", "load", "send"}
  /\ last_sent_time \in 0..now /\ seq_id \in 0..(SeqMod - 1)
  /\ report \in Seq(Entry)
  /\ Len(report) <= Len(Program) /\ (ipc \in {"sec", "nsec", "load"} => Len(report) < Len(Program))
  /\ rsec \in Nat /\ rtime \in 0..now
  /\ loaded \in Seq(Field)
  /\ ipc = "load" => plan \in Plans(Program[Len(report) + 1]) /\ Len(loaded) <= Len(plan)

TypeOK ==
  /\ now \in Nat /\ now >= Second /\ alive \in BOOLEAN
  /\ tv_sec \in [Kinds -> Nat] /\ tv_nsec \in [Kinds -> 0..(Second - 1)] /\ fields \in [Slots -> Field]
  /\ SetterTypes /\ ReaderTypes
  /\ stamps \in Seq(0..now) /\ Len(stamps) <= MaxSets
  /\ overlapped \subseteq Kinds

\* The objects are value-initialised: no time and zeroes. The machine has been
\* up for a second, so that time is too long ago.
Init ==
  /\ now = Second
  /\ tv_sec = [k \in Kinds |-> 0] /\ tv_nsec = [k \in Kinds |-> 0]
  /\ fields = [s \in Slots |-> [val |-> 0, set |-> 0]]
  /\ spc = "idle" /\ skind = "none" /\ sload = <<>> /\ sfield = 1
  /\ ipc = "poll" /\ last_sent_time = now /\ seq_id = 0
  /\ report = <<>> /\ rsec = 0 /\ plan = <<>> /\ loaded = <<>> /\ rtime = 0
  /\ alive = TRUE
  /\ stamps = <<>> /\ overlapped = {} /\ wire = [j \in 1..Len(Program) |-> Released(Program[j])]

Tick == /\ now < MaxTime /\ now' = now + 1
        /\ UNCHANGED <<input, setter, reader, alive, history>>

-----------------------------------------------------------------------------
(* The server thread. *)

BeginSet(k, p) ==
  /\ spc = "idle" /\ Len(stamps) < MaxSets /\ now <= LastSet
  /\ spc' = "nsec" /\ skind' = k /\ sload' = p /\ sfield' = 1
  /\ tv_sec' = [tv_sec EXCEPT ![k] = Sec(now)] /\ UNCHANGED <<tv_nsec, fields>>
  /\ stamps' = Append(stamps, now) /\ overlapped' = overlapped \cup {k}
  /\ UNCHANGED <<now, reader, alive, wire>>

StampNsec ==
  /\ spc = "nsec" /\ spc' = "fields"
  /\ tv_nsec' = [tv_nsec EXCEPT ![skind] = Nsec(stamps[Len(stamps)])]
  /\ UNCHANGED <<now, tv_sec, fields, skind, sload, sfield, reader, alive, history>>

StoreField ==
  /\ spc = "fields"
  /\ fields' = [fields EXCEPT ![<<skind, sfield>>] = [val |-> sload[sfield], set |-> Len(stamps)]]
  /\ IF sfield < Width(skind)
       THEN sfield' = sfield + 1 /\ UNCHANGED <<spc, skind, sload>>
       ELSE spc' = "idle" /\ skind' = "none" /\ sload' = <<>> /\ sfield' = 1
  /\ UNCHANGED <<now, tv_sec, tv_nsec, reader, alive, history>>

-----------------------------------------------------------------------------
(* The input thread. *)

Poll ==
  /\ ipc = "poll" /\ Due(last_sent_time, now)
  /\ ipc' = "start"
  /\ UNCHANGED <<now, input, setter, last_sent_time, seq_id, report, reading, alive, history>>

\* The clock is read a second time.
Start ==
  /\ ipc = "start" /\ ipc' = IF Len(Program) > 0 THEN "sec" ELSE "send"
  /\ last_sent_time' = now /\ report' = <<>>
  /\ overlapped' = IF spc = "idle" THEN {} ELSE {skind}
  /\ UNCHANGED <<now, input, setter, seq_id, reading, alive, stamps, wire>>

Current == Program[Len(report) + 1]

LoadSec ==
  /\ ipc = "sec" /\ ipc' = "nsec"
  /\ rsec' = tv_sec[Current.kind]
  /\ UNCHANGED <<now, input, setter, last_sent_time, seq_id, report, plan, loaded, rtime, alive, history>>

\* The read is over: the next one, or the report is complete.
Record(out, from) ==
  /\ report' = Append(report, [out |-> out, from |-> from, time |-> rtime'])
  /\ ipc' = IF Len(report) + 1 < Len(Program) THEN "sec" ELSE "send"
  /\ rsec' = 0 /\ plan' = <<>> /\ loaded' = <<>>

\* The other word of the time is loaded and the clock read.
InTime == WithinTime(rsec, tv_nsec[Current.kind], now)

FindExpired ==
  /\ ipc = "nsec" /\ ~InTime
  /\ rtime' = now /\ Record(Released(Current), {})
  /\ UNCHANGED <<now, input, setter, last_sent_time, seq_id, alive, history>>

FindInTime ==
  /\ ipc = "nsec" /\ InTime
  /\ ipc' = "load" /\ rsec' = 0 /\ rtime' = now /\ loaded' = <<>>
  /\ plan' \in Plans(Current)
  /\ UNCHANGED <<now, input, setter, last_sent_time, seq_id, report, alive, history>>

NextField == fields[<<Current.kind, plan[Len(loaded) + 1]>>]

LoadField ==
  /\ ipc = "load" /\ Len(loaded) < Len(plan)
  /\ loaded' = Append(loaded, NextField)
  /\ UNCHANGED <<now, input, setter, ipc, last_sent_time, seq_id, report, rsec, plan, rtime, alive, history>>

AllLoaded == ipc = "load" /\ Len(loaded) = Len(plan)

Evaluate ==
  /\ AllLoaded /\ ~DividesByZero(Current)
  /\ UNCHANGED rtime
  /\ Record(Value(Current), {loaded[j].set : j \in 1..Len(loaded)})
  /\ UNCHANGED <<now, input, setter, last_sent_time, seq_id, alive, history>>

\* translate_bounds divides by the width or the height of the screen.
Crash ==
  /\ AllLoaded /\ DividesByZero(Current)
  /\ alive' = FALSE
  /\ UNCHANGED <<now, input, setter, reader, history>>

NextSeq_NoWrap == seq_id + 1
NextSeq        == (seq_id + 1) % SeqMod

Send ==
  /\ ipc = "send" /\ ipc' = "poll"
  /\ wire' = [j \in 1..Len(Program) |-> report[j].out]
  /\ seq_id' = NextSeq
  /\ report' = <<>> /\ rtime' = 0 /\ overlapped' = {}
  /\ UNCHANGED <<now, input, setter, last_sent_time, rsec, plan, loaded, alive, stamps>>

SetterStep == (\E k \in Kinds : \E p \in Payload(k) : BeginSet(k, p)) \/ StampNsec \/ StoreField
ReportStep == Poll \/ Start \/ LoadSec \/ FindExpired \/ FindInTime \/ LoadField \/ Evaluate \/ Crash \/ Send

Next == alive /\ (Tick \/ SetterStep \/ ReportStep)

Spec == Init /\ [][Next]_vars

\* The clock runs, a store that was begun goes on, and the input thread is
\* scheduled. Nobody has to send input.
Fairness == WF_vars(alive /\ Tick) /\ WF_vars(alive /\ (StampNsec \/ StoreField)) /\ WF_vars(alive /\ ReportStep)

FairSpec == Spec /\ Fairness

-----------------------------------------------------------------------------
(* Properties. *)

\* An input is reported only until Delay after it was stored. A report that meets
\* the server thread storing an input of that kind may take the new time for the
\* old fields.
ReportsFresh ==
  \A j \in 1..Len(report) :
    Program[j].kind \notin overlapped =>
      \A id \in report[j].from : id > 0 /\ report[j].time - stamps[id] <= Delay

\* The axes in a report are those of one input, from the first axis on until it
\* expires during the report, unless the report met a new one being stored.
AxesOfOneInput ==
  \A i, j \in 1..Len(report) :
    /\ "joystick" \notin overlapped
    /\ i < j /\ Program[i].kind = "joystick" /\ report[j].from # {}
    => report[i].from = report[j].from

\* The sticks of the console go from 0 to 16, and a touch stays out of the 12
\* pixels at the edge of the screen; both again unless the report met a store.
InBounds ==
  \A j \in 1..Len(report) :
    Program[j].kind \notin overlapped =>
      CASE Program[j].kind = "joystick" -> report[j].out[1] \in 0..16
        [] Program[j].kind = "touch"    -> report[j].out = <<0, 0>> \/
                                           \A c \in 1..2 : report[j].out[c] \in 120..4000
        [] OTHER                        -> TRUE

\* With screens that have a size, only a report that met a store can divide by zero.
CrashNeedsOverlap == ~alive => "touch" \in overlapped

\* Reports are never nearer than Interval, but for the one at the turn of a second.
EarlyOnlyAtSecond ==
  [][ipc = "poll" /\ ipc' = "start" =>
       now - last_sent_time >= Interval \/ Sec(now) > Sec(last_sent_time)]_vars

\* Whenever Interval has passed, a report is due.
NeverLate == ipc = "poll" /\ now - last_sent_time >= Interval => Due(last_sent_time, now)

\* When the clients fall silent, in the end the console is told that nothing is
\* pressed.
NothingStuck == <>[](~alive \/ \A j \in 1..Len(Program) : wire[j] = Released(Program[j]))

\* The help text: input is sent for Delay after it came from a client
\* (Args::print_help).
SentForDelay ==
  \A j \in 1..Len(report), id \in 1..Len(stamps) :
    /\ Program[j].kind \notin overlapped
    /\ id = Len(stamps) /\ fields[<<Program[j].kind, 1>>].set = id
    /\ report[j].time - stamps[id] <= Delay
    => report[j].from = {id}
=============================================================================
