-------------------------- MODULE InputReportProofs --------------------------
(***************************************************************************)
(* Proofs about InputReport and HidPacket, for every length of a second,   *)
(* delay, interval and number of axes: types, that what is reported is not *)
(* too old, that a report takes its axes from one input, when reports are  *)
(* sent, and what the console reads in the bits of one.                    *)
(*                                                                         *)
(* The argument: what a completed store leaves is consistent (Stored), a   *)
(* store in progress is known to the report (Noticed), so whatever a       *)
(* report without overlap read is explained by what is stored now and the  *)
(* time of the read (Explained). Then the values: a completed store leaves *)
(* those of one input (StoredWhole), so a read without overlap has an      *)
(* input that a client may send (LoadedWhole), its touch lies within a     *)
(* screen that has a size, and what is computed from it is in range        *)
(* (ValueFits). Every output fits its word of the packet, and the bytes of *)
(* the packet give it back (Understood).                                   *)
(***************************************************************************)
EXTENDS HidPacket, DataLemmas

Being(k) == spc # "idle" /\ skind = k

\* The number of the input that is stored.
Stamp(k) == fields[<<k, 1>>].set

\* A kind that is not being stored has all its fields and its time from one
\* input, or nothing was ever stored.
Stored ==
  \A k \in Kinds : ~Being(k) =>
    /\ \A f \in 1..Width(k) : fields[<<k, f>>].set = Stamp(k)
    /\ Stamp(k) <= Len(stamps)
    /\ IF Stamp(k) = 0 THEN tv_sec[k] = 0 /\ tv_nsec[k] = 0
                       ELSE tv_sec[k] = Sec(stamps[Stamp(k)]) /\ tv_nsec[k] = Nsec(stamps[Stamp(k)])

\* What the store in progress has written so far.
Storing ==
  spc # "idle" =>
    /\ Len(stamps) > 0 /\ tv_sec[skind] = Sec(stamps[Len(stamps)])
    /\ spc = "nsec" => sfield = 1
    /\ spc = "fields" => /\ tv_nsec[skind] = Nsec(stamps[Len(stamps)])
                         /\ \A f \in 1..(sfield - 1) : fields[<<skind, f>>].set = Len(stamps)

\* A report knows of the store in progress.
Noticed == spc # "idle" /\ ipc \notin {"poll", "start"} => skind \in overlapped

\* The read in progress has loaded what is stored.
Reading ==
  /\ ipc \in {"sec", "nsec", "load"} /\ Current.kind \notin overlapped =>
       /\ ipc = "nsec" => rsec = tv_sec[Current.kind]
       /\ ipc = "load" => /\ WithinTime(tv_sec[Current.kind], tv_nsec[Current.kind], rtime)
                          /\ \A j \in 1..Len(loaded) : loaded[j].set = Stamp(Current.kind)

\* A read that is over found the input expired, or took all it loaded from it.
Explained ==
  /\ \A j \in 1..Len(report) :
       /\ report[j].time >= Second /\ report[j].time <= rtime
       /\ LET k == Program[j].kind
          IN k \notin overlapped =>
               /\ Stamp(k) > 0 => stamps[Stamp(k)] <= report[j].time
               /\ \/ report[j].from = {} /\ ~WithinTime(tv_sec[k], tv_nsec[k], report[j].time)
                  \/ report[j].from = {Stamp(k)} /\ WithinTime(tv_sec[k], tv_nsec[k], report[j].time)
  /\ \A i, j \in 1..Len(report) : i <= j => report[i].time <= report[j].time
  /\ ipc = "load" => /\ rtime >= Second
                     /\ Current.kind \notin overlapped /\ Stamp(Current.kind) > 0 =>
                          stamps[Stamp(Current.kind)] <= rtime
  /\ ipc \in {"poll", "start"} => report = <<>>

IInv == TypeOK /\ Stored /\ Storing /\ Noticed /\ Reading /\ Explained

-----------------------------------------------------------------------------
(* A time and its two words. *)

LEMMA Split ==
  ASSUME NEW t \in Nat
  PROVE  Sec(t) \in Nat /\ Nsec(t) \in 0..(Second - 1) /\ t = Second * Sec(t) + Nsec(t)
<1>1. Second \in Nat \ {0}
  BY InputAssumption
<1>2. /\ t \div Second \in Nat /\ t % Second \in 0..(Second - 1)
      /\ t = Second * (t \div Second) + (t % Second)
  BY <1>1, SMT
<1> QED BY <1>2 DEF Sec, Nsec

LEMMA Monotone ==
  ASSUME NEW a \in Nat, NEW b \in Nat, a < b
  PROVE  Second * a \in Nat /\ Second * b \in Nat /\ Second * a + Second <= Second * b
<1>1. Second \in Nat /\ a + 1 <= b
  BY InputAssumption
<1>2. Second * (a + 1) <= Second * b
  BY <1>1, SMT
<1> QED BY <1>1, <1>2, SMT

\* Which of two times is earlier shows in their seconds, or in the rest of them.
LEMMA Order ==
  ASSUME NEW s \in Nat, NEW t \in Nat
  PROVE  /\ Sec(s) = Sec(t) => t - s = Nsec(t) - Nsec(s)
         /\ s <= t => Sec(s) <= Sec(t)
         /\ Sec(s) < Sec(t) => s < t
<1> DEFINE a == Sec(s)  b == Sec(t)  u == Nsec(s)  v == Nsec(t)
<1>1. /\ a \in Nat /\ b \in Nat /\ u \in 0..(Second - 1) /\ v \in 0..(Second - 1)
      /\ s = Second * a + u /\ t = Second * b + v /\ Second \in Nat
  BY Split, InputAssumption
<1> HIDE DEF a, b, u, v
<1>2. Second * a \in Nat /\ Second * b \in Nat
  BY <1>1
<1>3. a = b => t - s = v - u
  BY <1>1, <1>2
<1>4. b < a => t < s
  <2> SUFFICES ASSUME b < a PROVE t < s
    OBVIOUS
  <2>1. Second * b + Second <= Second * a
    BY <1>1, Monotone
  <2> QED BY <1>1, <1>2, <2>1
<1>5. a < b => s < t
  <2> SUFFICES ASSUME a < b PROVE s < t
    OBVIOUS
  <2>1. Second * a + Second <= Second * b
    BY <1>1, Monotone
  <2> QED BY <1>1, <1>2, <2>1
<1>6. s <= t => a <= b
  BY <1>1, <1>4
<1> QED BY <1>3, <1>5, <1>6 DEF a, b, u, v

\* What passes the comparison by words is not too old.
LEMMA WithinIsFresh ==
  ASSUME NEW s \in Nat, NEW t \in Nat, WithinTime(Sec(s), Nsec(s), t)
  PROVE  t - s <= Delay
<1>1. /\ Sec(s) \in Nat /\ Sec(t) \in Nat /\ Nsec(s) \in Nat /\ Nsec(t) \in Nat /\ Delay \in Nat
      /\ Sec(t) - Sec(s) <= 0 /\ Nsec(t) - Nsec(s) <= Delay
  BY Split, InputAssumption DEF WithinTime
<1>2. CASE Sec(s) = Sec(t)
  BY <1>1, <1>2, Order
<1>3. CASE Sec(t) < Sec(s)
  BY <1>1, <1>3, Order
<1> QED BY <1>1, <1>2, <1>3

\* What failed it once fails it ever after.
LEMMA ExpiredStays ==
  ASSUME NEW s \in Nat, NEW t \in Nat, NEW u \in Nat, s <= t, t <= u,
         ~WithinTime(Sec(s), Nsec(s), t)
  PROVE  ~WithinTime(Sec(s), Nsec(s), u)
<1>1. /\ Sec(s) \in Nat /\ Sec(t) \in Nat /\ Sec(u) \in Nat
      /\ Nsec(s) \in Nat /\ Nsec(t) \in Nat /\ Nsec(u) \in Nat /\ Delay \in Nat
      /\ Sec(s) <= Sec(t) /\ Sec(t) <= Sec(u)
      /\ Sec(t) > Sec(s) \/ Nsec(t) - Nsec(s) > Delay
  <2>1. /\ Sec(s) \in Nat /\ Sec(t) \in Nat /\ Sec(u) \in Nat
        /\ Nsec(s) \in Nat /\ Nsec(t) \in Nat /\ Nsec(u) \in Nat /\ Delay \in Nat
    <3>1. ASSUME NEW x \in Nat PROVE Sec(x) \in Nat /\ Nsec(x) \in Nat
      <4>1. Sec(x) \in Nat /\ Nsec(x) \in 0..(Second - 1)
        BY Split
      <4> QED BY <4>1
    <3>2. Delay \in Nat
      BY InputAssumption
    <3> QED BY <3>1, <3>2
  <2>2. Sec(s) <= Sec(t) /\ Sec(t) <= Sec(u)
    BY Order
  <2> QED BY <2>1, <2>2 DEF WithinTime
<1>2. CASE Sec(u) > Sec(s)
  BY <1>1, <1>2 DEF WithinTime
<1>3. CASE Sec(u) = Sec(s)
  <2>1. Sec(t) = Sec(u) /\ u - t = Nsec(u) - Nsec(t)
    BY <1>1, <1>3, Order
  <2> QED BY <1>1, <1>3, <2>1 DEF WithinTime
<1> QED BY <1>1, <1>2, <1>3

\* A time of zero is too long ago once the machine has been up for a second.
LEMMA NeverStored == ASSUME NEW t \in Nat, t >= Second PROVE ~WithinTime(0, 0, t)
<1>1. Sec(t) # 0
  <2> DEFINE a == Sec(t)  v == Nsec(t)
  <2>1. a \in Nat /\ v \in 0..(Second - 1) /\ t = Second * a + v /\ Second \in Nat
    BY Split, InputAssumption
  <2> HIDE DEF a, v
  <2>2. a # 0
    BY <2>1
  <2> QED BY <2>2 DEF a
<1> QED BY <1>1, Split DEF WithinTime

LEMMA DueInTime ==
  ASSUME NEW last \in Nat, NEW t \in Nat, last <= t
  PROVE  /\ t - last >= Interval => Due(last, t)
         /\ Due(last, t) => t - last >= Interval \/ Sec(t) > Sec(last)
<1>1. /\ Sec(last) \in Nat /\ Sec(t) \in Nat /\ Nsec(last) \in Nat /\ Nsec(t) \in Nat
      /\ Interval \in Nat /\ Sec(last) <= Sec(t)
      /\ Sec(last) = Sec(t) => t - last = Nsec(t) - Nsec(last)
  BY Split, Order, InputAssumption
<1> QED BY <1>1 DEF Due

-----------------------------------------------------------------------------
(* Types. *)

LEMMA WidthPositive == ASSUME NEW k \in Kinds PROVE Width(k) \in Nat \ {0}
  BY InputAssumption DEF Width

LEMMA SlotOf ==
  /\ \A k \in Kinds : \A f \in 1..Width(k) : <<k, f>> \in Slots
  /\ \A k \in Kinds : <<k, 1>> \in Slots
<1>1. \A k \in Kinds : \A f \in 1..Width(k) : <<k, f>> \in Slots
  BY DEF Slots
<1>2. \A k \in Kinds : 1 \in 1..Width(k)
  BY WidthPositive
<1> QED BY <1>1, <1>2

LEMMA ProgramReads ==
  Program \in Seq(Read) /\ \A j \in 1..Len(Program) : Program[j] \in Read /\ Program[j].kind \in Kinds
<1>1. One("touch") \in Seq(Read) /\ One("button") \in Seq(Read) /\ One("extra") \in Seq(Read)
  <2>1. ASSUME NEW k, k # "joystick" PROVE One(k) \in Seq(Read)
    <3>1. CASE k \in Kinds
      <4>1. [kind |-> k, axis |-> 0] \in Read
        BY <2>1, <3>1 DEF Read
      <4> QED BY <3>1, <4>1 DEF One
    <3>2. CASE k \notin Kinds
      BY <3>2 DEF One
    <3> QED BY <3>1, <3>2
  <2> QED BY <2>1
<1>2. Stick \in Seq(Read)
  <2>1. CASE "joystick" \in Kinds
    <3>1. \A a \in 1..Axes : [kind |-> "joystick", axis |-> a] \in Read
      BY <2>1, InputAssumption DEF Read
    <3>2. Axes \in Nat
      BY InputAssumption
    <3> QED BY <2>1, <3>1, <3>2 DEF Stick
  <2>2. CASE "joystick" \notin Kinds
    BY <2>2 DEF Stick
  <2> QED BY <2>1, <2>2
<1>3. Program \in Seq(Read)
  BY <1>1, <1>2 DEF Program
<1>4. \A j \in 1..Len(Program) : Program[j] \in Read
  BY <1>3
<1> QED BY <1>3, <1>4 DEF Read

LEMMA CurrentRead ==
  ASSUME ReaderTypes, ipc \in {"sec", "nsec", "load"}
  PROVE  Current \in Read /\ Current.kind \in Kinds /\ Len(report) + 1 \in 1..Len(Program)
<1>1. Len(report) \in Nat /\ Len(Program) \in Nat /\ Len(report) < Len(Program)
  BY ProgramReads DEF ReaderTypes
<1>2. Len(report) + 1 \in 1..Len(Program)
  BY <1>1
<1> QED BY <1>2, ProgramReads DEF Current

\* What the words of the input of a kind can be.
Holds(k) == CASE k = "button" -> UInt16 [] k = "extra" -> UInt8 [] OTHER -> Nat

LEMMA HoldsNat == \A k : Holds(k) \subseteq Nat
<1>1. UInt16 \subseteq Nat /\ UInt8 \subseteq Nat
  BY DEF UInt16, UInt8
<1> QED BY <1>1 DEF Holds

LEMMA ByteIsWord == UInt8 \subseteq UInt16
<1> DEFINE b == 255  w == 65535
<1>1. UInt8 = 0..b /\ UInt16 = 0..w
  BY DEF UInt8, UInt16
<1>2. b \in Nat /\ w \in Nat /\ b <= w
  OBVIOUS
<1> HIDE DEF b, w
<1>3. 0..b \subseteq 0..w
  BY ONLY <1>2
<1> QED BY ONLY <1>1, <1>3

LEMMA PayloadHolds ==
  ASSUME NEW k \in Kinds, NEW p \in Payload(k), NEW f \in 1..Width(k)
  PROVE  p[f] \in Holds(k) /\ p[f] \in Nat
<1>1. CASE k = "touch"
  <2>1. p \in Points \X Points \X Sizes \X Sizes /\ f \in 1..4
    BY <1>1 DEF Payload, Touches, Width
  <2>2. p[1] \in Points /\ p[2] \in Points /\ p[3] \in Sizes /\ p[4] \in Sizes
    BY <2>1
  <2>3. p[1] \in Nat /\ p[2] \in Nat /\ p[3] \in Nat /\ p[4] \in Nat
    <3>1. Points \subseteq Nat /\ Sizes \subseteq Nat
      BY InputAssumption
    <3> QED BY <2>2, <3>1
  <2>4. f \in {1, 2, 3, 4}
    BY <2>1
  <2> QED BY <1>1, <2>3, <2>4 DEF Holds
<1>2. CASE k = "joystick"
  <2>1. p \in [1..Axes -> Sticks] /\ f \in 1..Axes
    BY <1>2 DEF Payload, Width
  <2>2. p[f] \in Sticks
    BY <2>1
  <2>3. Sticks \subseteq Nat
    <3>1. Sticks \subseteq 0..200 /\ 0..200 \subseteq Nat
      BY InputAssumption
    <3> QED BY <3>1
  <2> QED BY <1>2, <2>2, <2>3 DEF Holds
<1>3. CASE k # "touch" /\ k # "joystick"
  <2>1. Buttons \subseteq UInt16
    BY InputAssumption
  <2>2. f = 1
    BY <1>3 DEF Width
  <2>3. p[1] \in Buttons /\ (k = "button" \/ (k = "extra" /\ p[1] \in UInt8))
    <3>1. CASE k = "button"
      BY <3>1 DEF Payload
    <3>2. CASE k # "button"
      <4>1. p \in [1..1 -> Buttons \cap UInt8]
        BY <1>3, <3>2 DEF Payload
      <4>2. k = "extra"
        BY <1>3, <3>2, InputAssumption
      <4> QED BY <4>1, <4>2
    <3> QED BY <3>1, <3>2
  <2>4. p[1] \in Holds(k)
    BY <2>1, <2>3 DEF Holds
  <2> QED BY <2>2, <2>4, HoldsNat
<1> QED BY <1>1, <1>2, <1>3

\* Which fields a plan loads.
LEMMA PlanFields ==
  ASSUME NEW r \in Read, NEW p \in Plans(r)
  PROVE  /\ p \in Seq(Nat) /\ Len(p) >= 1
         /\ \A j \in 1..Len(p) : p[j] \in 1..Width(r.kind)
         /\ r.kind = "touch" => \A f \in 1..4 : \E j \in 1..Len(p) : p[j] = f
         /\ r.kind = "joystick" => Len(p) = 2
<1>1. CASE r.kind = "touch"
  <2> DEFINE Good(q) == /\ q \in Seq(Nat) /\ Len(q) = 4
                        /\ q[1] \in 1..4 /\ q[2] \in 1..4 /\ q[3] \in 1..4 /\ q[4] \in 1..4
                        /\ 1 \in {q[1], q[2], q[3], q[4]} /\ 2 \in {q[1], q[2], q[3], q[4]}
                        /\ 3 \in {q[1], q[2], q[3], q[4]} /\ 4 \in {q[1], q[2], q[3], q[4]}
  <2>1. p \in {<<1, 3, 2, 4>>, <<1, 3, 4, 2>>, <<3, 1, 2, 4>>, <<3, 1, 4, 2>>} /\ Width(r.kind) = 4
    BY <1>1 DEF Plans, Width
  <2>2. Good(<<1, 3, 2, 4>>) /\ Good(<<1, 3, 4, 2>>) /\ Good(<<3, 1, 2, 4>>) /\ Good(<<3, 1, 4, 2>>)
    <3>1. Good(<<1, 3, 2, 4>>) OBVIOUS
    <3>2. Good(<<1, 3, 4, 2>>) OBVIOUS
    <3>3. Good(<<3, 1, 2, 4>>) OBVIOUS
    <3>4. Good(<<3, 1, 4, 2>>) OBVIOUS
    <3> QED BY <3>1, <3>2, <3>3, <3>4
  <2> HIDE DEF Good
  <2>9. Good(p)
    BY <2>1, <2>2
  <2>3. /\ p \in Seq(Nat) /\ Len(p) = 4
        /\ p[1] \in 1..4 /\ p[2] \in 1..4 /\ p[3] \in 1..4 /\ p[4] \in 1..4
        /\ 1 \in {p[1], p[2], p[3], p[4]} /\ 2 \in {p[1], p[2], p[3], p[4]}
        /\ 3 \in {p[1], p[2], p[3], p[4]} /\ 4 \in {p[1], p[2], p[3], p[4]}
    BY <2>9 DEF Good
  <2>4. \A j \in 1..Len(p) : j \in {1, 2, 3, 4}
    BY <2>3
  <2>5. \A f \in 1..4 : f \in {1, 2, 3, 4}
    OBVIOUS
  <2>6. 1 \in 1..Len(p) /\ 2 \in 1..Len(p) /\ 3 \in 1..Len(p) /\ 4 \in 1..Len(p)
    BY <2>3
  <2>7. \A j \in 1..Len(p) : p[j] \in 1..Width(r.kind)
    BY <2>1, <2>3, <2>4
  <2>8. \A f \in 1..4 : \E j \in 1..Len(p) : p[j] = f
    BY <2>3, <2>5, <2>6
  <2> QED BY <1>1, <2>3, <2>7, <2>8
<1>2. CASE r.kind = "joystick"
  <2>1. p = <<r.axis, r.axis>> /\ Width(r.kind) = Axes /\ r.axis \in 1..Axes /\ Axes \in Nat
    BY <1>2, InputAssumption DEF Plans, Width, Read
  <2> DEFINE a == r.axis
  <2>2. p = <<a, a>> /\ a \in Nat /\ a \in 1..Axes /\ Width(r.kind) = Axes
    BY <2>1
  <2> HIDE DEF a
  <2>3. p \in Seq(Nat) /\ Len(p) = 2 /\ p[1] = a /\ p[2] = a
    BY <2>2
  <2>4. \A j \in 1..2 : j = 1 \/ j = 2
    OBVIOUS
  <2>5. \A j \in 1..Len(p) : p[j] \in 1..Width(r.kind)
    BY <2>2, <2>3, <2>4
  <2> QED BY <1>2, <2>3, <2>5
<1>3. CASE r.kind # "touch" /\ r.kind # "joystick"
  <2>1. p = <<1>> /\ Width(r.kind) = 1
    BY <1>3 DEF Plans, Width
  <2>2. p \in Seq(Nat) /\ Len(p) = 1 /\ p[1] = 1
    BY <2>1
  <2>3. \A j \in 1..1 : j = 1
    OBVIOUS
  <2> QED BY <1>3, <2>1, <2>2, <2>3
<1> QED BY <1>1, <1>2, <1>3

LEMMA TranslatedNat ==
  ASSUME NEW old \in Nat, NEW size \in Nat \ {0}, NEW min \in Nat, NEW max \in Nat
  PROVE  TranslateBounds(old, size, min, max) \in Nat
<1> DEFINE a == old * (max - min)  c == Truncated(a, size)
<1>1. a \in Int
  BY SMT
<1> HIDE DEF a
<1>2. c \in Int
  <2>1. ASSUME NEW n \in Int PROVE n \div size \in Int
    BY SMT
  <2>2. -a \in Int
    BY <1>1
  <2>3. (-a) \div size \in Int /\ a \div size \in Int
    BY <1>1, <2>1, <2>2
  <2> QED BY <2>3 DEF Truncated
<1> HIDE DEF c
<1>3. (c + min) % 65536 \in Nat
  BY <1>2, SMT
<1> QED BY <1>3 DEF TranslateBounds, c, a

LEMMA ValueNat ==
  ASSUME TypeOK, AllLoaded, ~DividesByZero(Current)
  PROVE  Value(Current) \in Seq(Nat)
<1>1. /\ Current \in Read /\ plan \in Plans(Current) /\ loaded \in Seq(Field)
      /\ Len(loaded) = Len(plan)
  <2>1. ReaderTypes /\ ipc = "load"
    BY DEF TypeOK, AllLoaded
  <2> QED BY <2>1, CurrentRead DEF ReaderTypes, AllLoaded, Current
<1>2. \A j \in 1..Len(plan) : loaded[j].val \in Nat
  <2>1. \A j \in 1..Len(loaded) : loaded[j] \in Field
    BY <1>1
  <2> QED BY <1>1, <2>1 DEF Field
<1>3. Len(plan) >= 1 /\ Len(plan) \in Nat
  BY <1>1, PlanFields
<1>4. CASE Current.kind = "touch"
  <2>1. \A f \in 1..4 : Loaded(f) \in Nat
    <3> SUFFICES ASSUME NEW f \in 1..4 PROVE Loaded(f) \in Nat
      OBVIOUS
    <3>1. \E j \in 1..Len(plan) : plan[j] = f
      BY <1>1, <1>4, PlanFields
    <3> DEFINE j == CHOOSE j \in 1..Len(plan) : plan[j] = f
    <3>2. j \in 1..Len(plan)
      BY <3>1
    <3> HIDE DEF j
    <3> QED BY <1>2, <3>2 DEF Loaded, j
  <2>2. /\ Loaded(1) \in Nat /\ Loaded(2) \in Nat
        /\ Loaded(3) \in Nat \ {0} /\ Loaded(4) \in Nat \ {0}
    BY <1>4, <2>1 DEF DividesByZero
  <2>3. /\ TranslateBounds(Loaded(1), Loaded(3), 120, 4000) \in Nat
        /\ TranslateBounds(Loaded(2), Loaded(4), 4000, 120) \in Nat
    <3> DEFINE x == Loaded(1)  y == Loaded(2)  w == Loaded(3)  h == Loaded(4)
    <3>1. x \in Nat /\ y \in Nat /\ w \in Nat \ {0} /\ h \in Nat \ {0} /\ 120 \in Nat /\ 4000 \in Nat
      BY <2>2
    <3> HIDE DEF x, y, w, h
    <3>2. TranslateBounds(x, w, 120, 4000) \in Nat
      BY <3>1, TranslatedNat
    <3>3. TranslateBounds(y, h, 4000, 120) \in Nat
      BY <3>1, TranslatedNat
    <3> QED BY <3>2, <3>3 DEF x, y, w, h
  <2>4. <<0, 0>> \in Seq(Nat)
    OBVIOUS
  <2> QED BY <1>4, <2>3, <2>4 DEF Value, TouchValue
<1>5. CASE Current.kind = "joystick"
  <2>1. loaded[1].val \in Nat /\ loaded[2].val \in Nat
    <3>1. Len(plan) = 2
      BY <1>1, <1>5, PlanFields
    <3> QED BY <1>2, <3>1
  <2> DEFINE a == loaded[1].val  b == loaded[2].val  d == Deflection(a, b)
  <2>2. d \in Int
    BY <2>1 DEF Deflection
  <2> HIDE DEF d
  <2>3. (8 + (d * 8) \div 100) % 65536 \in Nat
    BY <2>2, SMT
  <2>4. StickValue(a, b) \in Nat
    BY <2>3 DEF StickValue, d
  <2> HIDE DEF a, b
  <2>5. <<StickValue(a, b)>> \in Seq(Nat)
    BY <2>4
  <2> QED BY <1>5, <2>5 DEF Value, a, b
<1>6. CASE Current.kind # "touch" /\ Current.kind # "joystick"
  <2> DEFINE a == loaded[1].val
  <2>1. a \in Nat
    BY <1>2, <1>3
  <2> HIDE DEF a
  <2>2. <<a>> \in Seq(Nat)
    BY <2>1
  <2> QED BY <1>6, <2>2 DEF Value, a
<1> QED BY <1>4, <1>5, <1>6

LEMMA ReleasedNat == ASSUME NEW r PROVE Released(r) \in Seq(Nat)
<1>1. <<0, 0>> \in Seq(Nat) /\ <<8>> \in Seq(Nat) /\ <<0>> \in Seq(Nat)
  OBVIOUS
<1> QED BY <1>1 DEF Released

LEMMA SetterKeepsTypes ==
  ASSUME IInv, SetterStep PROVE TypeOK'
<1> USE DEF IInv
<1>1. ASSUME NEW k \in Kinds, NEW p \in Payload(k), BeginSet(k, p) PROVE TypeOK'
  <2>1. UNCHANGED <<now, reader, alive, tv_nsec, fields>>
    BY <1>1 DEF BeginSet
  <2>2. tv_sec' \in [Kinds -> Nat] /\ overlapped' \subseteq Kinds
    BY <1>1, Split DEF BeginSet, TypeOK
  <2>3. stamps' \in Seq(0..now) /\ Len(stamps') <= MaxSets
    <3>1. stamps' = Append(stamps, now) /\ Len(stamps) < MaxSets /\ now \in 0..now
      BY <1>1 DEF BeginSet, TypeOK
    <3> QED BY <3>1, InputAssumption DEF TypeOK
  <2>4. SetterTypes'
    <3>1. 1 \in 1..Width(k)
      BY WidthPositive
    <3> QED BY <1>1, <3>1 DEF BeginSet, SetterTypes
  <2>5. ReaderTypes'
    BY <2>1 DEF TypeOK, ReaderTypes, reader, reading
  <2> QED BY <2>1, <2>2, <2>3, <2>4, <2>5 DEF TypeOK
<1>2. CASE StampNsec
  <2>1. /\ UNCHANGED <<now, reader, alive, tv_sec, fields, stamps, overlapped, skind, sload, sfield>>
        /\ spc = "nsec" /\ spc' = "fields"
    BY <1>2 DEF StampNsec, history
  <2>2. tv_nsec' \in [Kinds -> 0..(Second - 1)]
    <3> DEFINE n == Nsec(stamps[Len(stamps)])
    <3>1. tv_nsec' = [tv_nsec EXCEPT ![skind] = n] /\ tv_nsec \in [Kinds -> 0..(Second - 1)]
      BY <1>2 DEF StampNsec, TypeOK
    <3>2. n \in 0..(Second - 1)
      <4>1. stamps \in Seq(0..now) /\ Len(stamps) > 0 /\ now \in Nat
        BY <2>1 DEF TypeOK, Storing
      <4>2. stamps[Len(stamps)] \in Nat
        BY <4>1
      <4> QED BY <4>2, Split
    <3> QED BY <3>1, <3>2
  <2>3. SetterTypes'
    BY <2>1 DEF SetterTypes, TypeOK
  <2>4. ReaderTypes'
    BY <2>1 DEF TypeOK, ReaderTypes, reader, reading
  <2> QED BY <2>1, <2>2, <2>3, <2>4 DEF TypeOK
<1>3. CASE StoreField
  <2>1. UNCHANGED <<now, reader, alive, tv_sec, tv_nsec, stamps, overlapped>>
    BY <1>3 DEF StoreField, history
  <2>2. /\ skind \in Kinds /\ sload \in Payload(skind) /\ sfield \in 1..Width(skind)
        /\ Width(skind) \in Nat
    BY <1>3, WidthPositive DEF StoreField, TypeOK, SetterTypes
  <2>3. fields' \in [Slots -> Field]
    <3> DEFINE e == [val |-> sload[sfield], set |-> Len(stamps)]
    <3>1. Len(stamps) \in 0..MaxSets
      BY InputAssumption DEF TypeOK
    <3>2. sload[sfield] \in Nat
      BY <2>2, PayloadHolds
    <3>3. e \in Field
      BY <3>1, <3>2 DEF Field
    <3>4. fields' = [fields EXCEPT ![<<skind, sfield>>] = e] /\ fields \in [Slots -> Field]
      BY <1>3 DEF StoreField, TypeOK
    <3> HIDE DEF e
    <3> QED BY <3>3, <3>4
  <2>4. SetterTypes'
    <3>1. CASE sfield < Width(skind)
      <4>1. spc' = "fields" /\ UNCHANGED <<skind, sload>> /\ sfield' = sfield + 1
        BY <1>3, <3>1 DEF StoreField
      <4>2. sfield + 1 \in 1..Width(skind)
        BY <2>2, <3>1
      <4> QED BY <2>2, <4>1, <4>2 DEF SetterTypes
    <3>2. CASE ~(sfield < Width(skind))
      BY <1>3, <3>2 DEF StoreField, SetterTypes
    <3> QED BY <3>1, <3>2
  <2>5. ReaderTypes'
    BY <2>1 DEF TypeOK, ReaderTypes, reader, reading
  <2> QED BY <2>1, <2>3, <2>4, <2>5 DEF TypeOK
<1> QED BY <1>1, <1>2, <1>3 DEF SetterStep

\* What every step of the input thread leaves alone.
LEMMA ReportFrame ==
  ASSUME ReportStep PROVE UNCHANGED <<now, tv_sec, tv_nsec, fields, setter, stamps>>
<1> QED BY DEF ReportStep, Poll, Start, LoadSec, FindExpired, FindInTime, LoadField, Evaluate, Crash, Send,
               input, history

LEMMA RecordTypes ==
  ASSUME TypeOK, ipc \in {"nsec", "load"}, NEW out \in Seq(Nat), NEW from \in SUBSET (0..MaxSets),
         rtime' \in 0..now, Record(out, from)
  PROVE  /\ report' \in Seq(Entry) /\ Len(report') = Len(report) + 1
         /\ Len(report') <= Len(Program)
         /\ ipc' \in {"sec", "send"} /\ (ipc' = "sec" => Len(report') < Len(Program))
         /\ loaded' \in Seq(Field) /\ rsec' \in Nat
<1>1. /\ report \in Seq(Entry) /\ Len(report) < Len(Program) /\ Len(Program) \in Nat
      /\ Len(report) \in Nat /\ now \in Nat
  BY ProgramReads DEF TypeOK, ReaderTypes
<1>2. [out |-> out, from |-> from, time |-> rtime'] \in Entry
  BY <1>1 DEF Entry
<1>3. report' \in Seq(Entry) /\ Len(report') = Len(report) + 1
  BY <1>1, <1>2 DEF Record
<1>4. loaded' \in Seq(Field) /\ rsec' \in Nat
  BY DEF Record
<1>5. ipc' \in {"sec", "send"} /\ (ipc' = "sec" => Len(report) + 1 < Len(Program))
  BY DEF Record
<1> QED BY <1>1, <1>3, <1>4, <1>5

LEMMA ReaderKeepsTypes ==
  ASSUME IInv, ReportStep PROVE TypeOK'
<1> USE DEF IInv
<1>1. UNCHANGED <<now, tv_sec, tv_nsec, fields, spc, skind, sload, sfield, stamps>>
  BY ReportFrame DEF setter
<1>2. SetterTypes'
  BY <1>1 DEF TypeOK, SetterTypes
<1>3. alive' \in BOOLEAN /\ overlapped' \subseteq Kinds
  BY DEF TypeOK, ReportStep, Poll, Start, LoadSec, FindExpired, FindInTime, LoadField, Evaluate, Crash, Send,
         history, SetterTypes
<1>4. ReaderTypes'
  <2>0. /\ ReaderTypes /\ now \in Nat /\ now' = now /\ Len(Program) \in Nat /\ Len(report) \in Nat
    BY <1>1, ProgramReads DEF TypeOK, ReaderTypes
  <2>1. CASE Poll
    BY <2>0, <2>1 DEF Poll, ReaderTypes, reading
  <2>2. CASE Start
    <3>1. /\ report' = <<>> /\ last_sent_time' = now /\ UNCHANGED <<seq_id, rsec, plan, loaded, rtime>>
          /\ ipc' = IF Len(Program) > 0 THEN "sec" ELSE "send"
      BY <2>2 DEF Start, reading
    <3>2. report' \in Seq(Entry) /\ Len(report') = 0
      BY <3>1
    <3> QED BY <2>0, <3>1, <3>2 DEF ReaderTypes
  <2>3. CASE LoadSec
    <3>1. tv_sec[Current.kind] \in Nat
      BY <2>0, <2>3, CurrentRead DEF LoadSec, TypeOK
    <3> QED BY <2>0, <2>3, <3>1 DEF LoadSec, ReaderTypes
  <2>4. CASE FindExpired
    <3>1. /\ ipc = "nsec" /\ rtime' = now /\ Record(Released(Current), {})
          /\ UNCHANGED <<last_sent_time, seq_id>>
      BY <2>4 DEF FindExpired
    <3>2. rtime' \in 0..now
      BY <2>0, <3>1
    <3>3. Released(Current) \in Seq(Nat) /\ {} \in SUBSET (0..MaxSets)
      BY ReleasedNat
    <3>4. /\ report' \in Seq(Entry) /\ Len(report') = Len(report) + 1
          /\ Len(report') <= Len(Program)
          /\ ipc' \in {"sec", "send"} /\ (ipc' = "sec" => Len(report') < Len(Program))
          /\ loaded' \in Seq(Field) /\ rsec' \in Nat
      BY <3>1, <3>2, <3>3, RecordTypes
    <3> QED BY <2>0, <3>1, <3>2, <3>4 DEF ReaderTypes
  <2>5. CASE FindInTime
    <3>1. /\ ipc = "nsec" /\ ipc' = "load" /\ rsec' = 0 /\ rtime' = now /\ loaded' = <<>>
          /\ plan' \in Plans(Current) /\ UNCHANGED <<last_sent_time, seq_id, report>>
      BY <2>5 DEF FindInTime
    <3>2. plan' \in Seq(Nat) /\ Len(plan') >= 1
      BY <2>0, <3>1, CurrentRead, PlanFields
    <3>3. loaded' \in Seq(Field) /\ Len(loaded') = 0
      BY <3>1
    <3>4. plan' \in Plans(Program[Len(report') + 1])
      BY <3>1 DEF Current
    <3>5. Len(loaded') <= Len(plan')
      BY <3>2, <3>3
    <3> QED BY <2>0, <3>1, <3>3, <3>4, <3>5 DEF ReaderTypes
  <2>6. CASE LoadField
    <3>1. /\ ipc = "load" /\ Len(loaded) < Len(plan) /\ loaded' = Append(loaded, NextField)
          /\ UNCHANGED <<ipc, last_sent_time, seq_id, report, rsec, plan, rtime>>
      BY <2>6 DEF LoadField
    <3>2. plan \in Plans(Current) /\ loaded \in Seq(Field) /\ Current \in Read /\ Current.kind \in Kinds
      BY <2>0, <3>1, CurrentRead DEF ReaderTypes, Current
    <3>3. /\ plan \in Seq(Nat) /\ Len(plan) >= 1
          /\ \A j \in 1..Len(plan) : plan[j] \in 1..Width(Current.kind)
      BY <3>2, PlanFields
    <3>4. plan[Len(loaded) + 1] \in 1..Width(Current.kind)
      <4>1. Len(loaded) + 1 \in 1..Len(plan)
        BY <3>1, <3>2, <3>3
      <4> QED BY <3>3, <4>1
    <3>5. NextField \in Field
      BY <3>2, <3>4, SlotOf DEF TypeOK, NextField
    <3>6. loaded' \in Seq(Field) /\ Len(loaded') = Len(loaded) + 1
      BY <3>1, <3>2, <3>5
    <3>7. Len(loaded') <= Len(plan)
      BY <3>1, <3>2, <3>3, <3>6
    <3> QED BY <2>0, <3>1, <3>6, <3>7 DEF ReaderTypes
  <2>7. CASE Evaluate
    <3>1. /\ ipc = "load" /\ AllLoaded /\ ~DividesByZero(Current) /\ rtime' = rtime
          /\ Record(Value(Current), {loaded[j].set : j \in 1..Len(loaded)})
          /\ UNCHANGED <<last_sent_time, seq_id>>
      BY <2>7 DEF Evaluate, AllLoaded
    <3>2. Value(Current) \in Seq(Nat)
      BY <3>1, ValueNat
    <3>3. {loaded[j].set : j \in 1..Len(loaded)} \in SUBSET (0..MaxSets)
      <4>1. \A j \in 1..Len(loaded) : loaded[j] \in Field
        BY <2>0 DEF ReaderTypes
      <4> QED BY <4>1 DEF Field
    <3>4. rtime' \in 0..now
      BY <2>0, <3>1 DEF ReaderTypes
    <3>5. /\ report' \in Seq(Entry) /\ Len(report') = Len(report) + 1
          /\ Len(report') <= Len(Program)
          /\ ipc' \in {"sec", "send"} /\ (ipc' = "sec" => Len(report') < Len(Program))
          /\ loaded' \in Seq(Field) /\ rsec' \in Nat
      BY <3>1, <3>2, <3>3, <3>4, RecordTypes
    <3> QED BY <2>0, <3>1, <3>4, <3>5 DEF ReaderTypes
  <2>8. CASE Crash
    BY <2>0, <2>8 DEF Crash, ReaderTypes, reader, reading
  <2>9. CASE Send
    <3>1. /\ ipc' = "poll" /\ report' = <<>> /\ rtime' = 0 /\ seq_id' = NextSeq
          /\ UNCHANGED <<last_sent_time, rsec, plan, loaded>>
      BY <2>9 DEF Send
    <3>2. report' \in Seq(Entry) /\ Len(report') = 0
      BY <3>1
    <3>3. seq_id' \in 0..(SeqMod - 1)
      <4>1. SeqMod \in Nat \ {0} /\ seq_id + 1 \in Nat
        BY <2>0, InputAssumption DEF ReaderTypes
      <4>2. (seq_id + 1) % SeqMod \in 0..(SeqMod - 1)
        BY <4>1, SMT
      <4> QED BY <3>1, <4>2 DEF NextSeq
    <3> QED BY <2>0, <3>1, <3>2, <3>3 DEF ReaderTypes
  <2> QED BY <2>1, <2>2, <2>3, <2>4, <2>5, <2>6, <2>7, <2>8, <2>9 DEF ReportStep
<1> QED BY <1>1, <1>2, <1>3, <1>4 DEF TypeOK

LEMMA TickKeepsTypes == ASSUME IInv, Tick PROVE TypeOK'
<1>1. now \in Nat /\ now' = now + 1 /\ now >= Second /\ stamps \in Seq(0..now)
  BY DEF IInv, TypeOK, Tick
<1>2. UNCHANGED <<tv_sec, tv_nsec, fields, spc, skind, sload, sfield, reader, alive, stamps, overlapped>>
  BY DEF Tick, input, setter, history
<1>3. SetterTypes' /\ ReaderTypes'
  BY <1>1, <1>2 DEF IInv, TypeOK, SetterTypes, ReaderTypes, reader, reading
<1>4. stamps' \in Seq(0..now')
  <2>1. 0..now \subseteq 0..now'
    BY <1>1
  <2>2. \A i \in 1..Len(stamps) : stamps[i] \in 0..now'
    BY <1>1, <2>1
  <2> QED BY <1>1, <1>2, <2>2
<1>5. now' \in Nat /\ now' >= Second
  BY <1>1, InputAssumption
<1> QED BY <1>2, <1>3, <1>4, <1>5 DEF IInv, TypeOK

-----------------------------------------------------------------------------
(* The server thread's steps. *)

LEMMA StampType ==
  ASSUME TypeOK, NEW k \in Kinds
  PROVE  Stamp(k) \in Nat /\ \A f \in 1..Width(k) : fields[<<k, f>>] \in Field /\ fields[<<k, f>>].set \in Nat
<1>1. \A f \in 1..Width(k) : fields[<<k, f>>] \in Field
  BY SlotOf DEF TypeOK
<1>2. fields[<<k, 1>>] \in Field
  BY SlotOf DEF TypeOK
<1>3. \A e \in Field : e.set \in Nat
  <2>1. \A e \in Field : e.set \in 0..MaxSets
    BY DEF Field
  <2> QED BY <2>1, InputAssumption
<1> QED BY <1>1, <1>2, <1>3 DEF Stamp

\* A step that changes only inputs the report knows to be in change.
LEMMA Undisturbed ==
  ASSUME IInv, UNCHANGED reader, overlapped \subseteq overlapped',
         ipc \notin {"poll", "start"} =>
           \A k \in Kinds : k \notin overlapped' =>
             /\ tv_sec'[k] = tv_sec[k] /\ tv_nsec'[k] = tv_nsec[k] /\ Stamp(k)' = Stamp(k)
             /\ Stamp(k) > 0 => stamps'[Stamp(k)] = stamps[Stamp(k)]
  PROVE  Reading' /\ Explained'
<1>1. UNCHANGED <<ipc, report, rsec, plan, loaded, rtime>>
  BY DEF reader, reading
<1>2. Reading'
  <2> SUFFICES ASSUME ipc \in {"sec", "nsec", "load"}, Current.kind \notin overlapped'
               PROVE  /\ ipc = "nsec" => rsec = tv_sec'[Current.kind]
                      /\ ipc = "load" =>
                           /\ WithinTime(tv_sec'[Current.kind], tv_nsec'[Current.kind], rtime)
                           /\ \A j \in 1..Len(loaded) : loaded[j].set = Stamp(Current.kind)'
    BY <1>1 DEF Reading, Current, Stamp, WithinTime, Sec, Nsec
  <2>1. Current.kind \in Kinds /\ Current.kind \notin overlapped
    BY CurrentRead DEF IInv, TypeOK
  <2> DEFINE k == Current.kind
  <2>2. tv_sec'[k] = tv_sec[k] /\ tv_nsec'[k] = tv_nsec[k] /\ Stamp(k)' = Stamp(k)
    BY <1>1, <2>1 DEF Current
  <2>3. Stamp(Current.kind)' = Stamp(Current.kind)
    BY <1>1, <2>2 DEF Current, Stamp
  <2> QED BY <2>1, <2>2, <2>3 DEF IInv, Reading
<1>3. Explained'
  <2>1. ASSUME NEW j \in 1..Len(report), Program[j].kind \notin overlapped'
        PROVE  LET k == Program[j].kind
               IN /\ Stamp(k)' > 0 => stamps'[Stamp(k)'] <= report[j].time
                  /\ \/ report[j].from = {} /\ ~WithinTime(tv_sec'[k], tv_nsec'[k], report[j].time)
                     \/ report[j].from = {Stamp(k)'} /\ WithinTime(tv_sec'[k], tv_nsec'[k], report[j].time)
    <3> DEFINE k == Program[j].kind
    <3>1. j \in 1..Len(Program)
      BY ProgramReads DEF IInv, TypeOK, ReaderTypes
    <3>2. k \in Kinds /\ k \notin overlapped /\ k \notin overlapped'
      BY <2>1, <3>1, ProgramReads
    <3>3. ipc \notin {"poll", "start"}
      <4>1. report # <<>>
        OBVIOUS
      <4> QED BY <4>1 DEF IInv, Explained
    <3> HIDE DEF k
    <3>4. /\ tv_sec'[k] = tv_sec[k] /\ tv_nsec'[k] = tv_nsec[k] /\ Stamp(k)' = Stamp(k)
          /\ Stamp(k) > 0 => stamps'[Stamp(k)] = stamps[Stamp(k)]
      BY <3>2, <3>3
    <3>5. /\ Stamp(k) > 0 => stamps[Stamp(k)] <= report[j].time
          /\ \/ report[j].from = {} /\ ~WithinTime(tv_sec[k], tv_nsec[k], report[j].time)
             \/ report[j].from = {Stamp(k)} /\ WithinTime(tv_sec[k], tv_nsec[k], report[j].time)
      BY <3>2 DEF IInv, Explained, k
    <3> QED BY <3>4, <3>5 DEF k
  <2>2. ASSUME ipc = "load", Current.kind \notin overlapped', Stamp(Current.kind)' > 0
        PROVE  stamps'[Stamp(Current.kind)'] <= rtime
    <3> DEFINE k == Current.kind
    <3>1. k \in Kinds /\ k \notin overlapped /\ k \notin overlapped'
      BY <2>2, CurrentRead DEF IInv, TypeOK
    <3>2. Stamp(Current.kind)' = Stamp(k)
      BY <1>1, <2>2, <3>1 DEF Current, Stamp
    <3>3. stamps'[Stamp(k)] = stamps[Stamp(k)]
      BY <2>2, <3>1, <3>2
    <3> QED BY <2>2, <3>1, <3>2, <3>3 DEF IInv, Explained
  <2> QED BY <1>1, <2>1, <2>2 DEF IInv, Explained, Current, Stamp, WithinTime, Sec, Nsec
<1> QED BY <1>2, <1>3

LEMMA BeginKeeps ==
  ASSUME IInv, NEW k \in Kinds, NEW p \in Payload(k), BeginSet(k, p)
  PROVE  Stored' /\ Storing' /\ Noticed' /\ Reading' /\ Explained'
<1>1. /\ spc = "idle" /\ spc' = "nsec" /\ skind' = k
      /\ tv_sec' = [tv_sec EXCEPT ![k] = Sec(now)] /\ stamps' = Append(stamps, now)
      /\ overlapped' = overlapped \cup {k} /\ UNCHANGED <<tv_nsec, fields, reader>>
  BY DEF BeginSet
<1>2. tv_sec \in [Kinds -> Nat] /\ stamps \in Seq(0..now) /\ now \in 0..now
  BY DEF IInv, TypeOK
<1>3. /\ Len(stamps) \in Nat /\ Len(stamps') = Len(stamps) + 1 /\ stamps'[Len(stamps')] = now
      /\ \A i \in 1..Len(stamps) : stamps'[i] = stamps[i]
  BY <1>1, <1>2
<1>4. \A m \in Kinds : m # k => tv_sec'[m] = tv_sec[m]
  BY <1>1, <1>2
<1>5. \A m \in Kinds : /\ Stamp(m)' = Stamp(m) /\ Stamp(m) \in Nat /\ Stamp(m) <= Len(stamps)
                       /\ Stamp(m) > 0 => stamps'[Stamp(m)] = stamps[Stamp(m)]
  <2> SUFFICES ASSUME NEW m \in Kinds
               PROVE  /\ Stamp(m)' = Stamp(m) /\ Stamp(m) \in Nat /\ Stamp(m) <= Len(stamps)
                      /\ Stamp(m) > 0 => stamps'[Stamp(m)] = stamps[Stamp(m)]
    OBVIOUS
  <2>1. Stamp(m)' = Stamp(m)
    BY <1>1 DEF Stamp
  <2>2. Stamp(m) \in Nat
    BY StampType DEF IInv
  <2>3. Stamp(m) <= Len(stamps)
    BY <1>1 DEF IInv, Stored, Being
  <2> QED BY <1>3, <2>1, <2>2, <2>3
<1>6. Stored'
  <2> SUFFICES ASSUME NEW m \in Kinds, m # k
               PROVE  /\ \A f \in 1..Width(m) : fields'[<<m, f>>].set = Stamp(m)'
                      /\ Stamp(m)' <= Len(stamps')
                      /\ IF Stamp(m)' = 0 THEN tv_sec'[m] = 0 /\ tv_nsec'[m] = 0
                         ELSE /\ tv_sec'[m] = Sec(stamps'[Stamp(m)'])
                              /\ tv_nsec'[m] = Nsec(stamps'[Stamp(m)'])
    BY <1>1 DEF Stored, Being, Sec, Nsec
  <2>1. /\ \A f \in 1..Width(m) : fields[<<m, f>>].set = Stamp(m)
        /\ IF Stamp(m) = 0 THEN tv_sec[m] = 0 /\ tv_nsec[m] = 0
           ELSE tv_sec[m] = Sec(stamps[Stamp(m)]) /\ tv_nsec[m] = Nsec(stamps[Stamp(m)])
    BY <1>1 DEF IInv, Stored, Being
  <2>2. /\ Stamp(m)' = Stamp(m) /\ Stamp(m) \in Nat /\ Stamp(m) <= Len(stamps)
        /\ Stamp(m) > 0 => stamps'[Stamp(m)] = stamps[Stamp(m)]
    BY <1>5
  <2>3. fields' = fields /\ tv_nsec' = tv_nsec /\ tv_sec'[m] = tv_sec[m]
    BY <1>1, <1>4
  <2> QED BY <1>3, <2>1, <2>2, <2>3
<1>7. Storing'
  <2>1. tv_sec'[k] = Sec(now)
    BY <1>1, <1>2
  <2>2. tv_sec'[k] = Sec(stamps'[Len(stamps')]) /\ Len(stamps') > 0
    BY <1>3, <2>1
  <2>3. sfield' = 1
    BY DEF BeginSet
  <2> QED BY <1>1, <2>2, <2>3 DEF Storing, Sec
<1>8. Noticed'
  BY <1>1 DEF Noticed
<1>9. Reading' /\ Explained'
  <2>1. \A m \in Kinds : m \notin overlapped' =>
          /\ tv_sec'[m] = tv_sec[m] /\ tv_nsec'[m] = tv_nsec[m] /\ Stamp(m)' = Stamp(m)
          /\ Stamp(m) > 0 => stamps'[Stamp(m)] = stamps[Stamp(m)]
    BY <1>1, <1>4, <1>5
  <2> QED BY <1>1, <2>1, Undisturbed
<1> QED BY <1>6, <1>7, <1>8, <1>9

LEMMA StampNsecKeeps ==
  ASSUME IInv, StampNsec
  PROVE  Stored' /\ Storing' /\ Noticed' /\ Reading' /\ Explained'
<1>1. /\ spc = "nsec" /\ spc' = "fields"
      /\ tv_nsec' = [tv_nsec EXCEPT ![skind] = Nsec(stamps[Len(stamps)])]
      /\ UNCHANGED <<tv_sec, fields, skind, sfield, reader, stamps, overlapped>>
  BY DEF StampNsec, history
<1>2. tv_nsec \in [Kinds -> 0..(Second - 1)] /\ skind \in Kinds /\ sfield \in 1..Width(skind)
  BY <1>1 DEF IInv, TypeOK, SetterTypes
<1>3. \A m \in Kinds : m # skind => tv_nsec'[m] = tv_nsec[m]
  BY <1>1, <1>2
<1>4. \A m \in Kinds : Stamp(m)' = Stamp(m)
  BY <1>1 DEF Stamp
<1>5. Stored'
  BY <1>1, <1>3, <1>4 DEF IInv, Stored, Being, Sec, Nsec
<1>6. Storing'
  <2>1. tv_nsec'[skind] = Nsec(stamps[Len(stamps)])
    BY <1>1, <1>2
  <2>2. Len(stamps) > 0 /\ tv_sec[skind] = Sec(stamps[Len(stamps)])
    BY <1>1 DEF IInv, Storing
  <2>3. sfield = 1
    BY <1>1 DEF IInv, Storing
  <2>4. 1..(sfield - 1) = {}
    BY <2>3
  <2> QED BY <1>1, <2>1, <2>2, <2>4 DEF Storing, Sec, Nsec
<1>7. Noticed'
  BY <1>1 DEF IInv, Noticed, reader
<1>8. Reading' /\ Explained'
  <2>1. ipc \notin {"poll", "start"} => skind \in overlapped'
    BY <1>1 DEF IInv, Noticed
  <2> QED BY <1>1, <1>3, <1>4, <2>1, Undisturbed
<1> QED BY <1>5, <1>6, <1>7, <1>8

LEMMA StoreFieldKeeps ==
  ASSUME IInv, StoreField
  PROVE  Stored' /\ Storing' /\ Noticed' /\ Reading' /\ Explained'
<1> DEFINE n == Len(stamps)
<1>1. /\ spc = "fields"
      /\ fields' = [fields EXCEPT ![<<skind, sfield>>] = [val |-> sload[sfield], set |-> n]]
      /\ UNCHANGED <<tv_sec, tv_nsec, reader, stamps, overlapped>>
  BY DEF StoreField, history
<1>2. /\ fields \in [Slots -> Field] /\ skind \in Kinds /\ sfield \in 1..Width(skind)
      /\ <<skind, sfield>> \in Slots /\ Width(skind) \in Nat \ {0} /\ n \in Nat
  BY <1>1, SlotOf, WidthPositive DEF IInv, TypeOK, SetterTypes
<1>3. /\ n > 0 /\ tv_sec[skind] = Sec(stamps[n]) /\ tv_nsec[skind] = Nsec(stamps[n])
      /\ \A f \in 1..(sfield - 1) : fields[<<skind, f>>].set = n
  BY <1>1 DEF IInv, Storing
<1>4. fields'[<<skind, sfield>>].set = n
  BY <1>1, <1>2
<1>5. \A s \in Slots : s # <<skind, sfield>> => fields'[s] = fields[s]
  BY <1>1, <1>2
<1>6. \A f \in 1..sfield : fields'[<<skind, f>>].set = n
  <2> SUFFICES ASSUME NEW f \in 1..sfield, f # sfield PROVE fields'[<<skind, f>>].set = n
    BY <1>4
  <2>1. f \in 1..(sfield - 1) /\ f \in 1..Width(skind)
    BY <1>2
  <2>2. fields'[<<skind, f>>] = fields[<<skind, f>>]
    BY <1>2, <1>5, <2>1, SlotOf
  <2> QED BY <1>3, <2>1, <2>2
<1>7. \A m \in Kinds : m # skind =>
        Stamp(m)' = Stamp(m) /\ \A f \in 1..Width(m) : fields'[<<m, f>>] = fields[<<m, f>>]
  BY <1>5, SlotOf DEF Stamp
<1>8. \A m \in Kinds : m # skind =>
        /\ \A f \in 1..Width(m) : fields'[<<m, f>>].set = Stamp(m)'
        /\ Stamp(m)' <= Len(stamps')
        /\ IF Stamp(m)' = 0 THEN tv_sec'[m] = 0 /\ tv_nsec'[m] = 0
           ELSE tv_sec'[m] = Sec(stamps'[Stamp(m)']) /\ tv_nsec'[m] = Nsec(stamps'[Stamp(m)'])
  BY <1>1, <1>7 DEF IInv, Stored, Being
<1>9. Stored' /\ Storing'
  <2>1. CASE sfield < Width(skind)
    <3>1. spc' = "fields" /\ skind' = skind /\ sfield' = sfield + 1
      BY <1>1, <2>1 DEF StoreField
    <3>2. Stored'
      BY <1>8, <3>1 DEF Stored, Being, Sec, Nsec
    <3>3. sfield' - 1 = sfield
      BY <1>2, <3>1
    <3> HIDE DEF n
    <3>4. \A f \in 1..(sfield' - 1) : fields'[<<skind, f>>].set = n
      BY <1>6, <3>3
    <3>5. n' = n /\ n = Len(stamps)
      BY <1>1 DEF n
    <3>6. Storing'
      BY <1>1, <1>3, <3>1, <3>4, <3>5 DEF Storing, Sec, Nsec
    <3> QED BY <3>2, <3>6
  <2>2. CASE ~(sfield < Width(skind))
    <3>1. spc' = "idle" /\ sfield = Width(skind)
      BY <1>1, <1>2, <2>2 DEF StoreField
    <3>2. \A f \in 1..Width(skind) : fields'[<<skind, f>>].set = n
      BY <1>6, <3>1
    <3>3. PICK k \in Kinds : k = skind
      BY <1>2
    <3>4. Stamp(k)' = n
      <4>1. fields'[<<k, 1>>].set = n
        BY <1>2, <3>2, <3>3
      <4> QED BY <4>1 DEF Stamp
    <3>5. /\ \A f \in 1..Width(k) : fields'[<<k, f>>].set = Stamp(k)'
          /\ Stamp(k)' <= Len(stamps') /\ Stamp(k)' # 0
          /\ tv_sec'[k] = Sec(stamps'[Stamp(k)']) /\ tv_nsec'[k] = Nsec(stamps'[Stamp(k)'])
      BY <1>1, <1>2, <1>3, <3>2, <3>3, <3>4
    <3>6. Stored'
      BY <1>8, <3>3, <3>5 DEF Stored, Sec, Nsec
    <3> QED BY <3>1, <3>6 DEF Storing
  <2> QED BY <2>1, <2>2
<1>10. Noticed'
  <2>1. spc' # "idle" => skind' = skind
    BY DEF StoreField
  <2> QED BY <1>1, <2>1 DEF IInv, Noticed, reader
<1>11. Reading' /\ Explained'
  <2>1. ipc \notin {"poll", "start"} => skind \in overlapped'
    BY <1>1 DEF IInv, Noticed
  <2> QED BY <1>1, <1>7, <2>1, Undisturbed
<1> QED BY <1>9, <1>10, <1>11

LEMMA SetterKeeps == ASSUME IInv, SetterStep PROVE IInv'
<1>1. TypeOK'
  BY SetterKeepsTypes
<1> QED BY <1>1, BeginKeeps, StampNsecKeeps, StoreFieldKeeps DEF SetterStep, IInv

-----------------------------------------------------------------------------
(* The input thread's steps. *)

\* They leave the inputs alone, and what they overlap only Start changes.
LEMMA ReaderKeepsStores ==
  ASSUME IInv, ReportStep PROVE Stored' /\ Storing' /\ Noticed'
<1>1. UNCHANGED <<tv_sec, tv_nsec, fields, spc, skind, sfield, stamps>>
  BY ReportFrame DEF setter
<1>2. Stored'
  BY <1>1 DEF IInv, Stored, Being, Stamp, Sec, Nsec
<1>3. Storing'
  BY <1>1 DEF IInv, Storing, Sec, Nsec
<1>4. Noticed'
  <2>1. CASE Start
    BY <1>1, <2>1 DEF Start, Noticed
  <2>2. CASE ~Start
    <3>1. ipc' \notin {"poll", "start"} => ipc \notin {"poll", "start"} /\ overlapped' = overlapped
      <4>1. CASE Poll \/ Send
        BY <4>1 DEF Poll, Send
      <4>2. CASE LoadSec \/ LoadField \/ FindInTime
        BY <4>2 DEF LoadSec, LoadField, FindInTime, history
      <4>3. CASE FindExpired \/ Evaluate
        BY <4>3 DEF FindExpired, Evaluate, AllLoaded, history
      <4>4. CASE Crash
        BY <4>4 DEF Crash, AllLoaded, history
      <4> QED BY <2>2, <4>1, <4>2, <4>3, <4>4 DEF ReportStep
    <3> QED BY <1>1, <3>1 DEF IInv, Noticed
  <2> QED BY <2>1, <2>2
<1> QED BY <1>2, <1>3, <1>4

\* What is stored of a kind that the report does not overlap.
LEMMA Quiet ==
  ASSUME IInv, ipc \notin {"poll", "start"}, NEW k \in Kinds, k \notin overlapped
  PROVE  /\ \A f \in 1..Width(k) : fields[<<k, f>>].set = Stamp(k)
         /\ Stamp(k) \in 0..Len(stamps)
         /\ IF Stamp(k) = 0 THEN tv_sec[k] = 0 /\ tv_nsec[k] = 0
            ELSE /\ stamps[Stamp(k)] \in 0..now
                 /\ tv_sec[k] = Sec(stamps[Stamp(k)]) /\ tv_nsec[k] = Nsec(stamps[Stamp(k)])
<1>1. ~Being(k)
  BY DEF IInv, Noticed, Being
<1>2. stamps \in Seq(0..now) /\ Stamp(k) \in Nat /\ Stamp(k) <= Len(stamps)
  BY <1>1, StampType DEF IInv, TypeOK, Stored
<1>3. Stamp(k) # 0 => stamps[Stamp(k)] \in 0..now
  <2> DEFINE i == Stamp(k)
  <2>1. i \in Nat /\ i <= Len(stamps) /\ stamps \in Seq(0..now)
    BY <1>2
  <2> HIDE DEF i
  <2>2. i # 0 => i \in 1..Len(stamps)
    BY <2>1
  <2>3. \A j \in 1..Len(stamps) : stamps[j] \in 0..now
    <3> DEFINE S == 0..now
    <3>1. stamps \in Seq(S)
      BY <2>1
    <3> HIDE DEF S
    <3>2. \A j \in 1..Len(stamps) : stamps[j] \in S
      BY <3>1
    <3> QED BY <3>2 DEF S
  <2> QED BY <2>2, <2>3 DEF i
<1> QED BY <1>1, <1>2, <1>3 DEF IInv, Stored

\* A read that is over is explained, and so are the ones before it.
LEMMA Recorded ==
  ASSUME IInv, ReportStep, ipc \in {"nsec", "load"}, NEW out, NEW from, Record(out, from),
         overlapped' = overlapped,
         rtime' \in 0..now, rtime' >= Second, rtime <= rtime',
         LET k == Current.kind
         IN k \notin overlapped =>
              /\ Stamp(k) > 0 => stamps[Stamp(k)] <= rtime'
              /\ \/ from = {} /\ ~WithinTime(tv_sec[k], tv_nsec[k], rtime')
                 \/ from = {Stamp(k)} /\ WithinTime(tv_sec[k], tv_nsec[k], rtime')
  PROVE  Reading' /\ Explained'
<1> DEFINE e == [out |-> out, from |-> from, time |-> rtime']
<1>1. /\ report \in Seq(Entry) /\ Len(report) \in Nat /\ rtime \in Nat /\ rtime' \in Nat
      /\ Len(report) + 1 \in 1..Len(Program) /\ Second \in Nat
  BY CurrentRead, InputAssumption DEF IInv, TypeOK, ReaderTypes
<1>2. UNCHANGED <<tv_sec, tv_nsec, fields, stamps>> /\ report' = Append(report, e) /\ ipc' \in {"sec", "send"}
  BY ReportFrame DEF Record
<1>3. e.out = out /\ e.from = from /\ e.time = rtime'
  OBVIOUS
<1> HIDE DEF e
<1>4. /\ Len(report') = Len(report) + 1 /\ report'[Len(report) + 1] = e
      /\ \A j \in 1..Len(report) : report'[j] = report[j]
  BY <1>1, <1>2
<1>5. \A j \in 1..Len(report) : report[j].time \in Nat /\ report[j].time <= rtime /\ report[j].time >= Second
  <2>1. \A j \in 1..Len(report) : report[j] \in Entry
    BY <1>1
  <2> QED BY <2>1 DEF Entry, IInv, Explained
<1>6. Reading'
  BY <1>2 DEF Reading
<1> DEFINE Good(k, r) == k \notin overlapped =>
              /\ Stamp(k) > 0 => stamps[Stamp(k)] <= r.time
              /\ \/ r.from = {} /\ ~WithinTime(tv_sec[k], tv_nsec[k], r.time)
                 \/ r.from = {Stamp(k)} /\ WithinTime(tv_sec[k], tv_nsec[k], r.time)
<1>7. \A j \in 1..Len(report) : Good(Program[j].kind, report[j])
  BY DEF IInv, Explained
<1>8. Good(Current.kind, e)
  BY <1>3
<1>9. \A j \in 1..Len(report') : Good(Program[j].kind, report'[j])
  <2> HIDE DEF Good
  <2> SUFFICES ASSUME NEW j \in 1..Len(report') PROVE Good(Program[j].kind, report'[j])
    OBVIOUS
  <2>1. CASE j \in 1..Len(report)
    BY <1>4, <1>7, <2>1
  <2>2. CASE j = Len(report) + 1
    BY <1>4, <1>8, <2>2 DEF Current
  <2> QED BY <1>1, <1>4, <2>1, <2>2
<1>10. \A j \in 1..Len(report') : report'[j].time >= Second /\ report'[j].time <= rtime'
  BY <1>1, <1>3, <1>4, <1>5
<1>11. \A i, j \in 1..Len(report') : i <= j => report'[i].time <= report'[j].time
  <2> SUFFICES ASSUME NEW i \in 1..Len(report'), NEW j \in 1..Len(report'), i <= j
               PROVE  report'[i].time <= report'[j].time
    OBVIOUS
  <2>1. CASE j \in 1..Len(report)
    <3>1. i \in 1..Len(report)
      BY <1>1, <2>1
    <3> QED BY <1>4, <2>1, <3>1 DEF IInv, Explained
  <2>2. CASE j = Len(report) + 1
    BY <1>1, <1>3, <1>4, <1>10, <2>2
  <2> QED BY <1>1, <1>4, <2>1, <2>2
<1>12. \A j \in 1..Len(report') :
        LET k == Program[j].kind
        IN k \notin overlapped' =>
             /\ Stamp(k)' > 0 => stamps'[Stamp(k)'] <= report'[j].time
             /\ \/ report'[j].from = {} /\ ~WithinTime(tv_sec'[k], tv_nsec'[k], report'[j].time)
                \/ report'[j].from = {Stamp(k)'} /\ WithinTime(tv_sec'[k], tv_nsec'[k], report'[j].time)
  BY <1>2, <1>9 DEF Stamp
<1> QED BY <1>2, <1>6, <1>10, <1>11, <1>12 DEF Explained, Stamp, WithinTime, Sec, Nsec

LEMMA FindExpiredKeeps == ASSUME IInv, FindExpired PROVE Reading' /\ Explained'
<1>1. /\ ipc = "nsec" /\ rtime' = now /\ Record(Released(Current), {}) /\ overlapped' = overlapped
      /\ ~WithinTime(rsec, tv_nsec[Current.kind], now)
  BY DEF FindExpired, InTime, history
<1>2. now \in Nat /\ now >= Second /\ rtime \in 0..now /\ Current.kind \in Kinds
  BY <1>1, CurrentRead DEF IInv, TypeOK, ReaderTypes
<1>3. ASSUME Current.kind \notin overlapped
      PROVE  /\ Stamp(Current.kind) > 0 => stamps[Stamp(Current.kind)] <= rtime'
             /\ ~WithinTime(tv_sec[Current.kind], tv_nsec[Current.kind], rtime')
  <2>1. rsec = tv_sec[Current.kind]
    BY <1>1, <1>3 DEF IInv, Reading
  <2> DEFINE k == Current.kind
  <2>2. k \in Kinds /\ k \notin overlapped
    BY <1>2, <1>3
  <2> HIDE DEF k
  <2>3. Stamp(k) > 0 => stamps[Stamp(k)] \in 0..now
    BY <1>1, <2>2, Quiet
  <2>4. Stamp(k) > 0 => stamps[Stamp(k)] <= rtime'
    BY <1>1, <1>2, <2>3
  <2> QED BY <1>1, <2>1, <2>4 DEF k
<1>4. rtime' \in 0..now /\ rtime' >= Second /\ rtime <= rtime'
  BY <1>1, <1>2
<1> QED BY <1>1, <1>3, <1>4, Recorded DEF ReportStep

LEMMA FindInTimeKeeps == ASSUME IInv, FindInTime PROVE Reading' /\ Explained'
<1>1. /\ ipc = "nsec" /\ ipc' = "load" /\ rtime' = now /\ loaded' = <<>> /\ report' = report
      /\ overlapped' = overlapped /\ WithinTime(rsec, tv_nsec[Current.kind], now)
      /\ UNCHANGED <<tv_sec, tv_nsec, fields, stamps>>
  BY DEF FindInTime, InTime, input, history
<1>2. now \in Nat /\ now >= Second /\ rtime \in 0..now /\ Current.kind \in Kinds /\ report \in Seq(Entry)
  BY <1>1, CurrentRead DEF IInv, TypeOK, ReaderTypes
<1>3. Current' = Current /\ Stamp(Current.kind)' = Stamp(Current.kind)
  BY <1>1 DEF Current, Stamp
<1>4. ASSUME Current.kind \notin overlapped
      PROVE  /\ Stamp(Current.kind) > 0 => stamps[Stamp(Current.kind)] <= rtime'
             /\ WithinTime(tv_sec[Current.kind], tv_nsec[Current.kind], rtime')
  <2>1. rsec = tv_sec[Current.kind]
    BY <1>1, <1>4 DEF IInv, Reading
  <2> DEFINE k == Current.kind
  <2>2. k \in Kinds /\ k \notin overlapped
    BY <1>2, <1>4
  <2> HIDE DEF k
  <2>3. Stamp(k) > 0 => stamps[Stamp(k)] \in 0..now
    BY <1>1, <2>2, Quiet
  <2>4. Stamp(k) > 0 => stamps[Stamp(k)] <= rtime'
    BY <1>1, <1>2, <2>3
  <2> QED BY <1>1, <2>1, <2>4 DEF k
<1>5. Reading'
  <2>1. 1..Len(loaded') = {}
    BY <1>1
  <2> QED BY <1>1, <1>3, <1>4, <2>1 DEF Reading, WithinTime, Sec, Nsec
<1>6. \A j \in 1..Len(report) : report[j].time <= rtime'
  <2>1. \A j \in 1..Len(report) : report[j] \in Entry
    BY <1>2
  <2>2. \A j \in 1..Len(report) : report[j].time \in Nat /\ report[j].time <= rtime
    BY <2>1 DEF Entry, IInv, Explained
  <2> QED BY <1>1, <1>2, <2>2
<1>7. Explained'
  <2>1. \A j \in 1..Len(report) :
          LET k == Program[j].kind
          IN k \notin overlapped' =>
               /\ Stamp(k)' > 0 => stamps'[Stamp(k)'] <= report[j].time
               /\ \/ report[j].from = {} /\ ~WithinTime(tv_sec'[k], tv_nsec'[k], report[j].time)
                  \/ report[j].from = {Stamp(k)'} /\ WithinTime(tv_sec'[k], tv_nsec'[k], report[j].time)
    BY <1>1 DEF IInv, Explained, Stamp
  <2>2. \A j \in 1..Len(report) : report[j].time >= Second
    BY DEF IInv, Explained
  <2>3. \A i, j \in 1..Len(report) : i <= j => report[i].time <= report[j].time
    BY DEF IInv, Explained
  <2> QED BY <1>1, <1>2, <1>3, <1>4, <1>6, <2>1, <2>2, <2>3 DEF Explained, Stamp, WithinTime, Sec, Nsec
<1> QED BY <1>5, <1>7

LEMMA LoadFieldKeeps == ASSUME IInv, LoadField PROVE Reading' /\ Explained'
<1>1. /\ ipc = "load" /\ Len(loaded) < Len(plan) /\ loaded' = Append(loaded, NextField)
      /\ UNCHANGED <<ipc, report, plan, rtime, tv_sec, tv_nsec, fields, stamps, overlapped>>
  BY DEF LoadField, input, history
<1>2. Current \in Read /\ Current.kind \in Kinds /\ plan \in Plans(Current) /\ loaded \in Seq(Field)
  BY <1>1, CurrentRead DEF IInv, TypeOK, ReaderTypes, Current
<1>3. Current' = Current /\ Stamp(Current.kind)' = Stamp(Current.kind)
  BY <1>1 DEF Current, Stamp
<1>4. NextField \in Field /\ (Current.kind \notin overlapped => NextField.set = Stamp(Current.kind))
  <2>1. plan \in Seq(Nat) /\ \A j \in 1..Len(plan) : plan[j] \in 1..Width(Current.kind)
    BY <1>2, PlanFields
  <2>2. Len(loaded) + 1 \in 1..Len(plan)
    BY <1>1, <1>2, <2>1
  <2>3. plan[Len(loaded) + 1] \in 1..Width(Current.kind)
    BY <2>1, <2>2
  <2>4. NextField \in Field
    BY <1>2, <2>3, StampType DEF IInv, NextField
  <2>5. ASSUME Current.kind \notin overlapped PROVE NextField.set = Stamp(Current.kind)
    <3>1. \A f \in 1..Width(Current.kind) : fields[<<Current.kind, f>>].set = Stamp(Current.kind)
      BY <1>1, <1>2, <2>5, Quiet
    <3> QED BY <2>3, <3>1 DEF NextField
  <2> QED BY <2>4, <2>5
<1>5. /\ Len(loaded') = Len(loaded) + 1 /\ loaded'[Len(loaded) + 1] = NextField
      /\ \A j \in 1..Len(loaded) : loaded'[j] = loaded[j]
      /\ \A j \in 1..Len(loaded') : j \in 1..Len(loaded) \/ j = Len(loaded) + 1
  BY <1>1, <1>2, <1>4
<1>6. Current.kind \notin overlapped => \A j \in 1..Len(loaded') : loaded'[j].set = Stamp(Current.kind)
  BY <1>1, <1>4, <1>5 DEF IInv, Reading
<1>7. Reading'
  BY <1>1, <1>3, <1>6 DEF IInv, Reading, WithinTime, Sec, Nsec
<1>8. Explained'
  BY <1>1, <1>3 DEF IInv, Explained, Stamp, WithinTime, Sec, Nsec
<1> QED BY <1>7, <1>8

LEMMA EvaluateKeeps == ASSUME IInv, Evaluate PROVE Reading' /\ Explained'
<1> DEFINE from == {loaded[j].set : j \in 1..Len(loaded)}
<1>1. /\ ipc = "load" /\ Len(loaded) = Len(plan) /\ rtime' = rtime /\ overlapped' = overlapped
      /\ Record(Value(Current), from)
  BY DEF Evaluate, AllLoaded, history
<1>2. /\ Current \in Read /\ Current.kind \in Kinds /\ plan \in Plans(Current)
      /\ loaded \in Seq(Field) /\ rtime \in 0..now /\ now \in Nat
  BY <1>1, CurrentRead DEF IInv, TypeOK, ReaderTypes, Current
<1>3. Len(loaded) >= 1 /\ Len(loaded) \in Nat
  BY <1>1, <1>2, PlanFields
<1>4. ASSUME Current.kind \notin overlapped
      PROVE  /\ Stamp(Current.kind) > 0 => stamps[Stamp(Current.kind)] <= rtime'
             /\ from = {Stamp(Current.kind)}
             /\ WithinTime(tv_sec[Current.kind], tv_nsec[Current.kind], rtime')
  <2>1. /\ WithinTime(tv_sec[Current.kind], tv_nsec[Current.kind], rtime')
        /\ \A j \in 1..Len(loaded) : loaded[j].set = Stamp(Current.kind)
    BY <1>1, <1>4 DEF IInv, Reading
  <2>2. from = {Stamp(Current.kind)}
    <3>1. 1 \in 1..Len(loaded)
      BY <1>3
    <3> QED BY <2>1, <3>1
  <2>3. Stamp(Current.kind) > 0 => stamps[Stamp(Current.kind)] <= rtime'
    BY <1>1, <1>4 DEF IInv, Explained
  <2> QED BY <2>1, <2>2, <2>3
<1>5. rtime' \in 0..now /\ rtime' >= Second /\ rtime <= rtime'
  BY <1>1, <1>2 DEF IInv, Explained
<1> HIDE DEF from
<1> QED BY <1>1, <1>4, <1>5, Recorded DEF ReportStep

LEMMA ReportKeeps == ASSUME IInv, ReportStep PROVE IInv'
<1>1. TypeOK' /\ Stored' /\ Storing' /\ Noticed'
  BY ReaderKeepsTypes, ReaderKeepsStores
<1>2. UNCHANGED <<tv_sec, tv_nsec, fields, stamps>>
  BY ReportFrame
<1>3. Reading' /\ Explained'
  <2>1. CASE Poll
    <3>1. ipc' = "start" /\ ipc = "poll" /\ report' = report
      BY <2>1 DEF Poll
    <3>2. report = <<>>
      BY <3>1 DEF IInv, Explained
    <3>3. 1..Len(report') = {}
      BY <3>1, <3>2
    <3> QED BY <3>1, <3>2, <3>3 DEF Reading, Explained
  <2>2. CASE Start
    <3>1. ipc' \in {"sec", "send"} /\ report' = <<>>
      BY <2>2 DEF Start
    <3>2. 1..Len(report') = {}
      BY <3>1
    <3> QED BY <3>1, <3>2 DEF Reading, Explained
  <2>3. CASE LoadSec
    <3>1. /\ ipc' = "nsec" /\ rsec' = tv_sec[Current.kind]
          /\ UNCHANGED <<report, rtime, overlapped>> /\ ipc = "sec"
      BY <2>3 DEF LoadSec, history
    <3>2. Current' = Current
      BY <3>1 DEF Current
    <3>3. Reading'
      BY <1>2, <3>1, <3>2 DEF Reading
    <3>4. Explained'
      BY <1>2, <3>1 DEF IInv, Explained, Stamp, WithinTime, Sec, Nsec
    <3> QED BY <3>3, <3>4
  <2>4. CASE Crash
    <3>1. UNCHANGED <<reader, overlapped>>
      BY <2>4 DEF Crash, history
    <3> QED BY <1>2, <3>1, Undisturbed DEF Stamp
  <2>5. CASE Send
    <3>1. ipc' = "poll" /\ report' = <<>>
      BY <2>5 DEF Send
    <3>2. 1..Len(report') = {}
      BY <3>1
    <3> QED BY <3>1, <3>2 DEF Reading, Explained
  <2> QED BY <2>1, <2>2, <2>3, <2>4, <2>5, FindExpiredKeeps, FindInTimeKeeps, LoadFieldKeeps, EvaluateKeeps
          DEF ReportStep
<1> QED BY <1>1, <1>3 DEF IInv

-----------------------------------------------------------------------------

LEMMA TickKeeps == ASSUME IInv, Tick PROVE IInv'
<1>1. UNCHANGED <<tv_sec, tv_nsec, fields, setter, reader, alive, stamps, overlapped>>
  BY DEF Tick, input, history
<1>2. TypeOK'
  BY TickKeepsTypes
<1>3. Stored' /\ Storing' /\ Noticed'
  BY <1>1 DEF IInv, Stored, Storing, Noticed, Being, Stamp, setter, reader, Sec, Nsec
<1>4. Reading' /\ Explained'
  BY <1>1, Undisturbed DEF Stamp
<1> QED BY <1>2, <1>3, <1>4 DEF IInv

LEMMA InitInv == Init => IInv
<1> SUFFICES ASSUME Init PROVE IInv
  OBVIOUS
<1>1. Second \in Nat \ {0} /\ Len(Program) \in Nat
  BY InputAssumption, ProgramReads
<1>2. Sec(0) = 0 /\ 0 \in 0..(Second - 1) /\ 0 \in 0..MaxSets /\ 0 \in 0..(SeqMod - 1)
  BY <1>1, InputAssumption, SMT DEF Sec
<1>3. fields \in [Slots -> Field] /\ \A s \in Slots : fields[s].set = 0
  <2>1. [val |-> 0, set |-> 0] \in Field
    BY <1>2 DEF Field
  <2> QED BY <2>1 DEF Init
<1>4. <<>> \in Seq(0..now) /\ <<>> \in Seq(Entry) /\ <<>> \in Seq(Field)
  OBVIOUS
<1>5. TypeOK
  <2>1. SetterTypes
    BY DEF Init, SetterTypes
  <2>2. ReaderTypes
    BY <1>1, <1>2, <1>4 DEF Init, ReaderTypes
  <2> QED BY <1>1, <1>2, <1>3, <1>4, <2>1, <2>2, InputAssumption DEF Init, TypeOK
<1>6. Stored
  <2> SUFFICES ASSUME NEW k \in Kinds
               PROVE  /\ \A f \in 1..Width(k) : fields[<<k, f>>].set = Stamp(k)
                      /\ Stamp(k) <= Len(stamps) /\ Stamp(k) = 0 /\ tv_sec[k] = 0 /\ tv_nsec[k] = 0
    BY DEF Stored
  <2>1. Stamp(k) = 0 /\ \A f \in 1..Width(k) : fields[<<k, f>>].set = 0
    BY <1>3, SlotOf DEF Stamp
  <2>2. tv_sec[k] = 0 /\ tv_nsec[k] = 0 /\ Len(stamps) = 0
    BY DEF Init
  <2> QED BY <2>1, <2>2
<1>7. Storing /\ Noticed /\ Reading
  BY DEF Init, Storing, Noticed, Reading
<1>8. Explained
  <2>1. report = <<>> /\ 1..Len(report) = {} /\ ipc = "poll"
    BY DEF Init
  <2> QED BY <2>1 DEF Explained
<1> QED BY <1>5, <1>6, <1>7, <1>8 DEF IInv

LEMMA Stutter == ASSUME IInv, UNCHANGED vars PROVE IInv'
<1>1. UNCHANGED <<now, tv_sec, tv_nsec, fields, setter, reader, alive, stamps, overlapped>>
  BY DEF vars, input, history
<1>2. TypeOK'
  BY <1>1 DEF IInv, TypeOK, SetterTypes, ReaderTypes, setter, reader, reading
<1>3. Stored' /\ Storing' /\ Noticed'
  BY <1>1 DEF IInv, Stored, Storing, Noticed, Being, Stamp, setter, reader, Sec, Nsec
<1>4. Reading' /\ Explained'
  BY <1>1, Undisturbed DEF Stamp
<1> QED BY <1>2, <1>3, <1>4 DEF IInv

LEMMA Inductive == IInv /\ [Next]_vars => IInv'
  BY SetterKeeps, ReportKeeps, TickKeeps, Stutter DEF Next

LEMMA Invariant == Spec => []IInv
  BY InitInv, Inductive, PTL DEF Spec

-----------------------------------------------------------------------------
(* The values: what is stored, read and reported. *)

\* What a report has for a kind of input: two coordinates, both of them 0 or none,
\* or one word, for the extra buttons one byte.
OutFits(k, out) ==
  IF k = "touch" THEN /\ Len(out) = 2 /\ out[1] \in UInt16 /\ out[2] \in UInt16
                      /\ out = <<0, 0>> \/ (out[1] > 0 /\ out[2] > 0)
                 ELSE Len(out) = 1 /\ out[1] \in UInt16 /\ (k = "extra" => out[1] \in UInt8)

\* Every number fits the word that has it.
FieldsFit  == \A k \in Kinds : \A f \in 1..Width(k) : fields[<<k, f>>].val \in Holds(k)
LoadedFit  == ipc = "load" => \A j \in 1..Len(loaded) : loaded[j].val \in Holds(Current.kind)
ReportFits == \A j \in 1..Len(report) : OutFits(Program[j].kind, report[j].out)

\* The values of a kind are those of one input.
WholeInput(k) == \E p \in Payload(k) : \A f \in 1..Width(k) : fields[<<k, f>>].val = p[f]

\* So it is unless that kind is being stored, and of a store in progress what is there.
StoredWhole  == \A k \in Kinds : ~Being(k) /\ Stamp(k) > 0 => WholeInput(k)
StoringWhole == spc = "fields" => \A f \in 1..(sfield - 1) : fields[<<skind, f>>].val = sload[f]

\* The read in progress has the values that are stored.
LoadedNow ==
  ipc = "load" /\ Current.kind \notin overlapped =>
    \A j \in 1..Len(loaded) : loaded[j] = fields[<<Current.kind, plan[j]>>]

\* What an output that met no store is within.
Bound(k, out) ==
  CASE k = "joystick" -> out[1] \in 0..16
    [] k = "touch"    -> out = <<0, 0>> \/ \A c \in 1..2 : out[c] \in 120..4000
    [] OTHER          -> TRUE
Bounded == \A j \in 1..Len(report) : Program[j].kind \notin overlapped => Bound(Program[j].kind, report[j].out)

\* A report that is sent is complete.
Complete == ipc = "send" => Len(report) = Len(Program)

StoreInv  == FieldsFit /\ StoredWhole /\ StoringWhole
ReportInv == LoadedFit /\ LoadedNow /\ ReportFits /\ Bounded /\ Complete
VInv      == StoreInv /\ ReportInv /\ CrashNeedsOverlap

LEMMA BoundedIs == InBounds <=> Bounded
  BY DEF InBounds, Bounded, Bound

\* The steps of the server thread.
LEMMA BeginWhole ==
  ASSUME IInv, VInv, NEW k \in Kinds, NEW p \in Payload(k), BeginSet(k, p) PROVE StoreInv' /\ ReportInv'
<1>1. /\ spc = "idle" /\ spc' = "nsec" /\ skind' = k
      /\ overlapped' = overlapped \cup {k} /\ UNCHANGED <<fields, reader>>
  BY DEF BeginSet
<1>2. \A m \in Kinds : ~Being(m)
  BY <1>1 DEF Being
<1>3. StoreInv'
  BY <1>1, <1>2 DEF VInv, StoreInv, FieldsFit, StoredWhole, StoringWhole, WholeInput, Stamp
<1>4. ReportInv'
  BY <1>1 DEF VInv, ReportInv, LoadedFit, LoadedNow, ReportFits, Bounded, Complete, Current, reader, reading
<1> QED BY <1>3, <1>4

LEMMA StampWhole == ASSUME IInv, VInv, StampNsec PROVE StoreInv' /\ ReportInv'
<1>1. /\ spc = "nsec" /\ spc' = "fields" /\ UNCHANGED <<fields, skind, sload, sfield, reader, overlapped>>
  BY DEF StampNsec, history
<1>2. sfield = 1
  BY <1>1 DEF IInv, Storing
<1>3. 1..(sfield - 1) = {}
  BY <1>2
<1>4. StoreInv'
  BY <1>1, <1>3 DEF VInv, StoreInv, FieldsFit, StoredWhole, StoringWhole, WholeInput, Stamp, Being
<1>5. ReportInv'
  BY <1>1 DEF VInv, ReportInv, LoadedFit, LoadedNow, ReportFits, Bounded, Complete, Current, reader, reading
<1> QED BY <1>4, <1>5

LEMMA StoreWhole == ASSUME IInv, VInv, StoreField PROVE StoreInv' /\ ReportInv'
<1>1. /\ spc = "fields" /\ UNCHANGED <<reader, overlapped>>
      /\ fields' = [fields EXCEPT ![<<skind, sfield>>] = [val |-> sload[sfield], set |-> Len(stamps)]]
  BY DEF StoreField, history
<1>2. /\ fields \in [Slots -> Field] /\ skind \in Kinds /\ sfield \in 1..Width(skind) /\ sload \in Payload(skind)
      /\ <<skind, sfield>> \in Slots /\ Width(skind) \in Nat \ {0}
  BY <1>1, SlotOf, WidthPositive DEF IInv, TypeOK, SetterTypes
<1>3. fields'[<<skind, sfield>>].val = sload[sfield] /\ sload[sfield] \in Holds(skind)
  BY <1>1, <1>2, PayloadHolds
<1>4. \A s \in Slots : s # <<skind, sfield>> => fields'[s] = fields[s]
  BY <1>1, <1>2
<1>5. \A f \in 1..sfield : fields'[<<skind, f>>].val = sload[f]
  <2> SUFFICES ASSUME NEW f \in 1..sfield, f # sfield PROVE fields'[<<skind, f>>].val = sload[f]
    BY <1>3
  <2>1. f \in 1..(sfield - 1) /\ f \in 1..Width(skind)
    BY <1>2
  <2>2. fields'[<<skind, f>>] = fields[<<skind, f>>]
    BY <1>2, <1>4, <2>1, SlotOf
  <2> QED BY <1>1, <2>1, <2>2 DEF VInv, StoreInv, StoringWhole
<1>6. \A m \in Kinds : m # skind =>
        Stamp(m)' = Stamp(m) /\ \A f \in 1..Width(m) : fields'[<<m, f>>] = fields[<<m, f>>]
  BY <1>4, SlotOf DEF Stamp
<1>7. FieldsFit'
  <2> SUFFICES ASSUME NEW m \in Kinds, NEW f \in 1..Width(m) PROVE fields'[<<m, f>>].val \in Holds(m)
    BY DEF FieldsFit
  <2>1. CASE <<m, f>> = <<skind, sfield>>
    BY <1>3, <2>1
  <2>2. CASE <<m, f>> # <<skind, sfield>>
    BY <1>4, <2>2, SlotOf DEF VInv, StoreInv, FieldsFit
  <2> QED BY <2>1, <2>2
<1>8. \A m \in Kinds : m # skind /\ Stamp(m)' > 0 => WholeInput(m)'
  BY <1>6 DEF VInv, StoreInv, StoredWhole, WholeInput, Being
<1>9. StoredWhole' /\ StoringWhole'
  <2>1. CASE sfield < Width(skind)
    <3>1. spc' = "fields" /\ UNCHANGED <<skind, sload>> /\ sfield' = sfield + 1
      BY <1>1, <2>1 DEF StoreField
    <3>2. sfield' - 1 = sfield
      BY <1>2, <3>1
    <3> QED BY <1>5, <1>8, <3>1, <3>2 DEF StoredWhole, StoringWhole, Being
  <2>2. CASE ~(sfield < Width(skind))
    <3>1. spc' = "idle" /\ sfield = Width(skind)
      BY <1>1, <1>2, <2>2 DEF StoreField
    <3>2. PICK k \in Kinds : k = skind
      BY <1>2
    <3>3. WholeInput(k)'
      BY <1>2, <1>5, <3>1, <3>2 DEF WholeInput
    <3> QED BY <1>8, <3>1, <3>2, <3>3 DEF StoredWhole, StoringWhole
  <2> QED BY <2>1, <2>2
<1>10. UNCHANGED <<ipc, report, plan, loaded>>
  BY <1>1 DEF reader, reading
<1>11. LoadedNow'
  <2> SUFFICES ASSUME ipc = "load", Current.kind \notin overlapped, NEW j \in 1..Len(loaded)
               PROVE  loaded[j] = fields'[<<Current.kind, plan[j]>>]
    BY <1>1, <1>10 DEF LoadedNow, Current
  <2>1. Current.kind # skind
    BY <1>1 DEF IInv, Noticed
  <2>2. /\ Current \in Read /\ Current.kind \in Kinds /\ plan \in Plans(Current)
        /\ loaded \in Seq(Field) /\ Len(loaded) <= Len(plan)
    BY CurrentRead DEF IInv, TypeOK, ReaderTypes, Current
  <2>3. plan[j] \in 1..Width(Current.kind)
    <3>1. plan \in Seq(Nat) /\ \A i \in 1..Len(plan) : plan[i] \in 1..Width(Current.kind)
      BY <2>2, PlanFields
    <3> QED BY <2>2, <3>1
  <2>4. loaded[j] = fields[<<Current.kind, plan[j]>>]
    BY DEF VInv, ReportInv, LoadedNow
  <2> QED BY <1>6, <2>1, <2>2, <2>3, <2>4
<1>12. LoadedFit' /\ ReportFits' /\ Bounded' /\ Complete'
  BY <1>1, <1>10 DEF VInv, ReportInv, LoadedFit, ReportFits, Bounded, Complete, Current
<1> QED BY <1>7, <1>9, <1>11, <1>12 DEF StoreInv, ReportInv

\* A coordinate is at most its share of the screen.
LEMMA Share ==
  ASSUME NEW x \in Nat, NEW w \in Nat \ {0}, x <= w, NEW c \in Nat
  PROVE  (x * c) \div w \in 0..c
<1> DEFINE a == x * c  q == a \div w
<1>1. a \in Nat /\ a <= w * c
  <2>1. a \in Nat
    BY SMT
  <2>2. (w - x) * c \in Nat /\ w * c = x * c + (w - x) * c
    BY SMT
  <2> QED BY <2>1, <2>2
<1> HIDE DEF a
<1>2. q \in Nat /\ w * q <= a
  BY <1>1, SMT
<1> HIDE DEF q
<1>3. w * q \in Nat /\ w * c \in Nat
  BY <1>2, SMT
<1>4. q <= c
  <2> SUFFICES ASSUME q > c PROVE FALSE
    BY <1>2
  <2>1. q - c \in Nat \ {0} /\ w * (q - c) = w * q - w * c
    BY <1>2, SMT
  <2>2. w * (q - c) >= w
    BY <2>1, SMT
  <2> QED BY <1>1, <1>2, <1>3, <2>1, <2>2
<1> QED BY <1>2, <1>4 DEF q, a

\* Any result of a conversion is a word of 16 bits.
LEMMA WordOf == ASSUME NEW n \in Int PROVE n % 65536 \in UInt16
  BY SMT DEF UInt16

LEMMA TruncatedInt == ASSUME NEW a \in Int, NEW b \in Nat \ {0} PROVE Truncated(a, b) \in Int
<1>1. ASSUME NEW n \in Int PROVE n \div b \in Int
  BY SMT
<1> QED BY <1>1 DEF Truncated

LEMMA TranslatedWord ==
  ASSUME NEW old \in Nat, NEW size \in Nat \ {0}, NEW min \in Nat, NEW max \in Nat
  PROVE  TranslateBounds(old, size, min, max) \in UInt16
<1> DEFINE a == old * (max - min)  c == Truncated(a, size)
<1>1. a \in Int
  BY SMT
<1> HIDE DEF a
<1>2. c \in Int
  BY <1>1, TruncatedInt
<1> HIDE DEF c
<1>3. (c + min) % 65536 \in UInt16
  BY <1>2, WordOf
<1> QED BY <1>3 DEF TranslateBounds, c, a

\* On the screen x runs from the lower bound to the upper one, and y the other way.
LEMMA TranslatedBetween ==
  ASSUME NEW old \in Nat, NEW size \in Nat \ {0}, old <= size,
         NEW lo \in Nat, NEW hi \in Nat, lo <= hi, hi < 65536
  PROVE  TranslateBounds(old, size, lo, hi) \in lo..hi /\ TranslateBounds(old, size, hi, lo) \in lo..hi
<1> DEFINE c == hi - lo  a == old * c  q == a \div size
<1>1. c \in Nat /\ lo - hi = -c
  OBVIOUS
<1>2. a \in Nat /\ old * (lo - hi) = -a
  BY <1>1, SMT
<1>3. q \in 0..c
  <2> HIDE DEF c
  <2> QED BY <1>1, Share
<1>4. Truncated(old * (hi - lo), size) = q
  BY <1>2 DEF Truncated
<1>5. Truncated(-a, size) = -q
  <2> HIDE DEF a
  <2>1. CASE a = 0
    <3>1. Truncated(-a, size) = 0 \div size /\ q = 0 \div size
      BY <2>1 DEF Truncated
    <3>2. 0 \div size = 0
      BY SMT
    <3> QED BY <3>1, <3>2
  <2>2. CASE a # 0
    <3>1. -a < 0 /\ -(-a) = a
      BY <1>2, <2>2
    <3> QED BY <3>1 DEF Truncated
  <2> QED BY <2>1, <2>2
<1>6. /\ TranslateBounds(old, size, lo, hi) = (q + lo) % 65536
      /\ TranslateBounds(old, size, hi, lo) = (-q + hi) % 65536
  <2>1. Truncated(old * (lo - hi), size) = -q
    BY ONLY <1>2, <1>5
  <2> HIDE DEF q
  <2> QED BY ONLY <1>4, <2>1 DEF TranslateBounds, a, c
<1>7. q + lo \in lo..hi /\ -q + hi \in lo..hi
  <2>1. q \in Nat /\ q <= hi - lo
    BY <1>1, <1>3
  <2> HIDE DEF q
  <2> QED BY <2>1
<1>8. \A n \in lo..hi : n % 65536 = n
  BY SMT
<1> HIDE DEF q, a, c
<1> QED BY ONLY <1>6, <1>7, <1>8

LEMMA TouchFits ==
  ASSUME NEW x \in Nat, NEW y \in Nat, NEW w \in Nat \ {0}, NEW h \in Nat \ {0}
  PROVE  /\ OutFits("touch", TouchValue(x, y, w, h))
         /\ x <= w /\ y <= h => Bound("touch", TouchValue(x, y, w, h))
<1> DEFINE lo == 120  hi == 4000
           tx == TranslateBounds(x, w, lo, hi)  ty == TranslateBounds(y, h, hi, lo)
           out == IF tx > 0 /\ ty > 0 THEN <<tx, ty>> ELSE <<0, 0>>
<1>1. TouchValue(x, y, w, h) = out
  BY DEF TouchValue
<1>2. lo \in Nat /\ hi \in Nat /\ lo <= hi /\ hi < 65536
  OBVIOUS
<1>3. lo..hi = 120..4000
  OBVIOUS
<1> HIDE DEF lo, hi
<1>4. tx \in UInt16 /\ ty \in UInt16
  BY <1>2, TranslatedWord
<1>5. x <= w /\ y <= h => tx \in lo..hi /\ ty \in lo..hi
  <2>1. \A n \in Nat, m \in Nat \ {0} : n <= m =>
          TranslateBounds(n, m, lo, hi) \in lo..hi /\ TranslateBounds(n, m, hi, lo) \in lo..hi
    BY ONLY <1>2, TranslatedBetween
  <2> QED BY <2>1
<1> HIDE DEF tx, ty
<1>6. 0 \in UInt16
  BY DEF UInt16
<1>7. OutFits("touch", out)
  <2>1. CASE tx > 0 /\ ty > 0
    BY <1>4, <2>1 DEF OutFits
  <2>2. CASE ~(tx > 0 /\ ty > 0)
    BY <1>6, <2>2 DEF OutFits
  <2> QED BY <2>1, <2>2
<1>8. ASSUME x <= w, y <= h PROVE Bound("touch", out)
  <2>1. CASE tx > 0 /\ ty > 0
    <3>1. out[1] \in 120..4000 /\ out[2] \in 120..4000
      BY <1>3, <1>5, <1>8, <2>1
    <3> HIDE DEF out
    <3>2. \A c \in 1..2 : c = 1 \/ c = 2
      OBVIOUS
    <3> QED BY <3>1, <3>2 DEF Bound
  <2>2. CASE ~(tx > 0 /\ ty > 0)
    BY <2>2 DEF Bound
  <2> QED BY <2>1, <2>2
<1> QED BY <1>1, <1>7, <1>8

\* A stick whose two loads agree stays on its scale.
LEMMA StickFits ==
  /\ \A a, b \in Nat : StickValue(a, b) \in UInt16
  /\ \A a \in 0..200 : StickValue(a, a) \in 0..16
<1>1. ASSUME NEW a \in Nat, NEW b \in Nat PROVE StickValue(a, b) \in UInt16
  <2> DEFINE d == Deflection(a, b)  n == 8 + (d * 8) \div 100
  <2>1. d \in Int
    BY DEF Deflection
  <2> HIDE DEF d
  <2>2. n \in Int
    BY <2>1, SMT
  <2> HIDE DEF n
  <2>3. n % 65536 \in UInt16
    BY <2>2, WordOf
  <2> QED BY <2>3 DEF StickValue, n, d
<1>2. ASSUME NEW a \in 0..200 PROVE StickValue(a, a) \in 0..16
  <2> DEFINE d == Deflection(a, a)
  <2>1. d \in -100..100
    BY DEF Deflection
  <2> HIDE DEF d
  <2>2. (d * 8) \div 100 \in -8..8
    BY <2>1, SMT
  <2> DEFINE q == (d * 8) \div 100
  <2>3. q \in -8..8
    BY <2>2
  <2> HIDE DEF q
  <2>4. (8 + q) % 65536 \in 0..16
    BY <2>3, SMT
  <2> QED BY <2>4 DEF StickValue, q, d
<1> QED BY <1>1, <1>2

LEMMA ReleasedFits == ASSUME NEW r PROVE OutFits(r.kind, Released(r)) /\ Bound(r.kind, Released(r))
<1>1. 0 \in UInt16 /\ 8 \in UInt16 /\ 0 \in UInt8 /\ 8 \in 0..16
  BY DEF UInt16, UInt8
<1>2. CASE r.kind = "touch"
  BY <1>1, <1>2 DEF Released, OutFits, Bound
<1>3. CASE r.kind = "joystick"
  BY <1>1, <1>3 DEF Released, OutFits, Bound
<1>4. CASE r.kind # "touch" /\ r.kind # "joystick"
  BY <1>1, <1>4 DEF Released, OutFits, Bound
<1> QED BY <1>2, <1>3, <1>4

\* What AllLoaded says of the read.
LEMMA LoadedAll ==
  ASSUME IInv, AllLoaded
  PROVE  /\ ipc = "load" /\ Current \in Read /\ Current.kind \in Kinds /\ plan \in Plans(Current)
         /\ loaded \in Seq(Field) /\ Len(loaded) = Len(plan) /\ Len(plan) \in Nat /\ Len(plan) >= 1
         /\ \A j \in 1..Len(plan) : plan[j] \in 1..Width(Current.kind)
<1>1. ReaderTypes /\ ipc = "load" /\ Len(loaded) = Len(plan)
  BY DEF IInv, TypeOK, AllLoaded
<1>2. Current \in Read /\ Current.kind \in Kinds /\ plan \in Plans(Current) /\ loaded \in Seq(Field)
  BY <1>1, CurrentRead DEF ReaderTypes, Current
<1>3. plan \in Seq(Nat) /\ Len(plan) >= 1 /\ \A j \in 1..Len(plan) : plan[j] \in 1..Width(Current.kind)
  BY <1>2, PlanFields
<1> QED BY <1>1, <1>2, <1>3

\* A read that met no store took all of its values from one input.
LEMMA LoadedWhole ==
  ASSUME IInv, VInv, AllLoaded, Current.kind \notin overlapped
  PROVE  \E p \in Payload(Current.kind) : \A j \in 1..Len(plan) : loaded[j].val = p[plan[j]]
<1> DEFINE k == Current.kind
<1>1. /\ ipc = "load" /\ k \in Kinds /\ k \notin overlapped /\ Len(loaded) = Len(plan)
      /\ \A j \in 1..Len(plan) : plan[j] \in 1..Width(k)
  BY LoadedAll
<1>2. \A j \in 1..Len(plan) : loaded[j] = fields[<<k, plan[j]>>]
  BY <1>1 DEF VInv, ReportInv, LoadedNow
<1>3. WithinTime(tv_sec[k], tv_nsec[k], rtime) /\ rtime \in Nat /\ rtime >= Second
  <2>1. WithinTime(tv_sec[k], tv_nsec[k], rtime)
    BY <1>1 DEF IInv, Reading
  <2>2. rtime \in 0..now /\ now \in Nat /\ rtime >= Second
    BY <1>1 DEF IInv, TypeOK, ReaderTypes, Explained
  <2> QED BY <2>1, <2>2
<1> HIDE DEF k
<1>4. ~Being(k)
  BY <1>1 DEF IInv, Noticed, Being
<1>5. Stamp(k) > 0
  <2>1. /\ Stamp(k) \in 0..Len(stamps)
        /\ Stamp(k) = 0 => tv_sec[k] = 0 /\ tv_nsec[k] = 0
    BY <1>1, Quiet
  <2>2. Stamp(k) # 0
    BY <1>3, <2>1, NeverStored
  <2> QED BY <2>1, <2>2
<1>6. WholeInput(k)
  BY <1>1, <1>4, <1>5 DEF VInv, StoreInv, StoredWhole
<1>7. PICK p \in Payload(k) : \A f \in 1..Width(k) : fields[<<k, f>>].val = p[f]
  BY <1>6 DEF WholeInput
<1>8. \A j \in 1..Len(plan) : loaded[j].val = p[plan[j]]
  BY <1>1, <1>2, <1>7
<1> QED BY <1>8 DEF k

\* The four words of a touch, whatever their order.
LEMMA LoadedPlace ==
  ASSUME IInv, AllLoaded, Current.kind = "touch", NEW f \in 1..4
  PROVE  \E j \in 1..Len(plan) : plan[j] = f /\ Loaded(f) = loaded[j].val
<1>1. \E j \in 1..Len(plan) : plan[j] = f
  BY LoadedAll, PlanFields
<1> DEFINE j == CHOOSE j \in 1..Len(plan) : plan[j] = f
<1>2. j \in 1..Len(plan) /\ plan[j] = f
  BY <1>1
<1>3. Loaded(f) = loaded[j].val
  BY DEF Loaded
<1> HIDE DEF j
<1> QED BY <1>2, <1>3

LEMMA TouchWhole ==
  ASSUME IInv, VInv, AllLoaded, Current.kind = "touch", Current.kind \notin overlapped
  PROVE  /\ Loaded(1) <= Loaded(3) /\ Loaded(2) <= Loaded(4)
         /\ Loaded(3) # 0 /\ Loaded(4) # 0
<1>1. PICK p \in Payload("touch") : \A j \in 1..Len(plan) : loaded[j].val = p[plan[j]]
  BY LoadedWhole
<1>2. \A f \in 1..4 : Loaded(f) = p[f]
  BY <1>1, LoadedPlace
<1>3. Loaded(1) = p[1] /\ Loaded(2) = p[2] /\ Loaded(3) = p[3] /\ Loaded(4) = p[4]
  BY <1>2
<1>4. p \in Points \X Points \X Sizes \X Sizes /\ p[1] <= p[3] /\ p[2] <= p[4]
  BY DEF Payload, Touches
<1>5. p[3] \in Sizes /\ p[4] \in Sizes
  BY <1>4
<1>6. p[3] # 0 /\ p[4] # 0
  BY <1>5, InputAssumption
<1> QED BY <1>3, <1>4, <1>6

LEMMA ValueFits ==
  ASSUME IInv, VInv, AllLoaded, ~DividesByZero(Current)
  PROVE  /\ OutFits(Current.kind, Value(Current))
         /\ Current.kind \notin overlapped => Bound(Current.kind, Value(Current))
<1>1. /\ Current \in Read /\ Current.kind \in Kinds /\ plan \in Plans(Current)
      /\ Len(loaded) = Len(plan) /\ Len(plan) \in Nat /\ Len(plan) >= 1 /\ ipc = "load"
  BY LoadedAll
<1>2. \A j \in 1..Len(plan) : loaded[j].val \in Holds(Current.kind) /\ loaded[j].val \in Nat
  BY <1>1, HoldsNat DEF VInv, ReportInv, LoadedFit
<1>3. CASE Current.kind = "touch"
  <2> DEFINE x == Loaded(1)  y == Loaded(2)  w == Loaded(3)  h == Loaded(4)
  <2>1. \A f \in 1..4 : Loaded(f) \in Nat
    BY <1>2, <1>3, LoadedPlace
  <2>2. x \in Nat /\ y \in Nat /\ w \in Nat \ {0} /\ h \in Nat \ {0}
    BY <1>3, <2>1 DEF DividesByZero
  <2>3. Current.kind \notin overlapped => x <= w /\ y <= h
    BY <1>3, TouchWhole
  <2>4. Value(Current) = TouchValue(x, y, w, h)
    BY <1>3 DEF Value
  <2> HIDE DEF x, y, w, h
  <2>5. OutFits("touch", Value(Current)) /\ (x <= w /\ y <= h => Bound("touch", Value(Current)))
    BY <2>2, <2>4, TouchFits
  <2> QED BY <1>3, <2>3, <2>5
<1>4. CASE Current.kind = "joystick"
  <2> DEFINE a == loaded[1].val  b == loaded[2].val
  <2>1. Len(plan) = 2 /\ plan = <<Current.axis, Current.axis>>
    BY <1>1, <1>4, PlanFields DEF Plans
  <2>2. a \in Nat /\ b \in Nat
    BY <1>2, <2>1
  <2>3. ASSUME Current.kind \notin overlapped PROVE a = b /\ a \in 0..200
    <3>1. PICK p \in Payload(Current.kind) : \A j \in 1..Len(plan) : loaded[j].val = p[plan[j]]
      BY <2>3, LoadedWhole
    <3>2. a = p[Current.axis] /\ b = p[Current.axis]
      BY <2>1, <3>1
    <3>3. p \in [1..Axes -> Sticks] /\ Current.axis \in 1..Axes
      BY <1>1, <1>4 DEF Payload, Read
    <3>4. p[Current.axis] \in Sticks
      BY <3>3
    <3> HIDE DEF a, b
    <3>5. Sticks \subseteq 0..200
      BY InputAssumption
    <3> QED BY <3>2, <3>4, <3>5
  <2>4. Value(Current) = <<StickValue(a, b)>>
    BY <1>4 DEF Value
  <2> HIDE DEF a, b
  <2>5. StickValue(a, b) \in UInt16 /\ (a = b /\ a \in 0..200 => StickValue(a, b) \in 0..16)
    BY <2>2, StickFits
  <2> QED BY <1>4, <2>3, <2>4, <2>5 DEF OutFits, Bound
<1>5. CASE Current.kind # "touch" /\ Current.kind # "joystick"
  <2>1. Value(Current) = <<loaded[1].val>> /\ loaded[1].val \in Holds(Current.kind)
    BY <1>1, <1>2, <1>5 DEF Value
  <2>2. Current.kind \in {"button", "extra"}
    <3>1. Kinds \subseteq {"touch", "button", "extra", "joystick"}
      BY InputAssumption
    <3> QED BY ONLY <1>1, <1>5, <3>1
  <2>3. loaded[1].val \in UInt16 /\ (Current.kind = "extra" => loaded[1].val \in UInt8)
    BY <2>1, <2>2, ByteIsWord DEF Holds
  <2> QED BY <1>5, <2>1, <2>3 DEF OutFits, Bound
<1> QED BY <1>3, <1>4, <1>5

\* A read that is over adds its output to the report.
LEMMA RecordedFits ==
  ASSUME IInv, VInv, ipc \in {"nsec", "load"}, NEW out, NEW from, Record(out, from),
         overlapped' = overlapped, OutFits(Current.kind, out),
         Current.kind \notin overlapped => Bound(Current.kind, out)
  PROVE  ReportInv'
<1> DEFINE e == [out |-> out, from |-> from, time |-> rtime']
<1>1. report \in Seq(Entry) /\ Len(report) \in Nat /\ rtime \in Nat
  BY DEF IInv, TypeOK, ReaderTypes
<1>2. report' = Append(report, e) /\ ipc' \in {"sec", "send"} /\ e.out = out
  BY DEF Record
<1> HIDE DEF e
<1>3. /\ Len(report') = Len(report) + 1 /\ report'[Len(report) + 1] = e
      /\ \A j \in 1..Len(report) : report'[j] = report[j]
      /\ \A j \in 1..Len(report') : j \in 1..Len(report) \/ j = Len(report) + 1
  BY <1>1, <1>2
<1>4. ReportFits' /\ Bounded'
  <2> SUFFICES ASSUME NEW j \in 1..Len(report')
               PROVE  /\ OutFits(Program[j].kind, report'[j].out)
                      /\ Program[j].kind \notin overlapped => Bound(Program[j].kind, report'[j].out)
    BY DEF ReportFits, Bounded
  <2>1. CASE j \in 1..Len(report)
    BY <1>3, <2>1 DEF VInv, ReportInv, ReportFits, Bounded
  <2>2. CASE j = Len(report) + 1
    BY <1>2, <1>3, <2>2 DEF Current
  <2> QED BY <1>3, <2>1, <2>2
<1>5. Complete'
  <2>1. Len(report) < Len(Program) /\ Len(Program) \in Nat
    BY ProgramReads DEF IInv, TypeOK, ReaderTypes
  <2>2. ipc' = "send" => ~(Len(report) + 1 < Len(Program))
    BY DEF Record
  <2> QED BY <1>1, <1>3, <2>1, <2>2 DEF Complete
<1> QED BY <1>2, <1>4, <1>5 DEF ReportInv, LoadedFit, LoadedNow

LEMMA LoadWhole == ASSUME IInv, VInv, LoadField PROVE ReportInv'
<1>1. /\ ipc = "load" /\ Len(loaded) < Len(plan) /\ loaded' = Append(loaded, NextField)
      /\ UNCHANGED <<ipc, report, plan, fields, overlapped>>
  BY DEF LoadField, input, history
<1>2. Current \in Read /\ Current.kind \in Kinds /\ plan \in Plans(Current) /\ loaded \in Seq(Field)
  BY <1>1, CurrentRead DEF IInv, TypeOK, ReaderTypes, Current
<1>3. Current' = Current
  BY <1>1 DEF Current
<1>4. plan[Len(loaded) + 1] \in 1..Width(Current.kind)
  <2>1. plan \in Seq(Nat) /\ \A j \in 1..Len(plan) : plan[j] \in 1..Width(Current.kind)
    BY <1>2, PlanFields
  <2>2. Len(loaded) + 1 \in 1..Len(plan)
    BY <1>1, <1>2, <2>1
  <2> QED BY <2>1, <2>2
<1>5. NextField = fields[<<Current.kind, plan[Len(loaded) + 1]>>] /\ NextField.val \in Holds(Current.kind)
  BY <1>2, <1>4 DEF NextField, VInv, StoreInv, FieldsFit
<1>6. /\ Len(loaded') = Len(loaded) + 1 /\ loaded'[Len(loaded) + 1] = NextField
      /\ \A j \in 1..Len(loaded) : loaded'[j] = loaded[j]
      /\ \A j \in 1..Len(loaded') : j \in 1..Len(loaded) \/ j = Len(loaded) + 1
  BY <1>1, <1>2
<1>7. LoadedFit'
  BY <1>1, <1>3, <1>5, <1>6 DEF VInv, ReportInv, LoadedFit, Holds
<1>8. LoadedNow'
  BY <1>1, <1>3, <1>5, <1>6 DEF VInv, ReportInv, LoadedNow
<1>9. ReportFits' /\ Bounded' /\ Complete'
  BY <1>1 DEF VInv, ReportInv, ReportFits, Bounded, Complete
<1> QED BY <1>7, <1>8, <1>9 DEF ReportInv

LEMMA ReportWhole == ASSUME IInv, VInv, alive, ReportStep PROVE VInv'
<1>1. UNCHANGED <<now, fields, setter, stamps>>
  BY ReportFrame
<1>2. StoreInv'
  BY <1>1 DEF VInv, StoreInv, FieldsFit, StoredWhole, StoringWhole, WholeInput, Stamp, Being, setter
<1>3. CASE Crash
  <2>1. UNCHANGED <<ipc, report, plan, loaded, fields, overlapped>> /\ AllLoaded /\ DividesByZero(Current)
    BY <1>1, <1>3 DEF Crash, reader, reading, history
  <2>2. ReportInv'
    BY <2>1 DEF VInv, ReportInv, LoadedFit, LoadedNow, ReportFits, Bounded, Complete, Current
  <2>3. CrashNeedsOverlap'
    BY <2>1, TouchWhole DEF CrashNeedsOverlap, DividesByZero
  <2> QED BY <1>2, <2>2, <2>3 DEF VInv
<1>4. ~Crash => alive' = alive
  BY DEF ReportStep, Poll, Start, LoadSec, FindExpired, FindInTime, LoadField, Evaluate, Send
<1>5. ~Crash => ReportInv'
  <2>1. CASE Poll \/ LoadSec
    <3>1. ipc' \in {"start", "nsec"} /\ UNCHANGED <<report, overlapped>>
      BY <2>1 DEF Poll, LoadSec, history
    <3> QED BY <3>1 DEF VInv, ReportInv, LoadedFit, LoadedNow, ReportFits, Bounded, Complete
  <2>2. CASE Start \/ Send
    <3>1. ipc' # "load" /\ report' = <<>> /\ (ipc' = "send" => ~(Len(Program) > 0))
      BY <2>2 DEF Start, Send
    <3>2. 1..Len(report') = {} /\ Len(report') = 0 /\ Len(Program) \in Nat
      BY <3>1, ProgramReads
    <3> QED BY <3>1, <3>2 DEF ReportInv, LoadedFit, LoadedNow, ReportFits, Bounded, Complete
  <2>3. CASE FindInTime
    <3>1. ipc' = "load" /\ loaded' = <<>> /\ UNCHANGED <<report, overlapped>>
      BY <2>3 DEF FindInTime, history
    <3>2. 1..Len(loaded') = {}
      BY <3>1
    <3> QED BY <3>1, <3>2 DEF VInv, ReportInv, LoadedFit, LoadedNow, ReportFits, Bounded, Complete
  <2>4. CASE FindExpired
    <3>1. ipc = "nsec" /\ Record(Released(Current), {}) /\ overlapped' = overlapped
      BY <2>4 DEF FindExpired, history
    <3> QED BY <3>1, ReleasedFits, RecordedFits
  <2>5. CASE Evaluate
    <3> DEFINE from == {loaded[j].set : j \in 1..Len(loaded)}
    <3>1. ipc = "load" /\ AllLoaded /\ ~DividesByZero(Current) /\ Record(Value(Current), from) /\ overlapped' = overlapped
      BY <2>5 DEF Evaluate, AllLoaded, history
    <3> HIDE DEF from
    <3> QED BY <3>1, ValueFits, RecordedFits
  <2> QED BY <2>1, <2>2, <2>3, <2>4, <2>5, LoadWhole DEF ReportStep
<1>6. ~Crash => CrashNeedsOverlap'
  BY <1>4 DEF CrashNeedsOverlap
<1> QED BY <1>2, <1>3, <1>5, <1>6 DEF VInv

LEMMA StillWhole ==
  ASSUME IInv, VInv, UNCHANGED <<fields, setter, reader, alive, stamps, overlapped>> PROVE VInv'
<1>1. UNCHANGED <<spc, skind, sload, sfield, ipc, report, plan, loaded>>
  BY DEF setter, reader, reading
<1> QED BY <1>1 DEF VInv, StoreInv, ReportInv, FieldsFit, StoredWhole, StoringWhole, WholeInput, Stamp, Being,
           LoadedFit, LoadedNow, ReportFits, Bounded, Complete, Current, CrashNeedsOverlap

LEMMA InitWhole == Init => VInv
<1> SUFFICES ASSUME Init PROVE VInv
  OBVIOUS
<1>1. \A k \in Kinds : Stamp(k) = 0
  BY SlotOf DEF Init, Stamp
<1>2. 0 \in UInt16 /\ 0 \in UInt8
  BY DEF UInt16, UInt8
<1>3. \A k \in Kinds : 0 \in Holds(k)
  BY <1>2 DEF Holds
<1>4. FieldsFit
  BY <1>3, SlotOf DEF Init, FieldsFit
<1>5. StoredWhole
  BY <1>1 DEF StoredWhole
<1>6. StoringWhole /\ LoadedFit /\ LoadedNow /\ CrashNeedsOverlap
  BY DEF Init, StoringWhole, LoadedFit, LoadedNow, CrashNeedsOverlap
<1>7. ReportFits /\ Bounded /\ Complete
  <2>1. 1..Len(report) = {} /\ ipc = "poll"
    BY DEF Init
  <2> QED BY <2>1 DEF ReportFits, Bounded, Complete
<1> QED BY <1>4, <1>5, <1>6, <1>7 DEF VInv, StoreInv, ReportInv

LEMMA NextWhole == IInv /\ VInv /\ [Next]_vars => VInv'
<1> SUFFICES ASSUME IInv, VInv, [Next]_vars PROVE VInv'
  OBVIOUS
<1>1. CASE SetterStep /\ alive
  <2>1. StoreInv' /\ ReportInv'
    BY <1>1, BeginWhole, StampWhole, StoreWhole DEF SetterStep
  <2>2. alive'
    BY <1>1 DEF SetterStep, BeginSet, StampNsec, StoreField
  <2> QED BY <2>1, <2>2 DEF VInv, CrashNeedsOverlap
<1>2. CASE ReportStep /\ alive
  BY <1>2, ReportWhole
<1>3. CASE Tick
  BY <1>3, StillWhole DEF Tick, input, history
<1>4. CASE UNCHANGED vars
  BY <1>4, StillWhole DEF vars, input, history
<1> QED BY <1>1, <1>2, <1>3, <1>4 DEF Next

LEMMA WholeInvariant == Spec => []VInv
  BY Invariant, InitWhole, NextWhole, PTL DEF Spec

-----------------------------------------------------------------------------
(* The bits of a coordinate. *)

\* A sequence from its end.
Mirrored(c, N) == [i \in 1..N |-> c[N + 1 - i]]

\* z is n elements of c from its end, z those after p.
Turns(z, S, n, b)   == z \in [1..n -> S] /\ \A i \in 1..n : z[i] = b[n + 1 - i]
Cuts(z, S, p, n, c) == z \in [1..n -> S] /\ \A i \in 1..n : z[i] = c[p + i]

LEMMA ReversedWhole ==
  ASSUME NEW S, NEW n \in Nat, NEW b \in [1..n -> S]
  PROVE  Turns(Reversed(b, 1, n), S, n, b)
<1>1. \A i \in 1..n : n + 1 - i \in 1..n /\ 1 + n - i = n + 1 - i
  OBVIOUS
<1>2. Reversed(b, 1, n) = [i \in 1..n |-> b[n + 1 - i]]
  BY <1>1 DEF Reversed
<1> QED BY <1>1, <1>2 DEF Turns

LEMMA PartOf ==
  ASSUME NEW S, NEW N \in Nat, NEW c \in [1..N -> S], NEW p \in Nat, NEW n \in Nat, p + n <= N, NEW from, from = p + 1,
         NEW to, to = p + n
  PROVE  Cuts(SubSeq(c, from, to), S, p, n, c)
<1>1. c \in Seq(S) /\ Len(c) = N
  BY LengthOf
<1> DEFINE q == SubSeq(c, from, to)
<1>2. q \in Seq(S) /\ Len(q) = n
  BY <1>1
<1>3. ASSUME NEW i \in 1..n PROVE q[i] = c[p + i]
  <2>1. q[i] = c[from + i - 1]
    BY <1>1
  <2>2. from + i - 1 = p + i
    OBVIOUS
  <2> QED BY <2>1, <2>2
<1>4. q \in [1..n -> S]
  <2> HIDE DEF q
  <2> QED BY <1>2
<1>5. Cuts(q, S, p, n, c)
  <2> HIDE DEF q
  <2> QED BY <1>3, <1>4 DEF Cuts
<1> QED BY <1>5

\* The two bytes of a field that is turned round, the last one first.
LEMMA MirrorBytes ==
  ASSUME NEW h \in Nat, NEW N, N = h + h, NEW from, from = h + 1, NEW c \in [1..N -> Nat]
  PROVE  LET lo == Number(Reversed(SubSeq(c, from, N), 1, h))  hi == Number(Reversed(SubSeq(c, 1, h), 1, h))
         IN lo \in Nat /\ hi \in Nat /\ lo + Weight(h) * hi = Number(Mirrored(c, N))
<1> DEFINE p == SubSeq(c, from, N)  q == SubSeq(c, 1, h)  lo == Reversed(p, 1, h)  hi == Reversed(q, 1, h)
           F == Mirrored(c, N)
<1>1. N \in Nat /\ h + h <= N /\ 0 + h <= N /\ 1 = 0 + 1 /\ h = 0 + h
  OBVIOUS
<1>2. Cuts(p, Nat, h, h, c)
  BY <1>1, PartOf
<1>3. Cuts(q, Nat, 0, h, c)
  BY <1>1, PartOf
<1> HIDE DEF p, q
<1>4. Turns(lo, Nat, h, p) /\ Turns(hi, Nat, h, q)
  BY <1>2, <1>3, ReversedWhole DEF Cuts
<1> HIDE DEF lo, hi
<1>5. F \in [1..(h + h) -> Nat] /\ \A i \in 1..N : F[i] = c[N + 1 - i]
  <2>1. \A i \in 1..N : N + 1 - i \in 1..N
    BY <1>1
  <2> QED BY <2>1 DEF Mirrored
<1> HIDE DEF F
<1>6. ASSUME NEW i \in 1..h PROVE lo[i] = F[i] /\ hi[i] = F[h + i]
  <2>1. h + 1 - i \in 1..h /\ i \in 1..N /\ h + i \in 1..N /\ h + (h + 1 - i) = N + 1 - i /\ h + 1 - i = N + 1 - (h + i)
    BY <1>1
  <2>2. lo[i] = p[h + 1 - i] /\ hi[i] = q[h + 1 - i]
    BY <1>4 DEF Turns
  <2>3. p[h + 1 - i] = c[h + (h + 1 - i)] /\ q[h + 1 - i] = c[h + 1 - i]
    <3>1. q[h + 1 - i] = c[0 + (h + 1 - i)]
      BY <1>3, <2>1 DEF Cuts
    <3>2. p[h + 1 - i] = c[h + (h + 1 - i)]
      BY <1>2, <2>1 DEF Cuts
    <3> QED BY <3>1, <3>2
  <2>4. F[i] = c[N + 1 - i] /\ F[h + i] = c[N + 1 - (h + i)]
    BY <1>5, <2>1
  <2> QED BY <2>1, <2>2, <2>3, <2>4
<1>7. [i \in 1..h |-> F[i]] = lo /\ [i \in 1..h |-> F[h + i]] = hi
  <2>1. lo = [i \in 1..h |-> lo[i]] /\ hi = [i \in 1..h |-> hi[i]]
    BY <1>4 DEF Turns
  <2> QED BY <1>6, <2>1
<1>8. Number(F) = Number([i \in 1..h |-> F[i]]) + Weight(h) * Number([i \in 1..h |-> F[h + i]])
  BY <1>5, NumberSplit
<1>9. Number(lo) \in Nat /\ Number(hi) \in Nat
  BY <1>4, NumberType DEF Turns
<1>10. Number(lo) + Weight(h) * Number(hi) = Number(F)
  BY <1>7, <1>8
<1> QED BY <1>9, <1>10 DEF F, lo, hi, p, q

\* A mark and two fields that are turned round, read from the end.
Framed(c, N, M, n, E, m, V, q) ==
  /\ m \in Nat /\ n \in Nat /\ N = m + (n + 1)
  /\ V \in [1..m -> Nat] /\ E \in [1..n -> Nat] /\ M \in [1..1 -> Nat]
  /\ Joins(q, Nat, Reversed(E, 1, n), n, Reversed(V, 1, m), m) /\ Joins(c, Nat, M, 1, q, n + m)

FieldsRead(c, N, M, n, E, m, V) ==
  /\ c \in [1..N -> Nat]
  /\ Number(Mirrored(c, N)) = Number(V) + Weight(m) * (Number(E) + Weight(n) * Number(M))

LEMMA MirrorFields ==
  ASSUME NEW c, NEW N, NEW M, NEW n, NEW E, NEW m, NEW V, NEW q, Framed(c, N, M, n, E, m, V, q)
  PROVE  FieldsRead(c, N, M, n, E, m, V)
<1> /\ m \in Nat /\ n \in Nat /\ N = m + (n + 1)
    /\ V \in [1..m -> Nat] /\ E \in [1..n -> Nat] /\ M \in [1..1 -> Nat]
    /\ Joins(q, Nat, Reversed(E, 1, n), n, Reversed(V, 1, m), m) /\ Joins(c, Nat, M, 1, q, n + m)
  BY DEF Framed
<1> DEFINE re == Reversed(E, 1, n)  rv == Reversed(V, 1, m)  F == Mirrored(c, N)  G == [i \in 1..(n + 1) |-> F[m + i]]
<1>1. N \in Nat /\ n + 1 \in Nat /\ 1 \in Nat /\ 1 + (n + m) = N
  OBVIOUS
<1>2. \A i \in 1..n : n + 1 - i \in 1..n /\ re[i] = E[n + 1 - i]
  <2>1. Turns(re, Nat, n, E)
    BY ReversedWhole
  <2> HIDE DEF re
  <2> QED BY <2>1 DEF Turns
<1>3. \A i \in 1..m : m + 1 - i \in 1..m /\ rv[i] = V[m + 1 - i]
  <2>1. Turns(rv, Nat, m, V)
    BY ReversedWhole
  <2> HIDE DEF rv
  <2> QED BY <2>1 DEF Turns
<1>4. (\A i \in 1..n : q[i] = re[i]) /\ (\A i \in 1..m : q[n + i] = rv[i])
  BY DEF Joins
<1>5. c \in [1..N -> Nat] /\ c[1] = M[1] /\ \A i \in 1..(n + m) : c[1 + i] = q[i]
  <2>1. c \in [1..(1 + (n + m)) -> Nat] /\ (\A i \in 1..1 : c[i] = M[i]) /\ (\A i \in 1..(n + m) : c[1 + i] = q[i])
    BY DEF Joins
  <2> QED BY <1>1, <2>1
<1> HIDE DEF re, rv
<1>6. F \in [1..(m + (n + 1)) -> Nat] /\ \A i \in 1..N : F[i] = c[N + 1 - i]
  <2>1. \A i \in 1..N : N + 1 - i \in 1..N
    BY <1>1
  <2> QED BY <1>5, <2>1 DEF Mirrored
<1> HIDE DEF F
<1>7. ASSUME NEW i \in 1..m PROVE F[i] = V[i]
  <2>1. i \in 1..N /\ m + 1 - i \in 1..m /\ n + (m + 1 - i) \in 1..(n + m) /\ N + 1 - i = 1 + (n + (m + 1 - i))
        /\ m + 1 - (m + 1 - i) = i
    BY <1>1
  <2>2. F[i] = c[1 + (n + (m + 1 - i))]
    BY <1>6, <2>1
  <2>3. c[1 + (n + (m + 1 - i))] = q[n + (m + 1 - i)]
    BY <1>5, <2>1
  <2>4. q[n + (m + 1 - i)] = rv[m + 1 - i]
    BY <1>4, <2>1
  <2>5. rv[m + 1 - i] = V[m + 1 - (m + 1 - i)]
    BY <1>3, <2>1
  <2> QED BY <2>1, <2>2, <2>3, <2>4, <2>5
<1>8. ASSUME NEW i \in 1..n PROVE F[m + i] = E[i]
  <2>1. m + i \in 1..N /\ n + 1 - i \in 1..n /\ n + 1 - i \in 1..(n + m) /\ N + 1 - (m + i) = 1 + (n + 1 - i)
        /\ n + 1 - (n + 1 - i) = i
    BY <1>1
  <2>2. F[m + i] = c[1 + (n + 1 - i)]
    BY <1>6, <2>1
  <2>3. c[1 + (n + 1 - i)] = q[n + 1 - i]
    BY <1>5, <2>1
  <2>4. q[n + 1 - i] = re[n + 1 - i]
    BY <1>4, <2>1
  <2>5. re[n + 1 - i] = E[n + 1 - (n + 1 - i)]
    BY <1>2, <2>1
  <2> QED BY <2>1, <2>2, <2>3, <2>4, <2>5
<1>9. F[m + (n + 1)] = M[1]
  <2>1. m + (n + 1) \in 1..N /\ N + 1 - (m + (n + 1)) = 1
    BY <1>1
  <2> QED BY <1>5, <1>6, <2>1
<1>10. [i \in 1..m |-> F[i]] = V
  <2>1. V = [i \in 1..m |-> V[i]]
    OBVIOUS
  <2> QED BY <1>7, <2>1
<1>11. G \in [1..(n + 1) -> Nat] /\ \A i \in 1..(n + 1) : G[i] = F[m + i]
  <2>1. \A i \in 1..(n + 1) : m + i \in 1..(m + (n + 1))
    OBVIOUS
  <2> QED BY <1>6, <2>1
<1> HIDE DEF G
<1>12. [i \in 1..n |-> G[i]] = E
  <2>1. E = [i \in 1..n |-> E[i]]
    OBVIOUS
  <2>2. \A i \in 1..n : G[i] = E[i]
    <3>1. \A i \in 1..n : i \in 1..(n + 1)
      OBVIOUS
    <3> QED BY <1>8, <1>11, <3>1
  <2> QED BY <2>1, <2>2
<1>13. [i \in 1..1 |-> G[n + i]] = M
  <2>1. M = [i \in 1..1 |-> M[i]]
    OBVIOUS
  <2>2. \A i \in 1..1 : i = 1
    OBVIOUS
  <2>3. n + 1 \in 1..(n + 1)
    OBVIOUS
  <2>4. G[n + 1] = M[1]
    BY <1>9, <1>11, <2>3
  <2>5. \A i \in 1..1 : G[n + i] = M[i]
    BY <2>2, <2>4
  <2> QED BY <2>1, <2>5
<1>14. Number(G) = Number([i \in 1..n |-> G[i]]) + Weight(n) * Number([i \in 1..1 |-> G[n + i]])
  BY <1>1, <1>11, NumberSplit
<1>15. Number(F) = Number([i \in 1..m |-> F[i]]) + Weight(m) * Number([i \in 1..(n + 1) |-> F[m + i]])
  BY <1>1, <1>6, NumberSplit
<1>16. [i \in 1..(n + 1) |-> F[m + i]] = G
  BY DEF G
<1>17. Number(F) = Number(V) + Weight(m) * (Number(E) + Weight(n) * Number(M))
  BY ONLY <1>10, <1>12, <1>13, <1>14, <1>15, <1>16
<1> QED BY <1>5, <1>17 DEF F, FieldsRead

\* What the console reads in the two bytes of a coordinate.
TwoBytes(t, value, extra) ==
  t[1] \in Nat /\ t[2] \in Nat /\ t[1] + 256 * t[2] = 32768 + (4096 * extra) + (value % 4096)

LEMMA CoordinateRead ==
  ASSUME NEW value \in Nat, NEW extra \in Nat, extra < 8
  PROVE  TwoBytes(TurnedBytes(Coordinate(value, extra)), value, extra)
<1> DEFINE m == 12  n == 3  h == 8  from == 9  N == 16
           V == Bits(value, m)  E == Bits(extra, n)  M == Bits(1, 1)
           q == Reversed(E, 1, n) \o Reversed(V, 1, m)  c == M \o q
           t == TurnedBytes(Coordinate(value, extra))
           lo == Number(Reversed(SubSeq(c, from, N), 1, h))  hi == Number(Reversed(SubSeq(c, 1, h), 1, h))
<1>1. Coordinate(value, extra) = c
  BY DEF Coordinate
<1>2. t = <<lo, hi>>
  BY <1>1 DEF TurnedBytes
<1>3. /\ m \in Nat /\ n \in Nat /\ h \in Nat /\ N = m + (n + 1) /\ N = h + h /\ from = h + 1 /\ N \in Nat
  OBVIOUS
<1>4. Weight(m) = 4096 /\ Weight(n) = 8 /\ Weight(h) = 256
  BY Weights
<1> HIDE DEF m, n, h, from, N
<1>5. V \in [1..m -> 0..1] /\ E \in [1..n -> 0..1] /\ M \in [1..1 -> 0..1]
  BY <1>3, BitsType
<1> HIDE DEF V, E, M
<1>6. V \in [1..m -> Nat] /\ E \in [1..n -> Nat] /\ M \in [1..1 -> Nat]
  <2>1. 0..1 \subseteq Nat
    OBVIOUS
  <2> QED BY <1>5, <2>1
<1>7. Reversed(E, 1, n) \in [1..n -> Nat] /\ Reversed(V, 1, m) \in [1..m -> Nat]
  BY <1>3, <1>6, ReversedWhole DEF Turns
<1>8. Joins(q, Nat, Reversed(E, 1, n), n, Reversed(V, 1, m), m)
  BY <1>3, <1>7, Joined
<1> HIDE DEF q
<1>9. q \in [1..(n + m) -> Nat] /\ n + m \in Nat
  BY <1>3, <1>8 DEF Joins
<1>10. Joins(c, Nat, M, 1, q, n + m)
  BY <1>6, <1>9, Joined
<1> HIDE DEF c
<1>11. /\ c \in [1..N -> Nat]
       /\ Number(Mirrored(c, N)) = Number(V) + Weight(m) * (Number(E) + Weight(n) * Number(M))
  <2>1. Framed(c, N, M, n, E, m, V, q)
    BY <1>3, <1>6, <1>8, <1>10 DEF Framed
  <2> QED BY <2>1, MirrorFields DEF FieldsRead
<1>12. lo \in Nat /\ hi \in Nat /\ lo + Weight(h) * hi = Number(Mirrored(c, N))
  BY <1>3, <1>11, MirrorBytes
<1> HIDE DEF lo, hi, t
<1>13. Number(E) = extra /\ Number(M) = 1
  <2>1. extra < Weight(n) /\ 1 < Weight(1)
    BY <1>4, Weights
  <2> QED BY <1>3, <2>1, NumberOfBits DEF E, M
<1>14. PICK rest \in Nat : value = Number(V) + Weight(m) * rest
  BY <1>3, LowBits DEF V
<1>15. Number(V) \in Nat /\ Number(V) < Weight(m)
  BY <1>3, LowBits DEF V
<1> DEFINE v == Number(V)  w == Number(Mirrored(c, N))
<1>16. v \in Nat /\ v < 4096 /\ value = v + 4096 * rest /\ w = v + 4096 * (extra + 8 * 1) /\ lo + 256 * hi = w
  BY <1>4, <1>11, <1>12, <1>13, <1>14, <1>15
<1> HIDE DEF v, w
<1>17. value % 4096 = v
  BY ONLY <1>16, SMT
<1>18. lo + 256 * hi = 32768 + (4096 * extra) + (value % 4096)
  BY ONLY <1>12, <1>16, <1>17, SMT
<1>19. t[1] = lo /\ t[2] = hi
  BY <1>2
<1> QED BY <1>12, <1>18, <1>19 DEF t, TwoBytes

-----------------------------------------------------------------------------
(* The bytes of the packet. *)

\* The report that is sent has an output of every kind.
LEMMA OutIs ==
  ASSUME IInv, VInv, ipc = "send", NEW kind, NEW axis
  PROVE  OutFits(kind, Out(kind, axis)) /\ (kind \notin overlapped => Bound(kind, Out(kind, axis)))
<1> DEFINE at == {j \in 1..Len(Program) : Program[j] = [kind |-> kind, axis |-> axis]}
<1>1. CASE at = {}
  <2> DEFINE r == [kind |-> kind]
  <2>1. Out(kind, axis) = Released(r) /\ r.kind = kind
    BY <1>1 DEF Out
  <2> HIDE DEF r
  <2>2. OutFits(r.kind, Released(r)) /\ Bound(r.kind, Released(r))
    BY ReleasedFits
  <2> QED BY <2>1, <2>2
<1>2. CASE at # {}
  <2> DEFINE j == CHOOSE j \in at : TRUE
  <2>1. Out(kind, axis) = report[j].out
    BY <1>2 DEF Out
  <2>2. j \in at
    BY <1>2
  <2>3. j \in 1..Len(Program) /\ Program[j] = [kind |-> kind, axis |-> axis]
    BY <2>2
  <2> HIDE DEF j
  <2>4. Program[j].kind = kind
    BY <2>3
  <2>5. j \in 1..Len(report)
    BY <2>3 DEF VInv, ReportInv, Complete
  <2>6. OutFits(kind, report[j].out) /\ (kind \notin overlapped => Bound(kind, report[j].out))
    BY <2>4, <2>5 DEF VInv, ReportInv, ReportFits, Bounded
  <2> QED BY <2>1, <2>6
<1> QED BY <1>1, <1>2

LEMMA HtonsIs ==
  ASSUME NEW n \in Nat
  PROVE  /\ Htons(n) \in [1..2 -> Nat] /\ Htons(n)[1] = (n \div 256) % 256 /\ Htons(n)[2] = n % 256
         /\ n \in UInt16 => 256 * Htons(n)[1] + Htons(n)[2] = n
<1> DEFINE a == (n \div 256) % 256  b == n % 256
<1>1. a \in Nat /\ b \in Nat
  BY SMT
<1>2. n <= 65535 => 256 * a + b = n
  BY SMT
<1>3. Htons(n) = <<a, b>>
  BY DEF Htons
<1> HIDE DEF a, b
<1>4. <<a, b>> \in [1..2 -> Nat] /\ <<a, b>>[1] = a /\ <<a, b>>[2] = b
  <2>1. <<a, b>> \in Seq(Nat) /\ Len(<<a, b>>) = 2
    BY <1>1
  <2>2. \A s \in Seq(Nat) : s \in [1..Len(s) -> Nat]
    OBVIOUS
  <2> QED BY <2>1, <2>2
<1>5. n \in UInt16 => n <= 65535
  BY DEF UInt16
<1> QED BY <1>2, <1>3, <1>4, <1>5 DEF a, b

LEMMA ZerosAre == ASSUME NEW n \in Nat PROVE Zeros(n) \in [1..n -> Nat]
  BY DEF Zeros

LEMMA OneByte == ASSUME NEW b \in Nat PROVE <<b>> \in [1..1 -> Nat] /\ <<b>>[1] = b
<1>1. <<b>> \in Seq(Nat) /\ Len(<<b>>) = 1
  OBVIOUS
<1>2. \A s \in Seq(Nat) : s \in [1..Len(s) -> Nat]
  OBVIOUS
<1> QED BY <1>1, <1>2

\* A stick has two bytes.
LEMMA SticksRead ==
  ASSUME IInv, VInv, ipc = "send"
  PROVE  /\ StickWords \in [1..8 -> Nat]
         /\ \A axis \in 1..4 :
              256 * StickWords[2 * axis - 1] + StickWords[2 * axis] = Out("joystick", axis)[1]
<1>1. ASSUME NEW axis PROVE Out("joystick", axis)[1] \in UInt16 /\ Out("joystick", axis)[1] \in Nat
  <2>1. OutFits("joystick", Out("joystick", axis))
    BY OutIs
  <2>2. UInt16 \subseteq Nat
    BY DEF UInt16
  <2> QED BY <2>1, <2>2 DEF OutFits
<1> DEFINE byte(n) == Htons(Out("joystick", (n + 1) \div 2)[1])[2 - (n % 2)]
<1>2. ASSUME NEW n \in 1..8 PROVE byte(n) \in Nat
  <2> DEFINE v == Out("joystick", (n + 1) \div 2)[1]
  <2>1. v \in Nat
    BY <1>1
  <2> HIDE DEF v
  <2>2. 2 - (n % 2) \in 1..2
    OBVIOUS
  <2>3. Htons(v) \in [1..2 -> Nat]
    BY <2>1, HtonsIs
  <2>4. Htons(v)[2 - (n % 2)] \in Nat
    BY <2>2, <2>3
  <2> QED BY <2>4 DEF v
<1>3. StickWords = [n \in 1..8 |-> byte(n)]
  BY DEF StickWords
<1>4. StickWords \in [1..8 -> Nat]
  <2> HIDE DEF byte
  <2> QED BY <1>2, <1>3
<1>5. ASSUME NEW axis \in 1..4
      PROVE  256 * StickWords[2 * axis - 1] + StickWords[2 * axis] = Out("joystick", axis)[1]
  <2> DEFINE v == Out("joystick", axis)[1]  i == 2 * axis - 1  j == 2 * axis
  <2>1. /\ i \in 1..8 /\ (i + 1) \div 2 = axis /\ 2 - (i % 2) = 1
        /\ j \in 1..8 /\ (j + 1) \div 2 = axis /\ 2 - (j % 2) = 2
    BY SMT
  <2>2. StickWords[i] = byte(i) /\ StickWords[j] = byte(j)
    <3> HIDE DEF byte, i, j
    <3> QED BY <1>3, <2>1
  <2> HIDE DEF i, j
  <2>3. byte(i) = Htons(v)[1] /\ byte(j) = Htons(v)[2]
    BY <2>1
  <2> HIDE DEF byte
  <2>4. v \in Nat /\ v \in UInt16
    BY <1>1
  <2> HIDE DEF v
  <2>5. 256 * Htons(v)[1] + Htons(v)[2] = v
    BY <2>4, HtonsIs
  <2> QED BY <2>2, <2>3, <2>5 DEF v, i, j
<1> QED BY <1>4, <1>5

\* So has a coordinate of a point, in the other order.
CoordinateAt(point, coord) ==
  LET touch == Out("touch", 0)  n == 4 * (point - 1) + 2 * (coord - 1)
  IN Touchscreen[n + 1] + 256 * Touchscreen[n + 2] =
       IF touch = <<0, 0>> THEN 0 ELSE 32768 + (4096 * Extra(point, coord)) + (touch[coord] % 4096)

LEMMA TouchRead ==
  ASSUME IInv, VInv, ipc = "send"
  PROVE  /\ Touchscreen \in [1..40 -> Nat]
         /\ \A point \in 1..10, coord \in 1..2 : CoordinateAt(point, coord)
<1> DEFINE touch == Out("touch", 0)
           turned(point, coord) == TurnedBytes(Coordinate(touch[coord], Extra(point, coord)))
           p(n) == (n - 1) \div 4 + 1
           c(n) == (((n - 1) \div 2) % 2) + 1
           b(n) == ((n - 1) % 2) + 1
           byte(n) == turned(p(n), c(n))[b(n)]
<1>1. /\ Len(touch) = 2 /\ touch[1] \in Nat /\ touch[2] \in Nat
      /\ touch = <<0, 0>> \/ (touch[1] > 0 /\ touch[2] > 0)
  <2>1. OutFits("touch", touch)
    BY OutIs
  <2>2. UInt16 \subseteq Nat
    BY DEF UInt16
  <2> HIDE DEF touch
  <2> QED BY <2>1, <2>2 DEF OutFits
<1>2. Touchscreen = IF touch[1] > 0 /\ touch[2] > 0 THEN [n \in 1..40 |-> byte(n)] ELSE Zeros(40)
  BY DEF Touchscreen
<1> HIDE DEF touch
<1>3. ASSUME NEW point, NEW coord \in 1..2
      PROVE  /\ turned(point, coord)[1] \in Nat /\ turned(point, coord)[2] \in Nat
             /\ turned(point, coord)[1] + 256 * turned(point, coord)[2] =
                  32768 + (4096 * Extra(point, coord)) + (touch[coord] % 4096)
  <2> DEFINE v == touch[coord]  e == Extra(point, coord)
  <2>1. v \in Nat
    <3>1. coord = 1 \/ coord = 2
      OBVIOUS
    <3> QED BY <1>1, <3>1
  <2>2. e \in Nat /\ e < 8
    BY DEF Extra
  <2>3. turned(point, coord) = TurnedBytes(Coordinate(v, e))
    OBVIOUS
  <2> HIDE DEF v, e, turned
  <2>4. TwoBytes(turned(point, coord), v, e)
    BY <2>1, <2>2, <2>3, CoordinateRead
  <2> QED BY <2>4 DEF v, e, TwoBytes
<1> HIDE DEF turned
<1>4. CASE touch = <<0, 0>>
  <2>1. Touchscreen = Zeros(40)
    BY <1>2, <1>4
  <2>2. Touchscreen \in [1..40 -> Nat] /\ \A n \in 1..40 : Touchscreen[n] = 0
    BY <2>1, ZerosAre DEF Zeros
  <2>3. ASSUME NEW point \in 1..10, NEW coord \in 1..2
        PROVE  LET n == 4 * (point - 1) + 2 * (coord - 1) IN Touchscreen[n + 1] + 256 * Touchscreen[n + 2] = 0
    <3> DEFINE n == 4 * (point - 1) + 2 * (coord - 1)
    <3>1. n + 1 \in 1..40 /\ n + 2 \in 1..40
      OBVIOUS
    <3> HIDE DEF n
    <3>2. Touchscreen[n + 1] = 0 /\ Touchscreen[n + 2] = 0
      BY <2>2, <3>1
    <3>3. Touchscreen[n + 1] + 256 * Touchscreen[n + 2] = 0
      BY <3>2
    <3> QED BY <3>3 DEF n
  <2> QED BY <1>4, <2>2, <2>3 DEF touch, CoordinateAt
<1>5. CASE touch # <<0, 0>>
  <2>1. Touchscreen = [n \in 1..40 |-> byte(n)]
    BY <1>1, <1>2, <1>5
  <2>2. ASSUME NEW n \in 1..40 PROVE byte(n) \in Nat
    <3>1. c(n) \in 1..2 /\ (b(n) = 1 \/ b(n) = 2)
      BY SMT
    <3> HIDE DEF c, b, p
    <3>2. turned(p(n), c(n))[1] \in Nat /\ turned(p(n), c(n))[2] \in Nat
      BY <1>3, <3>1
    <3> QED BY <3>1, <3>2
  <2>3. ASSUME NEW point \in 1..10, NEW coord \in 1..2
        PROVE  LET n == 4 * (point - 1) + 2 * (coord - 1)
               IN Touchscreen[n + 1] + 256 * Touchscreen[n + 2] =
                    32768 + (4096 * Extra(point, coord)) + (touch[coord] % 4096)
    <3> DEFINE i == 4 * (point - 1) + 2 * (coord - 1) + 1  j == 4 * (point - 1) + 2 * (coord - 1) + 2
    <3>1. /\ i \in 1..40 /\ p(i) = point /\ c(i) = coord /\ b(i) = 1
          /\ j \in 1..40 /\ p(j) = point /\ c(j) = coord /\ b(j) = 2
      <4>1. CASE coord = 1
        BY <4>1, SMT
      <4>2. CASE coord = 2
        BY <4>2, SMT
      <4> QED BY <4>1, <4>2
    <3> HIDE DEF i, j, p, c, b
    <3>2. Touchscreen[i] = turned(point, coord)[1] /\ Touchscreen[j] = turned(point, coord)[2]
      BY <2>1, <3>1
    <3>3. Touchscreen[i] + 256 * Touchscreen[j] = 32768 + (4096 * Extra(point, coord)) + (touch[coord] % 4096)
      BY <1>3, <3>2
    <3> QED BY <3>3 DEF i, j
  <2>4. Touchscreen \in [1..40 -> Nat]
    <3> HIDE DEF byte
    <3> QED BY <2>1, <2>2
  <2> QED BY <1>5, <2>3, <2>4 DEF touch, CoordinateAt
<1> QED BY <1>4, <1>5

\* t is in z after p bytes.
Within(z, N, t, p, n) ==
  /\ N \in Nat /\ p \in Nat /\ n \in Nat /\ p + n <= N /\ z \in [1..N -> Nat] /\ t \in [1..n -> Nat]
  /\ \A i \in 1..n : z[p + i] = t[i]

LEMMA PutBefore ==
  ASSUME NEW m \in Nat, NEW n \in Nat, NEW s \in [1..m -> Nat], NEW t \in [1..n -> Nat], NEW z, z = s \o t, NEW N, N = m + n
  PROVE  Within(z, N, s, 0, m) /\ Within(z, N, t, m, n) /\ z \in [1..N -> Nat]
<1>1. Joins(z, Nat, s, m, t, n)
  BY Joined
<1>2. z \in [1..N -> Nat] /\ (\A i \in 1..m : z[i] = s[i]) /\ (\A i \in 1..n : z[m + i] = t[i])
  BY <1>1 DEF Joins
<1>3. \A i \in 1..m : 0 + i = i
  OBVIOUS
<1>4. \A i \in 1..m : z[0 + i] = s[i]
  BY <1>2, <1>3
<1>5. Within(z, N, s, 0, m)
  BY <1>2, <1>4 DEF Within
<1>6. Within(z, N, t, m, n)
  <2>1. N \in Nat /\ m + n <= N
    OBVIOUS
  <2> QED BY ONLY <1>2, <2>1, m \in Nat, n \in Nat, t \in [1..n -> Nat] DEF Within
<1> QED BY <1>2, <1>5, <1>6

LEMMA PutDeeper ==
  ASSUME NEW z, NEW N, NEW y, NEW p, NEW n, Within(z, N, y, p, n), NEW t, NEW k, NEW l, Within(y, n, t, k, l)
  PROVE  Within(z, N, t, p + k, l)
<1>1. /\ N \in Nat /\ p \in Nat /\ n \in Nat /\ p + n <= N /\ z \in [1..N -> Nat]
      /\ k \in Nat /\ l \in Nat /\ k + l <= n /\ t \in [1..l -> Nat]
  BY DEF Within
<1>2. (\A i \in 1..n : z[p + i] = y[i]) /\ (\A i \in 1..l : y[k + i] = t[i])
  BY DEF Within
<1>3. \A i \in 1..l : k + i \in 1..n /\ p + (k + i) = p + k + i
  BY <1>1
<1>4. \A i \in 1..l : z[p + k + i] = t[i]
  BY <1>2, <1>3
<1>5. p + k \in Nat /\ p + k + l <= N
  BY <1>1
<1> QED BY ONLY <1>1, <1>4, <1>5 DEF Within

\* Where the packet has what.
IsPacket(z, a, b, sticks, screen, e, f) ==
  /\ a \in [1..2 -> Nat] /\ b \in [1..2 -> Nat] /\ sticks \in [1..8 -> Nat] /\ screen \in [1..40 -> Nat]
  /\ e \in [1..1 -> Nat] /\ f \in [1..1 -> Nat]
  /\ z = a \o (b \o (Zeros(2) \o (sticks \o (Zeros(1 + 6 + 9 + 6) \o (screen \o (Zeros(4) \o (e \o (Zeros(46) \o f))))))))

HasParts(z, a, b, sticks, screen, e) ==
  /\ Len(z) = 128 /\ z[1] = a[1] /\ z[2] = a[2] /\ z[3] = b[1] /\ z[4] = b[2] /\ z[81] = e[1]
  /\ (\A i \in 1..8 : z[6 + i] = sticks[i]) /\ (\A i \in 1..40 : z[36 + i] = screen[i])

LEMMA PacketParts ==
  ASSUME NEW z, NEW a, NEW b, NEW sticks, NEW screen, NEW e, NEW f, IsPacket(z, a, b, sticks, screen, e, f)
  PROVE  HasParts(z, a, b, sticks, screen, e)
<1> DEFINE k1 == 1  k2 == 2  k4 == 4  k8 == 8  k22 == 22  k40 == 40  k46 == 46
           o2 == Zeros(k2)  o22 == Zeros(k22)  o4 == Zeros(k4)  o46 == Zeros(k46)
           z8 == o46 \o f  z7 == e \o z8  z6 == o4 \o z7  z5 == screen \o z6  z4 == o22 \o z5
           z3 == sticks \o z4  z2 == o2 \o z3  z1 == b \o z2
           n8 == k46 + k1  n7 == k1 + n8  n6 == k4 + n7  n5 == k40 + n6  n4 == k22 + n5
           n3 == k8 + n4  n2 == k2 + n3  n1 == k2 + n2  n0 == k2 + n1
<1>1. z = a \o z1
  BY DEF Zeros, IsPacket
<1>2. k1 \in Nat /\ k2 \in Nat /\ k4 \in Nat /\ k8 \in Nat /\ k22 \in Nat /\ k40 \in Nat /\ k46 \in Nat
  OBVIOUS
<1>28. /\ n0 = 128 /\ k2 + 0 = 2 /\ k2 + (k2 + (k2 + 0)) = 6
       /\ k2 + (k2 + (k2 + k8)) + (k22 + 0) = 36
       /\ k2 + (k2 + (k2 + k8)) + (k22 + k40 + (k4 + 0)) = 80
  OBVIOUS
<1>3. /\ a \in [1..k2 -> Nat] /\ b \in [1..k2 -> Nat] /\ sticks \in [1..k8 -> Nat] /\ screen \in [1..k40 -> Nat]
      /\ e \in [1..k1 -> Nat] /\ f \in [1..k1 -> Nat]
  BY DEF IsPacket
<1>4. 1 \in 1..k1 /\ 1 \in 1..k2 /\ 2 \in 1..k2 /\ 1..8 = 1..k8 /\ 1..40 = 1..k40
  OBVIOUS
<1> HIDE DEF k1, k2, k4, k8, k22, k40, k46
<1>5. /\ n8 \in Nat /\ n7 \in Nat /\ n6 \in Nat /\ n5 \in Nat /\ n4 \in Nat /\ n3 \in Nat /\ n2 \in Nat /\ n1 \in Nat
      /\ n0 \in Nat
  BY <1>2
<1>6. o2 \in [1..k2 -> Nat] /\ o22 \in [1..k22 -> Nat] /\ o4 \in [1..k4 -> Nat] /\ o46 \in [1..k46 -> Nat]
  BY <1>2, ZerosAre
<1> DEFINE eq == z8 = o46 \o f /\ z7 = e \o z8 /\ z6 = o4 \o z7 /\ z5 = screen \o z6 /\ z4 = o22 \o z5
                 /\ z3 = sticks \o z4 /\ z2 = o2 \o z3 /\ z1 = b \o z2
           ne == n8 = k46 + k1 /\ n7 = k1 + n8 /\ n6 = k4 + n7 /\ n5 = k40 + n6 /\ n4 = k22 + n5
                 /\ n3 = k8 + n4 /\ n2 = k2 + n3 /\ n1 = k2 + n2 /\ n0 = k2 + n1
<1>7. eq /\ ne
  OBVIOUS
<1> HIDE DEF o2, o22, o4, o46, z1, z2, z3, z4, z5, z6, z7, z8, n0, n1, n2, n3, n4, n5, n6, n7, n8
<1>8. z8 \in [1..n8 -> Nat]
  BY ONLY <1>2, <1>3, <1>5, <1>6, <1>7, PutBefore
<1>9. Within(z7, n7, e, 0, k1) /\ z7 \in [1..n7 -> Nat]
  BY ONLY <1>2, <1>3, <1>5, <1>7, <1>8, PutBefore
<1>10. Within(z6, n6, z7, k4, n7) /\ z6 \in [1..n6 -> Nat]
  BY ONLY <1>2, <1>5, <1>6, <1>7, <1>9, PutBefore
<1>11. Within(z5, n5, screen, 0, k40) /\ Within(z5, n5, z6, k40, n6) /\ z5 \in [1..n5 -> Nat]
  BY ONLY <1>2, <1>3, <1>5, <1>7, <1>10, PutBefore
<1>12. Within(z4, n4, z5, k22, n5) /\ z4 \in [1..n4 -> Nat]
  <2>1. /\ z4 = o22 \o z5 /\ n4 = k22 + n5 /\ k22 \in Nat /\ n5 \in Nat
        /\ o22 \in [1..k22 -> Nat] /\ z5 \in [1..n5 -> Nat]
    BY ONLY <1>2, <1>5, <1>7, <1>6, <1>11
  <2> QED BY ONLY <2>1, PutBefore
<1>13. Within(z3, n3, sticks, 0, k8) /\ Within(z3, n3, z4, k8, n4) /\ z3 \in [1..n3 -> Nat]
  <2>1. /\ z3 = sticks \o z4 /\ n3 = k8 + n4 /\ k8 \in Nat /\ n4 \in Nat
        /\ sticks \in [1..k8 -> Nat] /\ z4 \in [1..n4 -> Nat]
    BY ONLY <1>2, <1>5, <1>7, <1>3, <1>12
  <2> QED BY ONLY <2>1, PutBefore
<1>14. Within(z2, n2, z3, k2, n3) /\ z2 \in [1..n2 -> Nat]
  <2>1. /\ z2 = o2 \o z3 /\ n2 = k2 + n3 /\ k2 \in Nat /\ n3 \in Nat
        /\ o2 \in [1..k2 -> Nat] /\ z3 \in [1..n3 -> Nat]
    BY ONLY <1>2, <1>5, <1>7, <1>6, <1>13
  <2> QED BY ONLY <2>1, PutBefore
<1>15. Within(z1, n1, b, 0, k2) /\ Within(z1, n1, z2, k2, n2) /\ z1 \in [1..n1 -> Nat]
  <2>1. /\ z1 = b \o z2 /\ n1 = k2 + n2 /\ k2 \in Nat /\ n2 \in Nat
        /\ b \in [1..k2 -> Nat] /\ z2 \in [1..n2 -> Nat]
    BY ONLY <1>2, <1>5, <1>7, <1>3, <1>14
  <2> QED BY ONLY <2>1, PutBefore
<1>16. Within(z, n0, a, 0, k2) /\ Within(z, n0, z1, k2, n1)
  BY ONLY <1>1, <1>2, <1>3, <1>5, <1>7, <1>15, PutBefore
<1>17. Within(z, n0, b, k2 + 0, k2)
  BY ONLY <1>15, <1>16, PutDeeper
<1>18. Within(z2, n2, sticks, k2 + 0, k8) /\ Within(z2, n2, z4, k2 + k8, n4)
  BY ONLY <1>13, <1>14, PutDeeper
<1>19. Within(z1, n1, sticks, k2 + (k2 + 0), k8) /\ Within(z1, n1, z4, k2 + (k2 + k8), n4)
  BY ONLY <1>15, <1>18, PutDeeper
<1>20. Within(z, n0, sticks, k2 + (k2 + (k2 + 0)), k8) /\ Within(z, n0, z4, k2 + (k2 + (k2 + k8)), n4)
  BY ONLY <1>16, <1>19, PutDeeper
<1>21. Within(z4, n4, screen, k22 + 0, k40) /\ Within(z4, n4, z6, k22 + k40, n6)
  BY ONLY <1>11, <1>12, PutDeeper
<1>22. Within(z6, n6, e, k4 + 0, k1)
  BY ONLY <1>9, <1>10, PutDeeper
<1>23. Within(z4, n4, e, k22 + k40 + (k4 + 0), k1)
  BY ONLY <1>21, <1>22, PutDeeper
<1>24. /\ Within(z, n0, screen, k2 + (k2 + (k2 + k8)) + (k22 + 0), k40)
       /\ Within(z, n0, e, k2 + (k2 + (k2 + k8)) + (k22 + k40 + (k4 + 0)), k1)
  BY ONLY <1>20, <1>21, <1>23, PutDeeper
<1>25. Within(z, 128, screen, 36, k40) /\ Within(z, 128, e, 80, k1)
  BY ONLY <1>28, <1>24
<1>26. Within(z, 128, a, 0, k2) /\ Within(z, 128, b, 2, k2) /\ Within(z, 128, sticks, 6, k8)
  BY ONLY <1>28, <1>16, <1>17, <1>20
<1>27. (\A i \in 1..k8 : z[6 + i] = sticks[i]) /\ (\A i \in 1..k40 : z[36 + i] = screen[i])
  BY ONLY <1>25, <1>26 DEF Within
<1>29. /\ \A i \in 1..k2 : z[0 + i] = a[i]
       /\ \A i \in 1..k2 : z[2 + i] = b[i]
       /\ \A i \in 1..k1 : z[80 + i] = e[i]
  BY ONLY <1>25, <1>26 DEF Within
<1>30. z[0 + 1] = a[1] /\ z[0 + 2] = a[2] /\ z[2 + 1] = b[1] /\ z[2 + 2] = b[2] /\ z[80 + 1] = e[1]
  BY ONLY <1>4, <1>29
<1>31. z[1] = a[1] /\ z[2] = a[2] /\ z[3] = b[1] /\ z[4] = b[2] /\ z[81] = e[1]
  BY ONLY <1>30
<1>32. Len(z) = 128
  <2> DEFINE k == 128
  <2>1. Within(z, k, a, 0, k2)
    BY <1>26
  <2> HIDE DEF k
  <2>2. z \in [1..k -> Nat] /\ k \in Nat
    BY <2>1 DEF Within
  <2>3. Len(z) = k
    BY ONLY <2>2, LengthOf
  <2> QED BY ONLY <2>3 DEF k
<1>33. (\A i \in 1..8 : z[6 + i] = sticks[i]) /\ (\A i \in 1..40 : z[36 + i] = screen[i])
  BY ONLY <1>4, <1>27
<1> QED BY ONLY <1>31, <1>32, <1>33 DEF HasParts

LEMMA Understood == IInv /\ VInv => ReportUnderstood
<1> SUFFICES ASSUME IInv, VInv, ipc = "send"
             PROVE  LET packet == Packet  touch == Out("touch", 0) IN
               /\ Len(packet) = 128 /\ Word(packet, 1) = seq_id
               /\ Word(packet, 3) = Out("button", 0)[1] /\ packet[81] = Out("extra", 0)[1]
               /\ \A axis \in 1..4 : Word(packet, 5 + 2 * axis) = Out("joystick", axis)[1]
               /\ \A point \in 1..10, coord \in 1..2 :
                    Screen(packet, point, coord) =
                      IF touch = <<0, 0>> THEN 0 ELSE 32768 + 4096 * Extra(point, coord) + (touch[coord] % 4096)
               /\ "touch" \notin overlapped => touch[1] < 4096 /\ touch[2] < 4096
               /\ InBounds
  BY DEF ReportUnderstood
<1> DEFINE touch == Out("touch", 0)  button == Out("button", 0)[1]  extra == Out("extra", 0)[1]
           a == Htons(seq_id)  b == Htons(button)  e == <<extra % 256>>  z == Packet
<1>1. seq_id \in Nat /\ seq_id \in UInt16
  <2>1. seq_id \in 0..(SeqMod - 1) /\ SeqMod \in Nat /\ SeqMod <= 65536
    BY InputAssumption DEF IInv, TypeOK, ReaderTypes
  <2>2. seq_id \in Nat /\ seq_id <= 65535
    BY ONLY <2>1
  <2> QED BY ONLY <2>2, SMT DEF UInt16
<1>2. button \in UInt16 /\ extra \in UInt8
  <2>1. OutFits("button", Out("button", 0)) /\ OutFits("extra", Out("extra", 0))
    BY OutIs
  <2> QED BY <2>1 DEF OutFits
<1>3. button \in Nat /\ extra \in Nat /\ extra % 256 = extra
  <2> HIDE DEF button, extra
  <2>1. button \in Nat
    BY <1>2 DEF UInt16
  <2>2. extra \in Nat /\ extra <= 255
    BY <1>2 DEF UInt8
  <2>3. extra % 256 = extra
    BY ONLY <2>2, SMT
  <2> QED BY <2>1, <2>2, <2>3
<1>4. touch = <<0, 0>> \/ touch # <<0, 0>>
  OBVIOUS
<1>5. ASSUME "touch" \notin overlapped PROVE touch[1] < 4096 /\ touch[2] < 4096
  <2>1. Bound("touch", touch)
    BY <1>5, OutIs
  <2> HIDE DEF touch
  <2>2. touch = <<0, 0>> \/ \A i \in 1..2 : touch[i] \in 120..4000
    BY <2>1 DEF Bound
  <2>3. CASE touch = <<0, 0>>
    BY <2>3
  <2>4. CASE \A i \in 1..2 : touch[i] \in 120..4000
    <3> DEFINE x == touch[1]  y == touch[2]
    <3>1. x \in 120..4000 /\ y \in 120..4000
      BY <2>4
    <3> HIDE DEF x, y
    <3>2. x < 4096 /\ y < 4096
      BY ONLY <3>1
    <3> QED BY <3>2 DEF x, y
  <2> QED BY <2>2, <2>3, <2>4
<1>6. /\ StickWords \in [1..8 -> Nat] /\ Touchscreen \in [1..40 -> Nat]
  BY SticksRead, TouchRead
<1>7. a \in [1..2 -> Nat] /\ b \in [1..2 -> Nat]
  <2> HIDE DEF button
  <2> QED BY <1>1, <1>3, HtonsIs
<1>8. e \in [1..1 -> Nat] /\ e[1] = extra /\ <<215>> \in [1..1 -> Nat]
  <2> HIDE DEF extra
  <2> DEFINE last == 215
  <2>1. last \in Nat
    OBVIOUS
  <2>2. <<last>> \in [1..1 -> Nat]
    <3> HIDE DEF last
    <3> QED BY <2>1, OneByte
  <2>3. e = <<extra>>
    BY <1>3
  <2> QED BY <1>3, <2>2, <2>3, OneByte
<1>9. z = a \o (b \o (Zeros(2) \o (StickWords \o (Zeros(1 + 6 + 9 + 6) \o
            (Touchscreen \o (Zeros(4) \o (e \o (Zeros(46) \o <<215>>))))))))
  BY DEF Packet
<1> HIDE DEF a, b, e, z
<1>10. HasParts(z, a, b, StickWords, Touchscreen, e)
  <2>1. IsPacket(z, a, b, StickWords, Touchscreen, e, <<215>>)
    BY <1>6, <1>7, <1>8, <1>9, Zenon DEF IsPacket
  <2> QED BY <2>1, PacketParts
<1>11. Len(z) = 128 /\ z[1] = a[1] /\ z[2] = a[2] /\ z[3] = b[1] /\ z[4] = b[2] /\ z[81] = e[1]
  BY ONLY <1>10 DEF HasParts
<1>12. Word(z, 1) = seq_id
  <2>1. 256 * a[1] + a[2] = seq_id
    BY <1>1, HtonsIs DEF a
  <2> QED BY <1>11, <2>1 DEF Word
<1>13. Word(z, 3) = button
  <2>1. 256 * b[1] + b[2] = button
    <3> HIDE DEF button
    <3> QED BY <1>2, <1>3, HtonsIs DEF b
  <2> QED BY <1>11, <2>1 DEF Word
<1>14. ASSUME NEW axis \in 1..4 PROVE Word(z, 5 + 2 * axis) = Out("joystick", axis)[1]
  <2> DEFINE i == 2 * axis - 1  j == 2 * axis  k == 5 + 2 * axis
  <2>1. i \in 1..8 /\ j \in 1..8 /\ k = 6 + i /\ k + 1 = 6 + j
    OBVIOUS
  <2>2. 256 * StickWords[i] + StickWords[j] = Out("joystick", axis)[1]
    BY SticksRead
  <2> HIDE DEF i, j, k
  <2>3. z[6 + i] = StickWords[i] /\ z[6 + j] = StickWords[j]
    BY ONLY <1>10, <2>1 DEF HasParts
  <2>4. Word(z, k) = Out("joystick", axis)[1]
    BY <2>1, <2>2, <2>3 DEF Word
  <2> QED BY <2>4 DEF k
<1>15. ASSUME NEW point \in 1..10, NEW coord \in 1..2
       PROVE  Screen(z, point, coord) =
                IF touch = <<0, 0>> THEN 0 ELSE 32768 + (4096 * Extra(point, coord)) + (touch[coord] % 4096)
  <2> DEFINE n == 4 * (point - 1) + 2 * (coord - 1)  i == n + 1  j == n + 2  k == 37 + 4 * (point - 1) + 2 * (coord - 1)
  <2>1. i \in 1..40 /\ j \in 1..40 /\ k = 36 + i /\ k + 1 = 36 + j
    OBVIOUS
  <2>2. Touchscreen[i] + 256 * Touchscreen[j] =
          IF touch = <<0, 0>> THEN 0 ELSE 32768 + (4096 * Extra(point, coord)) + (touch[coord] % 4096)
    <3>1. CoordinateAt(point, coord)
      BY TouchRead
    <3> QED BY <3>1 DEF CoordinateAt
  <2> HIDE DEF i, j, k, touch
  <2>3. z[36 + i] = Touchscreen[i] /\ z[36 + j] = Touchscreen[j]
    BY ONLY <1>10, <2>1 DEF HasParts
  <2>4. Screen(z, point, coord) = z[k] + 256 * z[k + 1]
    BY DEF Screen, k
  <2> QED BY <2>1, <2>2, <2>3, <2>4
<1>16. InBounds
  BY BoundedIs DEF VInv, ReportInv
<1>17. z[81] = extra
  BY <1>8, <1>11
<1> HIDE DEF touch, button, extra
<1> QED BY <1>5, <1>11, <1>12, <1>13, <1>14, <1>15, <1>16, <1>17 DEF z, touch, button, extra

-----------------------------------------------------------------------------
(* The theorems. *)

\* Types.
THEOREM TypeCorrect == Spec => []TypeOK
  BY Invariant, PTL DEF IInv

\* An input is reported only until Delay after it was stored, unless the report
\* met the server thread storing an input of that kind (is_input_within_time).
THEOREM ReportsFreshHolds == Spec => []ReportsFresh
<1>1. IInv => ReportsFresh
  <2> SUFFICES ASSUME IInv, NEW j \in 1..Len(report), Program[j].kind \notin overlapped,
                      NEW id \in report[j].from
               PROVE  id > 0 /\ report[j].time - stamps[id] <= Delay
    BY DEF ReportsFresh
  <2> DEFINE k == Program[j].kind  t == report[j].time
  <2>1. k \in Kinds /\ k \notin overlapped
    <3>1. j \in 1..Len(Program)
      BY ProgramReads DEF IInv, TypeOK, ReaderTypes
    <3> QED BY <3>1, ProgramReads
  <2>2. ipc \notin {"poll", "start"}
    <3>1. report # <<>>
      OBVIOUS
    <3> QED BY <3>1 DEF IInv, Explained
  <2>3. t \in Nat /\ t >= Second
    <3>1. report[j] \in Entry
      BY DEF IInv, TypeOK, ReaderTypes
    <3> QED BY <3>1 DEF Entry, IInv, Explained
  <2>4. id = Stamp(k) /\ WithinTime(tv_sec[k], tv_nsec[k], t)
    BY <2>1 DEF IInv, Explained
  <2> HIDE DEF k, t
  <2>5. /\ Stamp(k) \in 0..Len(stamps)
        /\ IF Stamp(k) = 0 THEN tv_sec[k] = 0 /\ tv_nsec[k] = 0
           ELSE /\ stamps[Stamp(k)] \in 0..now
                /\ tv_sec[k] = Sec(stamps[Stamp(k)]) /\ tv_nsec[k] = Nsec(stamps[Stamp(k)])
    BY <2>1, <2>2, Quiet
  <2>6. Stamp(k) # 0
    BY <2>3, <2>4, <2>5, NeverStored
  <2>7. stamps[id] \in 0..now
    BY <2>4, <2>5, <2>6
  <2>8. stamps[id] \in Nat /\ WithinTime(Sec(stamps[id]), Nsec(stamps[id]), t)
    <3>1. 0..now \subseteq Nat
      OBVIOUS
    <3> QED BY <2>4, <2>5, <2>6, <2>7, <3>1
  <2>9. t - stamps[id] <= Delay
    BY <2>3, <2>8, WithinIsFresh
  <2>10. id > 0
    BY <2>4, <2>5, <2>6
  <2> QED BY <2>9, <2>10 DEF t
<1> QED BY <1>1, Invariant, PTL

\* In a report the axes come last.
LEMMA SticksLast ==
  ASSUME NEW i \in 1..Len(Program), NEW j \in 1..Len(Program), i < j, Program[i].kind = "joystick"
  PROVE  Program[j].kind = "joystick"
<1> DEFINE Last(s) == \A a, b \in 1..Len(s) : a < b /\ s[a].kind = "joystick" => s[b].kind = "joystick"
<1>1. ASSUME NEW k, k # "joystick", NEW s \in Seq(Read), Last(s)
      PROVE  One(k) \o s \in Seq(Read) /\ Last(One(k) \o s)
  <2>1. CASE k \in Kinds
    <3> DEFINE r == [kind |-> k, axis |-> 0]
    <3>1. r \in Read /\ r.kind = k
      BY <1>1, <2>1 DEF Read
    <3> HIDE DEF r
    <3> DEFINE q == <<r>> \o s
    <3>2. /\ q \in Seq(Read) /\ Len(q) = Len(s) + 1 /\ Len(s) \in Nat /\ q[1] = r
          /\ \A a \in 1..Len(s) : q[a + 1] = s[a]
      BY <3>1
    <3> HIDE DEF q
    <3>3. ASSUME NEW a \in 1..Len(q), NEW b \in 1..Len(q), a < b, q[a].kind = "joystick"
          PROVE  q[b].kind = "joystick"
      <4>1. a # 1 /\ a - 1 \in 1..Len(s) /\ b - 1 \in 1..Len(s) /\ a - 1 < b - 1
        BY <1>1, <3>1, <3>2, <3>3
      <4>2. q[a] = s[a - 1] /\ q[b] = s[b - 1]
        <5>1. (a - 1) + 1 = a /\ (b - 1) + 1 = b
          OBVIOUS
        <5> QED BY <3>2, <4>1, <5>1
      <4> QED BY <1>1, <3>3, <4>1, <4>2
    <3> QED BY <2>1, <3>2, <3>3 DEF One, q, r
  <2>2. CASE k \notin Kinds
    <3>1. One(k) \o s = s
      BY <2>2 DEF One
    <3> QED BY <1>1, <3>1
  <2> QED BY <2>1, <2>2
<1>2. Stick \in Seq(Read) /\ Last(Stick)
  <2>1. CASE "joystick" \in Kinds
    <3>1. \A a \in 1..Axes : [kind |-> "joystick", axis |-> a] \in Read
      BY <2>1, InputAssumption DEF Read
    <3>2. Axes \in Nat
      BY InputAssumption
    <3> QED BY <2>1, <3>1, <3>2 DEF Stick
  <2>2. CASE "joystick" \notin Kinds
    BY <2>2 DEF Stick
  <2> QED BY <2>1, <2>2
<1> HIDE DEF Last
<1>3. One("extra") \o Stick \in Seq(Read) /\ Last(One("extra") \o Stick)
  BY <1>1, <1>2
<1>4. /\ One("button") \o (One("extra") \o Stick) \in Seq(Read)
      /\ Last(One("button") \o (One("extra") \o Stick))
  BY <1>1, <1>3
<1>5. Last(Program)
  BY <1>1, <1>4 DEF Program
<1> QED BY <1>5 DEF Last

\* The four axes of a report come from one input: it may expire on the way, but a
\* report never mixes two, unless it met one being stored (the joystick loop of
\* send_hid_update).
THEOREM AxesOfOneInputHolds == Spec => []AxesOfOneInput
<1>1. IInv => AxesOfOneInput
  <2> SUFFICES ASSUME IInv, NEW i \in 1..Len(report), NEW j \in 1..Len(report),
                      "joystick" \notin overlapped, i < j, Program[i].kind = "joystick",
                      report[j].from # {}
               PROVE  report[i].from = report[j].from
    BY DEF AxesOfOneInput
  <2> DEFINE k == "joystick"  t == report[i].time  u == report[j].time
  <2>1. Program[j].kind = k /\ k \in Kinds
    <3>1. i \in 1..Len(Program) /\ j \in 1..Len(Program)
      BY ProgramReads DEF IInv, TypeOK, ReaderTypes
    <3> QED BY <3>1, ProgramReads, SticksLast
  <2>2. ipc \notin {"poll", "start"}
    <3>1. report # <<>>
      OBVIOUS
    <3> QED BY <3>1 DEF IInv, Explained
  <2>3. t \in Nat /\ u \in Nat /\ t <= u /\ t >= Second /\ u >= Second
    <3>1. report[i] \in Entry /\ report[j] \in Entry
      BY DEF IInv, TypeOK, ReaderTypes
    <3>2. t <= u /\ t >= Second /\ u >= Second
      BY DEF IInv, Explained
    <3> QED BY <3>1, <3>2 DEF Entry
  <2>4. report[j].from = {Stamp(k)} /\ WithinTime(tv_sec[k], tv_nsec[k], u)
    BY <2>1 DEF IInv, Explained
  <2>5. /\ Stamp(k) > 0 => stamps[Stamp(k)] <= t
        /\ \/ report[i].from = {} /\ ~WithinTime(tv_sec[k], tv_nsec[k], t)
           \/ report[i].from = {Stamp(k)}
    BY DEF IInv, Explained
  <2> HIDE DEF k, t, u
  <2>6. /\ Stamp(k) \in 0..Len(stamps)
        /\ IF Stamp(k) = 0 THEN tv_sec[k] = 0 /\ tv_nsec[k] = 0
           ELSE /\ stamps[Stamp(k)] \in 0..now
                /\ tv_sec[k] = Sec(stamps[Stamp(k)]) /\ tv_nsec[k] = Nsec(stamps[Stamp(k)])
    BY <2>1, <2>2, Quiet DEF k
  <2>7. Stamp(k) > 0
    <3>1. Stamp(k) # 0
      BY <2>3, <2>4, <2>6, NeverStored
    <3> QED BY <2>6, <3>1
  <2>8. WithinTime(tv_sec[k], tv_nsec[k], t)
    <3> DEFINE s == stamps[Stamp(k)]
    <3>1. s \in Nat /\ s <= t /\ tv_sec[k] = Sec(s) /\ tv_nsec[k] = Nsec(s)
      <4>1. 0..now \subseteq Nat
        OBVIOUS
      <4> QED BY <2>5, <2>6, <2>7, <4>1
    <3> HIDE DEF s
    <3> QED BY <2>3, <2>4, <3>1, ExpiredStays
  <2> QED BY <2>4, <2>5, <2>8
<1> QED BY <1>1, Invariant, PTL

\* Whenever the interval has passed, a report is due: the seconds are compared
\* before the nanoseconds, so no report waits for the clock to come round
\* (Input::update).
THEOREM NeverLateHolds == Spec => []NeverLate
<1>1. IInv => NeverLate
  <2>1. IInv => last_sent_time \in Nat /\ now \in Nat /\ last_sent_time <= now
    BY DEF IInv, TypeOK, ReaderTypes
  <2> QED BY <2>1, DueInTime DEF NeverLate
<1> QED BY <1>1, Invariant, PTL

\* Two reports are nearer than the interval only across the turn of a second
\* (Input::update).
THEOREM EarlyOnlyAtSecondHolds == Spec => EarlyOnlyAtSecond
<1>1. IInv /\ [Next]_vars =>
        [ipc = "poll" /\ ipc' = "start" =>
           now - last_sent_time >= Interval \/ Sec(now) > Sec(last_sent_time)]_vars
  <2> SUFFICES ASSUME IInv, Next, ipc = "poll", ipc' = "start"
               PROVE  now - last_sent_time >= Interval \/ Sec(now) > Sec(last_sent_time)
    OBVIOUS
  <2>1. Poll
    <3>1. CASE Tick \/ SetterStep
      BY <3>1 DEF Tick, SetterStep, BeginSet, StampNsec, StoreField, reader
    <3>2. CASE ReportStep
      BY <3>2 DEF ReportStep, Start, LoadSec, FindExpired, FindInTime, LoadField, Evaluate, Crash, Send, AllLoaded
    <3> QED BY <3>1, <3>2 DEF Next
  <2>2. last_sent_time \in Nat /\ now \in Nat /\ last_sent_time <= now
    BY DEF IInv, TypeOK, ReaderTypes
  <2> QED BY <2>1, <2>2, DueInTime DEF Poll
<1> QED BY <1>1, Invariant, PTL DEF Spec, EarlyOnlyAtSecond

\* The console reads in the bits of a report what the report has, nothing of it is cut
\* off but for a touch that met a store, and it is within the ranges of the console
\* (send_hid_update, InputPacketHeaderWiiU).
THEOREM ReportUnderstoodHolds == Spec => []ReportUnderstood
  BY Invariant, WholeInvariant, Understood, PTL

\* The sticks and the touch of a report are within the console's ranges at every step
\* of it, not only when it is sent (translate_bounds, get_joystick_input).
THEOREM InBoundsHolds == Spec => []InBounds
<1>1. VInv => InBounds
  BY BoundedIs DEF VInv, ReportInv
<1> QED BY <1>1, WholeInvariant, PTL

\* translate_bounds never divides by a width or height of 0, unless the report met a
\* touch being stored.
THEOREM CrashNeedsOverlapHolds == Spec => []CrashNeedsOverlap
<1>1. VInv => CrashNeedsOverlap
  BY DEF VInv
<1> QED BY <1>1, WholeInvariant, PTL
=============================================================================
