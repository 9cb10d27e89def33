-------------------------- MODULE SocketStateProofs -------------------------
(***************************************************************************)
(* What a socket keeps for itself, for any values of the bounds: the pipe  *)
(* keeps its mark and implements the channel, datagrams go where they are  *)
(* meant to, NORM sessions die before their instances, a monitor owns its  *)
(* name, the options stay consistent, and WebSocket streams stay in step.  *)
(* Each part has an inductive invariant of its own, which the steps of the *)
(* others leave alone.                                                     *)
(***************************************************************************)
EXTENDS MCSocketState, SequenceTheorems, TLAPS

IInv == TypeOK /\ DelimiterIsLast /\ WithinHwm

(* An open pipe has no delimiter in it, so all its frames are unread items. *)
LEMMA OpenHasNoDelimiter ==
  ASSUME TypeOK, DelimiterIsLast, ~terminated
  PROVE  ~Ending /\ Unread = queue
  BY DEF TypeOK, DelimiterIsLast, Ending, Unread

(* What is left to read after the first of several frames was read. *)
LEMMA TailFrames ==
  ASSUME NEW F, NEW q \in Seq(F), q # <<>>
  PROVE  /\ Tail(q) \in Seq(F)
         /\ Len(Tail(q)) = Len(q) - 1
         /\ \A i \in 1..Len(q) - 1 : Tail(q)[i] = q[i + 1]
  OBVIOUS

LEMMA AppendFrames ==
  ASSUME NEW F, NEW q \in Seq(F), NEW x \in F
  PROVE  /\ Append(q, x) \in Seq(F)
         /\ Len(Append(q, x)) = Len(q) + 1
         /\ Append(q, x)[Len(q) + 1] = x
         /\ \A i \in 1..Len(q) : Append(q, x)[i] = q[i]
  OBVIOUS

(* The frames before the last one. *)
LEMMA FrontFrames ==
  ASSUME NEW F, NEW q \in Seq(F), q # <<>>
  PROVE  /\ SubSeq(q, 1, Len(q) - 1) \in Seq(F)
         /\ Len(SubSeq(q, 1, Len(q) - 1)) = Len(q) - 1
         /\ \A i \in 1..Len(q) - 1 : SubSeq(q, 1, Len(q) - 1)[i] = q[i]
  <1> DEFINE n == Len(q) - 1
             front == SubSeq(q, 1, n)
  <1>1. n \in Nat OBVIOUS
  <1>2. \A i \in 1..n : q[i] \in F OBVIOUS
  <1>3. /\ front \in Seq(F)
        /\ Len(front) = IF 1 <= n THEN n - 1 + 1 ELSE 0
        /\ \A i \in 1..n - 1 + 1 : front[i] = q[1 + i - 1]
    <2> HIDE DEF n
    <2>1. n \in Int /\ 1 \in Int BY <1>1
    <2> QED BY <1>2, <2>1, SubSeqProperties
  <1>4. Len(front) = n
    <2> HIDE DEF n, front
    <2> QED BY <1>1, <1>3
  <1>5. ASSUME NEW i \in 1..n PROVE front[i] = q[i]
    <2> HIDE DEF n, front
    <2>1. i \in 1..n - 1 + 1 /\ 1 + i - 1 = i BY <1>1
    <2>2. front[i] = q[1 + i - 1] BY <1>3, <2>1
    <2> QED BY <2>1, <2>2
  <1> QED BY <1>3, <1>4, <1>5

Frames == Items \cup {Delimiter}

LEMMA UnreadLen ==
  ASSUME TypeOK
  PROVE  Len(Unread) = IF Ending THEN Len(queue) - 1 ELSE Len(queue)
  <1>1. queue \in Seq(Frames) BY DEF TypeOK, Frames
  <1>2. CASE Ending
    <2>1. queue # <<>> BY <1>2 DEF Ending
    <2> QED BY <1>1, <1>2, <2>1, FrontFrames DEF Unread
  <1>3. CASE ~Ending BY <1>3 DEF Unread
  <1> QED BY <1>2, <1>3

(* The three parts are inductive together: the mark counts the items, and     *)
(* only an open pipe, which has no delimiter, takes another one.              *)
THEOREM InvHolds == Spec => []IInv
<1> USE HwmAssumption, DelimiterAssumption
<1>1. Init => IInv
  <2> SUFFICES ASSUME Init PROVE IInv
    OBVIOUS
  <2>1. /\ queue = <<>> /\ conflate = FALSE /\ terminated = FALSE
        /\ wrote = FALSE /\ took = FALSE
    BY Zenon DEF Init
  <2>2. TypeOK
    <3>1. <<>> \in Seq(Items \cup {Delimiter}) OBVIOUS
    <3> QED BY <2>1, <3>1, Zenon DEF TypeOK
  <2>3. DelimiterIsLast BY <2>1 DEF DelimiterIsLast
  <2>4. ~Ending BY <2>1 DEF Ending
  <2>5. Len(Unread) = 0 BY <2>1, <2>4 DEF Unread
  <2> QED BY <2>2, <2>3, <2>5 DEF IInv, WithinHwm
<1>2. IInv /\ [Next]_yvars => IInv'
  <2> SUFFICES ASSUME IInv, [Next]_yvars PROVE IInv'
    OBVIOUS
  <2>0. /\ queue \in Seq(Frames) /\ conflate \in BOOLEAN /\ terminated \in BOOLEAN
        /\ wrote \in BOOLEAN /\ took \in BOOLEAN
        /\ Delimiter \in Frames /\ \A x \in Items : x \in Frames /\ x # Delimiter
    BY DEF IInv, TypeOK, Frames
  <2>L. TypeOK => Len(Unread) = IF Ending THEN Len(queue) - 1 ELSE Len(queue)
    BY UnreadLen
  <2>M. TypeOK' => Len(Unread') = IF Ending' THEN Len(queue') - 1 ELSE Len(queue')
    <3> SUFFICES ASSUME TypeOK'
                 PROVE  Len(Unread') = IF Ending' THEN Len(queue') - 1 ELSE Len(queue')
      OBVIOUS
    <3>1. queue' \in Seq(Frames) BY DEF TypeOK, Frames
    <3>2. CASE Ending'
      <4>1. queue' # <<>> BY <3>2 DEF Ending
      <4> QED BY <3>1, <3>2, <4>1, FrontFrames DEF Unread
    <3>3. CASE ~Ending' BY <3>3 DEF Unread
    <3> QED BY <3>2, <3>3
  <2>1. ASSUME NEW on \in BOOLEAN, SetConflate(on) PROVE IInv'
    BY <2>1 DEF SetConflate, IInv, TypeOK, DelimiterIsLast, WithinHwm, Unread, Ending
  <2>2. ASSUME NEW x \in Items, Write(x) PROVE IInv'
    <3>1. ~terminated /\ ~Full /\ terminated' = terminated /\ conflate' = conflate
          /\ queue' = IF conflate THEN <<x>> ELSE Append(queue, x)
      BY <2>2 DEF Write, Written
    <3>8. wrote' \in BOOLEAN /\ took' \in BOOLEAN BY <2>0, <2>2, Zenon DEF Write
    <3>2. ~Ending /\ Unread = queue
      BY <3>1, OpenHasNoDelimiter DEF IInv
    <3>3. \A i \in 1..Len(queue) : queue[i] # Delimiter
      BY <3>1 DEF IInv, DelimiterIsLast
    <3>4. queue' \in Seq(Frames) /\ Len(queue') \in Nat /\ queue' # <<>>
          /\ \A i \in 1..Len(queue') : queue'[i] # Delimiter
      <4>1. CASE conflate
        <5>1. queue' = <<x>> BY <3>1, <4>1
        <5> QED BY <5>1, <2>0
      <4>2. CASE ~conflate
        <5>1. queue' = Append(queue, x) BY <3>1, <4>2
        <5>2. x \in Frames /\ x # Delimiter BY <2>0
        <5>3. /\ queue' \in Seq(Frames) /\ Len(queue') = Len(queue) + 1
              /\ queue'[Len(queue) + 1] = x
              /\ \A i \in 1..Len(queue) : queue'[i] = queue[i]
          BY <5>1, <5>2, <2>0, AppendFrames
        <5>4. Len(queue) \in Nat BY <2>0
        <5> QED BY <5>2, <5>3, <5>4, <3>3
      <4> QED BY <4>1, <4>2
    <3>5. TypeOK' BY <3>1, <3>4, <3>8, <2>0 DEF TypeOK, Frames
    <3>6. ~Ending' BY <3>4 DEF Ending
    <3>7. Hwm > 0 => Len(queue') <= Hwm
      <4>1. CASE conflate
        <5>1. Len(queue') = 1 BY <3>1, <4>1
        <5> QED BY <5>1
      <4>2. CASE ~conflate
        <5>1. queue' = Append(queue, x) /\ x \in Frames BY <3>1, <4>2, <2>0
        <5>2. Len(queue') = Len(queue) + 1 BY <5>1, <2>0, AppendFrames
        <5>3. Hwm > 0 => Len(queue) < Hwm
          BY <3>1, <4>2, <2>0 DEF Full
        <5> QED BY <5>2, <5>3, <2>0
      <4> QED BY <4>1, <4>2
    <3> QED BY <3>4, <3>5, <3>6, <3>7, <2>M DEF IInv, DelimiterIsLast, WithinHwm
  <2>3. CASE WriteDelimiter
    <3>1. ~terminated /\ terminated' /\ terminated' \in BOOLEAN /\ conflate' = conflate
          /\ queue' = Append(queue, Delimiter) /\ UNCHANGED <<wrote, took>>
      BY <2>3 DEF WriteDelimiter
    <3>2. Unread = queue BY <3>1, OpenHasNoDelimiter DEF IInv
    <3>3. \A i \in 1..Len(queue) : queue[i] # Delimiter
      BY <3>1 DEF IInv, DelimiterIsLast
    <3>4. /\ queue' \in Seq(Frames) /\ Len(queue') = Len(queue) + 1
          /\ queue'[Len(queue) + 1] = Delimiter
          /\ \A i \in 1..Len(queue) : queue'[i] = queue[i]
      BY <3>1, <2>0, AppendFrames
    <3>5. Len(queue) \in Nat BY <2>0
    <3>6. TypeOK' BY <3>1, <3>4, <2>0 DEF TypeOK, Frames
    <3>7. Ending' BY <3>4, <3>5 DEF Ending
    <3>8. DelimiterIsLast' BY <3>1, <3>3, <3>4, <3>5 DEF DelimiterIsLast
    <3>9. Len(Unread') = Len(queue) BY <3>4, <3>5, <3>6, <3>7, <2>M
    <3> QED BY <3>2, <3>6, <3>8, <3>9 DEF IInv, WithinHwm
  <2>4. CASE Read
    <3>1. queue # <<>> /\ queue' = Tail(queue) /\ conflate' = conflate
          /\ terminated' = terminated /\ took' = ~took /\ wrote' = wrote
      BY <2>4 DEF Read
    <3>2. /\ queue' \in Seq(Frames) /\ Len(queue') = Len(queue) - 1
          /\ \A i \in 1..Len(queue) - 1 : queue'[i] = queue[i + 1]
      BY <3>1, <2>0, TailFrames
    <3>3. Len(queue) \in Nat /\ Len(queue) >= 1 BY <3>1, <2>0
    <3>4. TypeOK' BY <3>1, <3>2, <2>0 DEF TypeOK, Frames
    <3>5. DelimiterIsLast'
      <4> SUFFICES ASSUME NEW i \in 1..Len(queue'), queue'[i] = Delimiter
                   PROVE  i = Len(queue') /\ terminated'
        BY DEF DelimiterIsLast
      <4>1. i + 1 \in 1..Len(queue) /\ i \in 1..Len(queue) - 1 BY <3>2, <3>3
      <4>2. queue[i + 1] = Delimiter BY <4>1, <3>2
      <4>3. i + 1 = Len(queue) /\ terminated BY <4>1, <4>2 DEF IInv, DelimiterIsLast
      <4>4. i = Len(queue') BY <4>1, <4>3, <3>2, <3>3
      <4> QED BY <4>3, <4>4, <3>1
    <3>6. Ending /\ Len(queue) > 1 => Ending'
      BY <3>2, <3>3 DEF Ending
    <3>7. TypeOK BY DEF IInv
    <3>8. Len(Unread') <= Len(Unread)
      BY <3>2, <3>3, <3>4, <3>6, <3>7, <2>L, <2>M DEF Ending
    <3>9. Len(Unread) \in Nat /\ Len(Unread') \in Nat
      BY <3>2, <3>3, <3>4, <3>7, <2>L, <2>M DEF Ending
    <3> QED BY <3>4, <3>5, <3>8, <3>9 DEF IInv, WithinHwm
  <2>5. CASE Terminate
    <3>1. queue' = <<>> /\ terminated' = TRUE /\ UNCHANGED <<conflate, wrote, took>>
      BY <2>5 DEF Terminate
    <3> QED BY <3>1, <2>0 DEF IInv, TypeOK, DelimiterIsLast, WithinHwm, Unread, Ending
  <2>6. CASE UNCHANGED yvars
    BY <2>6 DEF yvars, IInv, TypeOK, DelimiterIsLast, WithinHwm, Unread, Ending
  <2> QED BY <2>1, <2>2, <2>3, <2>4, <2>5, <2>6 DEF Next
<1> QED BY <1>1, <1>2, PTL DEF Spec

(* Nothing is ever queued behind the delimiter, and a pipe that has one takes *)
(* no more (YPipe::write_delimiter).                                          *)
THEOREM DelimiterAlwaysLast == Spec => []DelimiterIsLast
  BY InvHolds, PTL DEF IInv

(* A pipe with a mark never holds more items than the mark, however the       *)
(* delimiter and conflation combine with it (YPipe::write_item).              *)
THEOREM MarkAlwaysKept == Spec => []WithinHwm
  BY InvHolds, PTL DEF IInv

-----------------------------------------------------------------------------
Fate == IF ~terminated THEN "open" ELSE IF Ending THEN "ending" ELSE "closed"

(* The steps of the channel, in terms of the pipe. *)
LEMMA ChannelSteps ==
  /\ Channel!Init <=> /\ Unread = <<>> /\ Fate = "open"
                      /\ conflate = FALSE /\ wrote = FALSE /\ took = FALSE
  /\ \A on \in BOOLEAN :
       conflate' = on /\ Unread' = Unread /\ Fate' = Fate /\ wrote' = wrote /\ took' = took
         => Channel!Next
  /\ \A x \in Items :
       (/\ Fate = "open" /\ Unread' = (IF conflate THEN <<x>> ELSE Append(Unread, x))
        /\ wrote' = ~wrote /\ Fate' = Fate /\ conflate' = conflate /\ took' = took)
         => Channel!Next
  /\ (/\ Unread # <<>> /\ Unread' = Tail(Unread) /\ Fate' = Fate
      /\ took' = ~took /\ conflate' = conflate /\ wrote' = wrote)
       => Channel!Next
  /\ (/\ Fate = "open" /\ Fate' = "ending" /\ Unread' = Unread
      /\ conflate' = conflate /\ wrote' = wrote /\ took' = took)
       => Channel!Next
  /\ (/\ Fate = "ending" /\ Unread = <<>> /\ Fate' = "closed" /\ Unread' = Unread
      /\ took' = ~took /\ conflate' = conflate /\ wrote' = wrote)
       => Channel!Next
  /\ (/\ Unread' = <<>> /\ Fate' = "closed"
      /\ conflate' = conflate /\ wrote' = wrote /\ took' = took)
       => Channel!Next
  /\ (/\ Unread' = Unread /\ Fate' = Fate
      /\ conflate' = conflate /\ wrote' = wrote /\ took' = took)
       => UNCHANGED Channel!chvars
<1> USE DEF Fate
<1>1. Channel!Init <=> /\ Unread = <<>> /\ Fate = "open"
                       /\ conflate = FALSE /\ wrote = FALSE /\ took = FALSE
  BY Zenon DEF Channel!Init
<1>2. ASSUME NEW on \in BOOLEAN, conflate' = on, Unread' = Unread, Fate' = Fate,
             wrote' = wrote, took' = took
      PROVE  Channel!Next
  BY <1>2, Zenon DEF Channel!Next, Channel!Switch
<1>3. ASSUME NEW x \in Items, Fate = "open",
             Unread' = (IF conflate THEN <<x>> ELSE Append(Unread, x)), wrote' = ~wrote,
             Fate' = Fate, conflate' = conflate, took' = took
      PROVE  Channel!Next
  BY <1>3, Zenon DEF Channel!Next, Channel!Accept
<1>4. ASSUME Unread # <<>>, Unread' = Tail(Unread), Fate' = Fate, took' = ~took,
             conflate' = conflate, wrote' = wrote
      PROVE  Channel!Next
  BY <1>4, Zenon DEF Channel!Next, Channel!Deliver
<1>5. ASSUME Fate = "open", Fate' = "ending", Unread' = Unread,
             conflate' = conflate, wrote' = wrote, took' = took
      PROVE  Channel!Next
  BY <1>5, Zenon DEF Channel!Next, Channel!End
<1>6. ASSUME Fate = "ending", Unread = <<>>, Fate' = "closed", Unread' = Unread,
             took' = ~took, conflate' = conflate, wrote' = wrote
      PROVE  Channel!Next
  BY <1>6, Zenon DEF Channel!Next, Channel!DeliverEnd
<1>7. ASSUME Unread' = <<>>, Fate' = "closed",
             conflate' = conflate, wrote' = wrote, took' = took
      PROVE  Channel!Next
  BY <1>7, Zenon DEF Channel!Next, Channel!Abandon
<1>8. ASSUME Unread' = Unread, Fate' = Fate,
             conflate' = conflate, wrote' = wrote, took' = took
      PROVE  UNCHANGED Channel!chvars
  BY <1>8, Zenon DEF Channel!chvars
<1> HIDE DEF Fate
<1> QED BY <1>1, <1>2, <1>3, <1>4, <1>5, <1>6, <1>7, <1>8, Zenon

(* Reading a frame delivers the next item, or the end when it is the          *)
(* delimiter.                                                                 *)
LEMMA ReadDelivers ==
  ASSUME IInv, Read
  PROVE  Channel!Next
<1>0. /\ queue \in Seq(Frames) /\ terminated \in BOOLEAN
      /\ queue # <<>> /\ queue' = Tail(queue) /\ terminated' = terminated
      /\ took' = ~took /\ UNCHANGED <<conflate, wrote>>
  BY DEF IInv, TypeOK, Frames, Read
<1>1. /\ queue' \in Seq(Frames) /\ Len(queue') = Len(queue) - 1
      /\ \A i \in 1..Len(queue) - 1 : queue'[i] = queue[i + 1]
  BY <1>0, TailFrames
<1>2. Len(queue) \in Nat /\ Len(queue) >= 1 BY <1>0
<1>3. CASE ~Ending
  <2>1. ~Ending' BY <1>1, <1>2, <1>3 DEF Ending
  <2>2. Unread = queue /\ Unread' = queue' BY <1>3, <2>1 DEF Unread
  <2>3. Fate' = Fate BY <1>0, <1>3, <2>1 DEF Fate
  <2> QED BY <1>0, <2>2, <2>3, ChannelSteps
<1>4. CASE Ending
  <2>1. terminated /\ Fate = "ending"
    <3>1. queue[Len(queue)] = Delimiter /\ Len(queue) \in 1..Len(queue)
      BY <1>2, <1>4 DEF Ending
    <3>2. terminated BY <3>1 DEF IInv, DelimiterIsLast
    <3> QED BY <3>2, <1>4 DEF Fate
  <2>2. CASE Len(queue) = 1
    <3>1. queue' = <<>> BY <1>1, <2>2
    <3>2. ~Ending' /\ Unread' = <<>> BY <3>1 DEF Ending, Unread
    <3>3. Unread = <<>>
      <4>1. Len(SubSeq(queue, 1, Len(queue) - 1)) = 0
            /\ SubSeq(queue, 1, Len(queue) - 1) \in Seq(Frames)
        BY <1>0, <2>2, FrontFrames
      <4>2. Unread = SubSeq(queue, 1, Len(queue) - 1) BY <1>4 DEF Unread
      <4>3. Len(Unread) = 0 /\ Unread \in Seq(Frames) BY <4>1, <4>2
      <4> QED BY <4>3
    <3>4. Fate' = "closed" BY <1>0, <2>1, <3>2 DEF Fate
    <3> QED BY <1>0, <2>1, <3>2, <3>3, <3>4, ChannelSteps
  <2>3. CASE Len(queue) > 1
    <3>1. Ending' /\ queue' # <<>> BY <1>1, <1>2, <1>4, <2>3 DEF Ending
    <3>2. Unread = SubSeq(queue, 1, Len(queue) - 1)
          /\ Unread' = SubSeq(queue', 1, Len(queue') - 1)
      BY <1>4, <3>1 DEF Unread
    <3>3. /\ Unread \in Seq(Frames) /\ Len(Unread) = Len(queue) - 1
          /\ \A i \in 1..Len(queue) - 1 : Unread[i] = queue[i]
      BY <1>0, <3>2, FrontFrames
    <3>4. /\ Unread' \in Seq(Frames) /\ Len(Unread') = Len(queue') - 1
          /\ \A i \in 1..Len(queue') - 1 : Unread'[i] = queue'[i]
      BY <1>1, <3>1, <3>2, FrontFrames
    <3>5. Unread # <<>> BY <3>3, <1>2, <2>3
    <3>6. /\ Tail(Unread) \in Seq(Frames) /\ Len(Tail(Unread)) = Len(Unread) - 1
          /\ \A i \in 1..Len(Unread) - 1 : Tail(Unread)[i] = Unread[i + 1]
      BY <3>3, <3>5, TailFrames
    <3>7. Len(Unread') = Len(Tail(Unread)) BY <1>1, <1>2, <3>3, <3>4, <3>6
    <3>8. ASSUME NEW i \in 1..Len(Unread') PROVE Unread'[i] = Tail(Unread)[i]
      <4>1. /\ i \in 1..Len(queue') - 1 /\ i \in 1..Len(queue) - 1
            /\ i \in 1..Len(Unread) - 1 /\ i + 1 \in 1..Len(queue) - 1
        BY <1>1, <1>2, <3>3, <3>4
      <4> QED BY <4>1, <1>1, <3>3, <3>4, <3>6
    <3>9. Unread' = Tail(Unread) BY <3>4, <3>6, <3>7, <3>8, SeqEqual
    <3>10. Fate' = Fate BY <1>0, <1>4, <3>1 DEF Fate
    <3> QED BY <1>0, <3>5, <3>9, <3>10, ChannelSteps
  <2>4. Len(queue) = 1 \/ Len(queue) > 1
    <3>1. \A n \in Nat : n >= 1 => n = 1 \/ n > 1 OBVIOUS
    <3> QED BY <1>2, <3>1, Zenon
  <2> QED BY <2>2, <2>3, <2>4
<1> QED BY <1>3, <1>4

(* The pipe implements the channel: in-band delimiter, conflation and         *)
(* termination included, the reader gets everything whose write succeeded, in *)
(* order, and then the end, and only a write to a conflating pipe supersedes  *)
(* what is unread (YPipe::write, read, write_delimiter, terminate).           *)
THEOREM PipeImplementsChannel == Spec => ImplementsChannel
<1> USE DelimiterAssumption
<1>1. Init => Channel!Init
  <2> SUFFICES ASSUME Init PROVE Channel!Init
    OBVIOUS
  <2>1. queue = <<>> /\ terminated = FALSE BY Zenon DEF Init
  <2>4. conflate = FALSE /\ wrote = FALSE /\ took = FALSE BY Zenon DEF Init
  <2>2. ~Ending /\ Unread = <<>> BY <2>1 DEF Ending, Unread
  <2>3. Fate = "open" BY <2>1 DEF Fate
  <2> QED BY <2>2, <2>3, <2>4, ChannelSteps
<1>2. IInv /\ [Next]_yvars => [Channel!Next]_Channel!chvars
  <2> SUFFICES ASSUME IInv, [Next]_yvars PROVE [Channel!Next]_Channel!chvars
    OBVIOUS
  <2>0. queue \in Seq(Frames) /\ terminated \in BOOLEAN /\ Delimiter \in Frames
    BY DEF IInv, TypeOK, Frames
  <2>1. ASSUME NEW on \in BOOLEAN, SetConflate(on)
        PROVE  Channel!Next
    <3>1. queue' = queue /\ terminated' = terminated /\ conflate' = on /\ UNCHANGED <<wrote, took>>
      BY <2>1 DEF SetConflate
    <3>2. Unread' = Unread /\ Fate' = Fate BY <3>1 DEF Unread, Ending, Fate
    <3> QED BY <3>1, <3>2, ChannelSteps
  <2>2. ASSUME NEW x \in Items, Write(x) PROVE Channel!Next
    <3>1. ~terminated /\ terminated' = terminated
          /\ queue' = (IF conflate THEN <<x>> ELSE Append(queue, x))
          /\ wrote' = ~wrote /\ UNCHANGED <<conflate, took>>
      BY <2>2 DEF Write, Written
    <3>2. Unread = queue BY <3>1, OpenHasNoDelimiter DEF IInv
    <3>3. Fate = "open" /\ Fate' = "open" BY <3>1 DEF Fate
    <3>4. queue' # <<>> /\ queue'[Len(queue')] = x
      BY <3>1, <2>0 DEF Frames
    <3>5. ~Ending' BY <3>4 DEF Ending
    <3>6. Unread' = queue' BY <3>5 DEF Unread
    <3>7. Unread' = (IF conflate THEN <<x>> ELSE Append(Unread, x)) BY <3>1, <3>2, <3>6
    <3> QED BY <3>1, <3>3, <3>7, ChannelSteps
  <2>3. CASE WriteDelimiter
    <3>1. /\ ~terminated /\ terminated' /\ queue' = Append(queue, Delimiter)
          /\ UNCHANGED <<conflate, wrote, took>>
      BY <2>3 DEF WriteDelimiter
    <3>2. Unread = queue /\ Fate = "open"
      BY <3>1, OpenHasNoDelimiter DEF IInv, Fate
    <3>3. /\ queue' \in Seq(Frames) /\ Len(queue') = Len(queue) + 1
          /\ queue'[Len(queue) + 1] = Delimiter
          /\ \A i \in 1..Len(queue) : queue'[i] = queue[i]
      BY <3>1, <2>0, AppendFrames
    <3>4. Len(queue) \in Nat /\ queue' # <<>> BY <2>0, <3>3
    <3>5. Ending' BY <3>3, <3>4 DEF Ending
    <3>6. Fate' = "ending" BY <3>1, <3>5 DEF Fate
    <3>7. Unread' = SubSeq(queue', 1, Len(queue') - 1) BY <3>5 DEF Unread
    <3>8. /\ Unread' \in Seq(Frames) /\ Len(Unread') = Len(queue') - 1
          /\ \A i \in 1..Len(queue') - 1 : Unread'[i] = queue'[i]
      BY <3>3, <3>4, <3>7, FrontFrames
    <3>9. Len(Unread') = Len(queue) /\ \A i \in 1..Len(Unread') : Unread'[i] = queue[i]
      BY <3>3, <3>4, <3>8
    <3>10. Unread' = queue BY <3>8, <3>9, <2>0, SeqEqual
    <3> QED BY <3>1, <3>2, <3>6, <3>10, ChannelSteps
  <2>4. CASE Read BY <2>4, ReadDelivers
  <2>5. CASE Terminate
    <3>1. queue' = <<>> /\ terminated' /\ UNCHANGED <<conflate, wrote, took>>
      BY <2>5 DEF Terminate
    <3>2. ~Ending' /\ Unread' = <<>> BY <3>1 DEF Ending, Unread
    <3>3. Fate' = "closed" BY <3>1, <3>2 DEF Fate
    <3> QED BY <3>1, <3>2, <3>3, ChannelSteps
  <2>6. CASE UNCHANGED yvars
    <3>1. queue' = queue /\ terminated' = terminated /\ UNCHANGED <<conflate, wrote, took>>
      BY <2>6 DEF yvars
    <3>2. Unread' = Unread /\ Fate' = Fate BY <3>1 DEF Unread, Ending, Fate
    <3> QED BY <3>1, <3>2, ChannelSteps
  <2> QED BY <2>1, <2>2, <2>3, <2>4, <2>5, <2>6 DEF Next
<1> QED BY <1>1, <1>2, InvHolds, PTL DEF Spec, ImplementsChannel, Channel!Spec

-----------------------------------------------------------------------------
(* UDP.  A datagram that goes where its sender meant it to. *)
Meant == {d \in Udp!Datagram : d.to = d.about}

(* A bound socket has no endpoint and remembers whom it heard last, a socket  *)
(* that is neither bound nor closed has an endpoint, and so all datagrams,    *)
(* also those still queued when their sender is long gone, are meant.         *)
UdpInv ==
  /\ Udp!TypeOK
  /\ \A s \in UdpSockets :
       /\ udp[s].bound => udp[s].connected = NoPort /\ udp[s].last = heard[s]
       /\ udp[s].port # NoPort /\ ~udp[s].bound => udp[s].connected # NoPort
  /\ flight \subseteq Meant
  /\ queued \in [Ports -> Seq(Meant)]

LEMMA SeqElements ==
  ASSUME NEW S, NEW q \in Seq(S)
  PROVE  Len(q) \in Nat /\ \A i \in 1..Len(q) : q[i] \in S
  OBVIOUS

LEMMA SeqOfMore ==
  ASSUME NEW S, NEW T, S \subseteq T, NEW q \in Seq(S)
  PROVE  q \in Seq(T)
<1>1. /\ Len(q) \in Nat /\ q = [i \in 1..Len(q) |-> q[i]]
      /\ \A i \in 1..Len(q) : q[i] \in S
  OBVIOUS
<1>2. \A i \in 1..Len(q) : q[i] \in T BY <1>1
<1> QED BY <1>1, <1>2

LEMMA MeantAreDatagrams ==
  ASSUME NEW f, f \in [Ports -> Seq(Meant)]
  PROVE  f \in [Ports -> Seq(Udp!Datagram)]
<1>1. Meant \subseteq Udp!Datagram BY DEF Meant
<1>2. ASSUME NEW q \in Seq(Meant) PROVE q \in Seq(Udp!Datagram)
  BY <1>1, SeqOfMore
<1> HIDE DEF Meant
<1> QED BY <1>2

LEMMA UdpInit == Udp!Init => UdpInv
  BY DEF Udp!Init, Udp!Closed, UdpInv, Udp!TypeOK, Udp!UdpState, Udp!OptPort

(* A socket that drops its kernel socket drops only what is queued there. *)
LEMMA DroppedMeant ==
  ASSUME UdpInv, NEW s \in UdpSockets
  PROVE  Udp!Dropped(s) \in [Ports -> Seq(Meant)]
  BY DEF UdpInv, Udp!Dropped

(* Another state and another last peer of one socket, which agree. *)
LEMMA UdpStateChanges ==
  ASSUME UdpInv, NEW s \in UdpSockets, NEW u \in Udp!UdpState, NEW h \in Udp!OptPort,
         udp' = [udp EXCEPT ![s] = u], heard' = [heard EXCEPT ![s] = h],
         opening' \in [UdpSockets -> Udp!OptPort],
         u.bound => u.connected = NoPort /\ u.last = h,
         u.port # NoPort /\ ~u.bound => u.connected # NoPort,
         flight' = flight, queued' \in [Ports -> Seq(Meant)]
  PROVE  UdpInv'
<1>1. udp' \in [UdpSockets -> Udp!UdpState] /\ heard' \in [UdpSockets -> Udp!OptPort]
  BY DEF UdpInv, Udp!TypeOK
<1>2. \A t \in UdpSockets :
        /\ udp'[t].bound => udp'[t].connected = NoPort /\ udp'[t].last = heard'[t]
        /\ udp'[t].port # NoPort /\ ~udp'[t].bound => udp'[t].connected # NoPort
  BY DEF UdpInv, Udp!TypeOK
<1>3. flight' \subseteq Meant BY DEF UdpInv
<1>4. flight' \subseteq Udp!Datagram /\ queued' \in [Ports -> Seq(Udp!Datagram)]
  <2>1. flight' \subseteq Udp!Datagram BY <1>3 DEF Meant
  <2> QED BY <2>1, MeantAreDatagrams
<1> QED BY <1>1, <1>2, <1>3, <1>4 DEF UdpInv, Udp!TypeOK

LEMMA UdpBind ==
  ASSUME UdpInv, NEW s \in UdpSockets, NEW p \in Ports, Udp!Bind(s, p)
  PROVE  UdpInv'
<1> DEFINE u == Udp!AfterBind(s, p)
<1>1. u \in Udp!UdpState /\ u.bound /\ u.connected = NoPort /\ u.last = NoPort
  BY DEF Udp!AfterBind, Udp!UdpState, Udp!OptPort
<1>2. /\ udp' = [udp EXCEPT ![s] = u] /\ heard' = [heard EXCEPT ![s] = NoPort]
      /\ opening' = opening /\ flight' = flight /\ queued' = Udp!Dropped(s)
  BY DEF Udp!Bind
<1>3. NoPort \in Udp!OptPort /\ opening \in [UdpSockets -> Udp!OptPort]
  BY DEF Udp!OptPort, UdpInv, Udp!TypeOK
<1> QED
  <2> HIDE DEF u
  <2> QED BY <1>1, <1>2, <1>3, DroppedMeant, UdpStateChanges

LEMMA UdpClose ==
  ASSUME UdpInv, NEW s \in UdpSockets, Udp!Close(s)
  PROVE  UdpInv'
<1>1. /\ Udp!Closed \in Udp!UdpState /\ ~Udp!Closed.bound /\ Udp!Closed.port = NoPort
  BY DEF Udp!Closed, Udp!UdpState, Udp!OptPort
<1>2. /\ udp' = [udp EXCEPT ![s] = Udp!Closed] /\ heard' = [heard EXCEPT ![s] = NoPort]
      /\ opening' = opening /\ flight' = flight /\ queued' = Udp!Dropped(s)
  BY DEF Udp!Close
<1>3. NoPort \in Udp!OptPort /\ opening \in [UdpSockets -> Udp!OptPort]
  BY DEF Udp!OptPort, UdpInv, Udp!TypeOK
<1> QED BY <1>1, <1>2, <1>3, DroppedMeant, UdpStateChanges

LEMMA UdpConnect ==
  ASSUME UdpInv, NEW s \in UdpSockets, NEW q \in Ports, Udp!Connect(s, q)
  PROVE  UdpInv'
<1> DEFINE u == [port |-> opening[s], bound |-> FALSE, connected |-> q, last |-> NoPort]
<1>1. opening[s] \in Udp!OptPort /\ NoPort \in Udp!OptPort
      /\ opening' = [opening EXCEPT ![s] = NoPort]
      /\ opening' \in [UdpSockets -> Udp!OptPort]
  BY DEF UdpInv, Udp!TypeOK, Udp!OptPort, Udp!Connect
<1>2. u \in Udp!UdpState /\ ~u.bound /\ u.connected # NoPort
  BY <1>1, UdpAssumption DEF Udp!UdpState, Udp!OptPort
<1>3. /\ udp' = [udp EXCEPT ![s] = u] /\ heard' = [heard EXCEPT ![s] = NoPort]
      /\ flight' = flight /\ queued' = Udp!Dropped(s)
  BY DEF Udp!Connect
<1> QED
  <2> HIDE DEF u
  <2> QED BY <1>1, <1>2, <1>3, DroppedMeant, UdpStateChanges

(* send_udp_datagram: the endpoint wins, and a bound socket has none. *)
LEMMA UdpSend ==
  ASSUME UdpInv, NEW s \in UdpSockets, Udp!Send(s)
  PROVE  UdpInv'
<1> DEFINE to == Udp!Destination(s)
           d == [from |-> udp[s].port, to |-> to,
                 by |-> IF udp[s].bound THEN "bound" ELSE "connected",
                 about |-> IF udp[s].bound THEN heard[s] ELSE udp[s].connected]
<1>1. /\ udp[s].port # NoPort /\ to # NoPort /\ flight' = flight \cup {d}
      /\ udp' = udp /\ opening' = opening /\ heard' = heard /\ queued' = queued
  BY DEF Udp!Send
<1>2. udp[s] \in Udp!UdpState /\ heard[s] \in Udp!OptPort BY DEF UdpInv, Udp!TypeOK
<1>3. to = IF udp[s].bound THEN heard[s] ELSE udp[s].connected
  BY <1>1 DEF Udp!Destination, UdpInv
<1>4. to \in Ports /\ udp[s].port \in Ports
  BY <1>1, <1>2, <1>3 DEF Udp!UdpState, Udp!OptPort
<1>5. d \in Meant
  <2> HIDE DEF to
  <2> QED BY <1>3, <1>4 DEF Meant, Udp!Datagram, Udp!OptPort
<1>6. flight' \subseteq Meant
  <2> HIDE DEF d
  <2> QED BY <1>1, <1>5 DEF UdpInv
<1>7. flight' \subseteq Udp!Datagram BY <1>6 DEF Meant
<1> QED BY <1>1, <1>6, <1>7 DEF UdpInv, Udp!TypeOK

LEMMA UdpRecv ==
  ASSUME UdpInv, NEW s \in UdpSockets, Udp!Recv(s)
  PROVE  UdpInv'
<1> DEFINE p == udp[s].port
           h == Head(queued[p]).from
           u == [udp[s] EXCEPT !.last = h]
<1>1. /\ p # NoPort /\ queued[p] # <<>>
      /\ udp' = [udp EXCEPT ![s] = u] /\ heard' = [heard EXCEPT ![s] = h]
      /\ queued' = [queued EXCEPT ![p] = Tail(@)]
      /\ opening' = opening /\ flight' = flight
  BY DEF Udp!Recv
<1>2. udp[s] \in Udp!UdpState BY DEF UdpInv, Udp!TypeOK
<1>3. p \in Ports BY <1>1, <1>2 DEF Udp!UdpState, Udp!OptPort
<1>4. queued[p] \in Seq(Meant) BY <1>3 DEF UdpInv
<1>5. Head(queued[p]) \in Meant /\ Tail(queued[p]) \in Seq(Meant)
  <2> HIDE DEF p
  <2> QED BY <1>1, <1>4
<1>6. h \in Udp!OptPort
  <2> HIDE DEF p
  <2> QED BY <1>5 DEF Meant, Udp!Datagram, Udp!OptPort
<1>7. queued' \in [Ports -> Seq(Meant)]
  <2> HIDE DEF p
  <2> QED BY <1>1, <1>3, <1>5 DEF UdpInv
<1>8. /\ u \in Udp!UdpState
      /\ u.bound = udp[s].bound /\ u.connected = udp[s].connected
      /\ u.port = udp[s].port /\ u.last = h
  <2> HIDE DEF h
  <2> QED BY <1>2, <1>6 DEF Udp!UdpState
<1>9. opening' \in [UdpSockets -> Udp!OptPort] BY <1>1 DEF UdpInv, Udp!TypeOK
<1>10. /\ u.bound => u.connected = NoPort /\ u.last = h
       /\ u.port # NoPort /\ ~u.bound => u.connected # NoPort
  <2> HIDE DEF u, h
  <2> QED BY <1>8 DEF UdpInv
<1> QED
  <2> HIDE DEF u, h, p
  <2> QED BY <1>1, <1>6, <1>7, <1>8, <1>9, <1>10, UdpStateChanges

LEMMA UdpNetwork ==
  ASSUME UdpInv, NEW d \in flight, Udp!Arrive(d) \/ Udp!Lose(d)
  PROVE  UdpInv'
<1>0. d \in Meant /\ d.to \in Ports BY DEF UdpInv, Meant, Udp!Datagram
<1>1. CASE Udp!Arrive(d)
  <2>1. queued' = [queued EXCEPT ![d.to] = Append(@, d)]
        /\ udp' = udp /\ opening' = opening /\ heard' = heard /\ flight' = flight
    BY <1>1 DEF Udp!Arrive
  <2>2. Append(queued[d.to], d) \in Seq(Meant) BY <1>0 DEF UdpInv
  <2>3. queued' \in [Ports -> Seq(Meant)] BY <2>1, <2>2 DEF UdpInv
  <2>4. queued' \in [Ports -> Seq(Udp!Datagram)] BY <2>3, MeantAreDatagrams
  <2> QED BY <2>1, <2>3, <2>4 DEF UdpInv, Udp!TypeOK
<1>2. CASE Udp!Lose(d)
  BY <1>2 DEF Udp!Lose, UdpInv, Udp!TypeOK
<1> QED BY <1>1, <1>2

LEMMA UdpNext ==
  ASSUME UdpInv, Udp!Next \/ UNCHANGED udpVars
  PROVE  UdpInv'
<1>1. ASSUME NEW s \in UdpSockets, Udp!Unbind(s) \/ Udp!Disconnect(s) PROVE UdpInv'
  BY <1>1, UdpClose DEF Udp!Unbind, Udp!Disconnect
<1>2. ASSUME NEW s \in UdpSockets, NEW p \in Ports, Udp!Open(s, p) PROVE UdpInv'
  BY <1>2 DEF Udp!Open, UdpInv, Udp!TypeOK, Udp!OptPort
<1>3. CASE UNCHANGED udpVars BY <1>3 DEF udpVars, UdpInv, Udp!TypeOK
<1> QED BY <1>1, <1>2, <1>3, UdpBind, UdpConnect, UdpSend, UdpRecv, UdpNetwork
        DEF Udp!Next

LEMMA UdpInvImplies == UdpInv => DatagramsAddressed
<1> SUFFICES ASSUME UdpInv PROVE DatagramsAddressed
  OBVIOUS
<1>1. ASSUME NEW d \in Udp!Everywhere PROVE d.to = d.about
  <2>1. CASE d \in flight BY <2>1 DEF UdpInv, Meant
  <2>2. ASSUME NEW p \in Ports, NEW i \in DOMAIN queued[p], d = queued[p][i]
        PROVE  d.to = d.about
    <3>1. queued[p] \in Seq(Meant) BY DEF UdpInv
    <3>2. queued[p][i] \in Meant BY <3>1
    <3> QED BY <3>2, <2>2 DEF Meant
  <2> QED BY <2>1, <2>2 DEF Udp!Everywhere
<1> QED BY <1>1 DEF UdpInv, DatagramsAddressed, Udp!AnswersWhoItHeard, Udp!KeepsToItsPeer

(* A datagram socket sends where it must, for any number of sockets and       *)
(* addresses and a network that loses, repeats and reorders: a bound one to   *)
(* whom it has heard last through this binding, a connected one to its        *)
(* endpoint (bind_udp, connect_udp, send_udp_datagram, recv_udp_datagram).    *)
THEOREM DatagramsAlwaysAddressed == AllSpec => []DatagramsAddressed
<1>1. AllInit => UdpInv BY UdpInit DEF AllInit
<1>2. UdpInv /\ [AllNext]_<<part, optionVars, monitorVars, yvars, webVars, udpVars,
                            normVars, codecVars>> => UdpInv'
  BY UdpNext DEF AllNext
<1> QED BY <1>1, <1>2, UdpInvImplies, PTL DEF AllSpec

-----------------------------------------------------------------------------
(* NORM.  Where a call does not stand between its two assignments, a side's   *)
(* session and instance are of one number; a call that does has put a new     *)
(* session, whose instance is not the one it will drop next.                  *)
SideSound(x) ==
  /\ live[x] \subseteq 1..made[x]
  /\ norm[x].session <= made[x]
  /\ norm[x].session \in live[x] \cup {0}
  /\ busy[x].is # "assign" => norm[x].session = norm[x].instance
  /\ busy[x].is = "assign" /\ busy[x].at = 1 =>
       /\ norm[x].session = norm[x].instance
       /\ busy[x].new \in live[x] \cup {0}
       /\ busy[x].new = 0 \/ busy[x].new # norm[x].session
  /\ busy[x].is = "assign" /\ busy[x].at = 2 =>
       /\ norm[x].session = busy[x].new
       /\ busy[x].new = 0 \/ busy[x].new # norm[x].instance
  /\ busy[x].is = "recv" => busy[x].turns >= 1 /\ norm[x].session # 0

(* What the application got is of the objects taken, in order, and, as long   *)
(* as its interest is steady, all that it wants of them.  Without a session   *)
(* it has got nothing: objects that go nowhere are counted as taken.          *)
ObjectsSound ==
  /\ Len(sent) <= MaxObjects
  /\ steady.since <= taken
  /\ norm["sub"].session = 0 => got = <<>>
  /\ \A i \in 1..Len(got) : got[i] <= taken
  /\ \A i, j \in 1..Len(got) : i < j => got[i] < got[j]
  /\ steady.is =>
       /\ \A i \in 1..Len(got) :
            got[i] > steady.since /\ sent[got[i]] \in interest.topics
       /\ \A k \in steady.since + 1 .. taken :
            sent[k] \in interest.topics => \E i \in 1..Len(got) : got[i] = k

NormInv ==
  /\ Norm!TypeOK /\ ~crashed
  /\ \A x \in Norm!Sides : SideSound(x)
  /\ ObjectsSound

(* The kinds of calls are told apart by their field is. *)
LEMMA CallKinds ==
  ASSUME NEW c \in Norm!Call
  PROVE  /\ c.is \in {"none", "assign", "recv"}
         /\ c.is = "assign" => /\ c.new \in 0..MaxHandles /\ c.at \in 1..2
                               /\ [c EXCEPT !.at = 2] \in Norm!Call
                               /\ [c EXCEPT !.at = 2].is = "assign"
                               /\ [c EXCEPT !.at = 2].at = 2
                               /\ [c EXCEPT !.at = 2].new = c.new
         /\ c.is = "recv" => c.turns \in 0..MaxTurns
<1>1. CASE c \in [is : {"none"}] BY <1>1
<1>2. CASE c \in [is : {"assign"}, new : 0 .. MaxHandles, at : 1 .. 2]
  BY <1>2 DEF Norm!Call
<1>3. CASE c \in [is : {"recv"}, turns : 0 .. MaxTurns] BY <1>3
<1> QED BY <1>1, <1>2, <1>3 DEF Norm!Call

LEMMA IdleCall == Norm!Idle \in Norm!Call /\ Norm!Idle.is = "none"
  BY DEF Norm!Idle, Norm!Call

LEMMA NormInit == Norm!Init => NormInv
<1> SUFFICES ASSUME Norm!Init PROVE NormInv
  OBVIOUS
<1>1. \A x \in Norm!Sides :
        /\ norm[x] = [session |-> 0, instance |-> 0] /\ made[x] = 0 /\ live[x] = {}
        /\ busy[x] = Norm!Idle
  BY DEF Norm!Init
<1>2. \A x \in Norm!Sides : SideSound(x) BY <1>1, IdleCall DEF SideSound
<1>3. /\ sent = <<>> /\ here = 0 /\ taken = 0 /\ got = <<>> /\ crashed = FALSE
      /\ steady = [is |-> TRUE, since |-> 0] /\ interest = [topics |-> {}, changes |-> 0]
  BY DEF Norm!Init
<1>4. ObjectsSound BY <1>3, NormAssumption DEF ObjectsSound
<1>5. Norm!TypeOK
  <2>1. norm \in [Norm!Sides -> Norm!NormState] /\ made \in [Norm!Sides -> 0..MaxHandles]
        /\ live \in [Norm!Sides -> SUBSET (1..MaxHandles)]
    BY NormAssumption DEF Norm!Init, Norm!NormState
  <2>2. busy \in [Norm!Sides -> Norm!Call] BY IdleCall DEF Norm!Init
  <2>3. /\ crashed \in BOOLEAN /\ sent \in Seq(NormTopics)
        /\ here \in 0..Len(sent) /\ taken \in 0..here /\ got \in Seq(1..MaxObjects)
    <3>1. sent \in Seq(NormTopics) /\ got \in Seq(1..MaxObjects) BY <1>3, SMT
    <3>2. here \in 0..Len(sent) /\ taken \in 0..here BY <1>3, SMT
    <3>3. crashed \in BOOLEAN BY <1>3, Zenon
    <3> QED BY <3>1, <3>2, <3>3
  <2>4. /\ steady \in [is : BOOLEAN, since : 0..MaxObjects]
        /\ interest \in [topics : SUBSET NormTopics, changes : 0..MaxChanges]
    BY <1>3, NormAssumption
  <2> QED BY <2>1, <2>2, <2>3, <2>4 DEF Norm!TypeOK
<1> QED BY <1>2, <1>3, <1>4, <1>5 DEF NormInv

(* Steps that leave the handles and the objects alone: the call of one side   *)
(* changes only.                                                              *)
LEMMA CallChanges ==
  ASSUME NormInv, NEW x \in Norm!Sides, NEW c \in Norm!Call,
         busy' = [busy EXCEPT ![x] = c],
         norm' = norm, made' = made, live' = live, crashed' = crashed,
         interest' = interest, sent' = sent, here' = here, taken' = taken,
         got' = got, steady' = steady,
         SideSound(x)'
  PROVE  NormInv'
<1>1. busy' \in [Norm!Sides -> Norm!Call] BY DEF NormInv, Norm!TypeOK
<1>2. Norm!TypeOK' BY <1>1 DEF NormInv, Norm!TypeOK
<1>3. ASSUME NEW y \in Norm!Sides PROVE SideSound(y)'
  <2>1. CASE y = x BY <2>1
  <2>2. CASE y # x
    <3>1. busy'[y] = busy[y] BY <2>2 DEF NormInv, Norm!TypeOK
    <3> QED BY <3>1 DEF NormInv, SideSound
  <2> QED BY <2>1, <2>2
<1>4. ObjectsSound' BY DEF NormInv, ObjectsSound
<1> QED BY <1>2, <1>3, <1>4 DEF NormInv

LEMMA NormShut ==
  ASSUME NormInv, NEW x \in Norm!Sides, Norm!Shut(x)
  PROVE  NormInv'
<1> DEFINE c == [is |-> "assign", new |-> 0, at |-> 1]
<1>1. c \in Norm!Call BY NormAssumption DEF Norm!Call
<1>2. /\ busy[x] = Norm!Idle /\ busy' = [busy EXCEPT ![x] = c]
      /\ norm' = norm /\ made' = made /\ live' = live /\ crashed' = crashed
      /\ interest' = interest /\ sent' = sent /\ here' = here /\ taken' = taken
      /\ got' = got /\ steady' = steady
  BY DEF Norm!Shut, Norm!handles, Norm!objects
<1>3. busy'[x] = c BY <1>2 DEF NormInv, Norm!TypeOK
<1>4. SideSound(x) /\ busy[x].is = "none" BY <1>2, IdleCall DEF NormInv
<1>5. SideSound(x)' BY <1>2, <1>3, <1>4 DEF SideSound
<1> QED
  <2> HIDE DEF c
  <2> QED BY <1>1, <1>2, <1>5, CallChanges

LEMMA NormRecvBegins ==
  ASSUME NormInv, Norm!RecvBegins
  PROVE  NormInv'
<1> DEFINE c == [is |-> "recv", turns |-> MaxTurns]
<1>1. c \in Norm!Call BY NormAssumption DEF Norm!Call
<1>2. /\ busy["sub"] = Norm!Idle /\ busy' = [busy EXCEPT !["sub"] = c]
      /\ norm["sub"].instance # 0
      /\ norm' = norm /\ made' = made /\ live' = live /\ crashed' = crashed
      /\ interest' = interest /\ sent' = sent /\ here' = here /\ taken' = taken
      /\ got' = got /\ steady' = steady
  BY DEF Norm!RecvBegins, Norm!handles, Norm!objects
<1>3. "sub" \in Norm!Sides BY DEF Norm!Sides
<1>4. busy'["sub"] = c BY <1>2, <1>3 DEF NormInv, Norm!TypeOK
<1>5. SideSound("sub") /\ busy["sub"].is = "none" BY <1>2, <1>3, IdleCall DEF NormInv
<1>6. SideSound("sub")' BY <1>2, <1>4, <1>5, NormAssumption DEF SideSound
<1> QED
  <2> HIDE DEF c
  <2> QED BY <1>1, <1>2, <1>3, <1>6, CallChanges

LEMMA NormRecvTimesOut ==
  ASSUME NormInv, Norm!RecvTimesOut
  PROVE  NormInv'
<1>1. /\ busy["sub"].is = "recv" /\ busy' = [busy EXCEPT !["sub"] = Norm!Idle]
      /\ norm' = norm /\ made' = made /\ live' = live /\ crashed' = crashed
      /\ interest' = interest /\ sent' = sent /\ here' = here /\ taken' = taken
      /\ got' = got /\ steady' = steady
  BY DEF Norm!RecvTimesOut, Norm!handles, Norm!objects
<1>2. "sub" \in Norm!Sides BY DEF Norm!Sides
<1>3. busy'["sub"] = Norm!Idle BY <1>1, <1>2 DEF NormInv, Norm!TypeOK
<1>4. SideSound("sub") BY <1>2 DEF NormInv
<1>5. SideSound("sub")' BY <1>1, <1>3, <1>4, IdleCall DEF SideSound
<1> QED BY <1>1, <1>2, <1>5, IdleCall, CallChanges

(* bind_norm and connect_norm: the new number is above all in use. *)
LEMMA NormOpen ==
  ASSUME NormInv, NEW x \in Norm!Sides, Norm!Open(x)
  PROVE  NormInv'
<1> DEFINE n == made[x] + 1
           c == [is |-> "assign", new |-> n, at |-> 1]
<1>0. made[x] \in 0..MaxHandles /\ live[x] \subseteq 1..MaxHandles
      /\ norm[x] \in Norm!NormState
  BY DEF NormInv, Norm!TypeOK
<1>1. /\ busy[x] = Norm!Idle /\ made[x] < MaxHandles
      /\ made' = [made EXCEPT ![x] = n] /\ live' = [live EXCEPT ![x] = @ \cup {n}]
      /\ busy' = [busy EXCEPT ![x] = c]
      /\ norm' = norm /\ crashed' = crashed
      /\ interest' = interest /\ sent' = sent /\ here' = here /\ taken' = taken
      /\ got' = got /\ steady' = steady
  BY DEF Norm!Open, Norm!objects
<1>2. n \in 1..MaxHandles BY <1>0, <1>1, NormAssumption
<1>3. c \in Norm!Call
  <2> HIDE DEF n
  <2> QED BY <1>2, NormAssumption DEF Norm!Call
<1>4. /\ made' \in [Norm!Sides -> 0..MaxHandles] /\ busy' \in [Norm!Sides -> Norm!Call]
      /\ live' \in [Norm!Sides -> SUBSET (1..MaxHandles)]
      /\ made'[x] = n /\ busy'[x] = c /\ live'[x] = live[x] \cup {n}
      /\ \A y \in Norm!Sides : y # x =>
           made'[y] = made[y] /\ busy'[y] = busy[y] /\ live'[y] = live[y]
  <2> HIDE DEF n, c
  <2> QED BY <1>0, <1>1, <1>2, <1>3 DEF NormInv, Norm!TypeOK
<1>5. Norm!TypeOK' BY <1>1, <1>4 DEF NormInv, Norm!TypeOK
<1>6. ASSUME NEW y \in Norm!Sides PROVE SideSound(y)'
  <2>1. CASE y = x
    <3>1. SideSound(x) /\ busy[x].is = "none" BY <1>1, IdleCall DEF NormInv
    <3>2. /\ live[x] \subseteq 1..made[x] /\ norm[x].session <= made[x]
          /\ norm[x].session \in live[x] \cup {0} /\ norm[x].session = norm[x].instance
      BY <3>1 DEF SideSound
    <3>3. norm[x].session \in Nat BY <1>0 DEF Norm!NormState
    <3>4. /\ live'[x] \subseteq 1..made'[x] /\ norm[x].session <= made'[x]
          /\ norm[x].session # n /\ n \in live'[x]
      BY <3>2, <3>3, <1>0, <1>2, <1>4
    <3>5. busy'[x].is = "assign" /\ busy'[x].at = 1 /\ busy'[x].new = n
      <4> HIDE DEF n
      <4> QED BY <1>4
    <3> HIDE DEF n
    <3> QED BY <2>1, <3>2, <3>4, <3>5, <1>1, <1>4 DEF SideSound
  <2>2. CASE y # x
    BY <2>2, <1>1, <1>4 DEF NormInv, SideSound
  <2> QED BY <2>1, <2>2
<1>7. ObjectsSound' BY <1>1 DEF NormInv, ObjectsSound
<1> QED BY <1>1, <1>5, <1>6, <1>7 DEF NormInv

(* The first assignment of a call drops the session of the side, whose        *)
(* instance is still there.                                                   *)
LEMMA DroppingSession ==
  ASSUME NormInv, NEW x \in Norm!Sides, busy[x].is = "assign", busy[x].at = 1,
         Norm!DropSession(x), made' = made, interest' = interest,
         norm' = [norm EXCEPT ![x].session = busy[x].new],
         busy' = [busy EXCEPT ![x].at = 2]
  PROVE  NormInv'
<1> DEFINE new == busy[x].new
           c == [busy[x] EXCEPT !.at = 2]
           s == [norm[x] EXCEPT !.session = new]
<1>0. /\ norm \in [Norm!Sides -> Norm!NormState] /\ norm[x] \in Norm!NormState
      /\ busy \in [Norm!Sides -> Norm!Call] /\ busy[x] \in Norm!Call
      /\ live[x] \subseteq 1..MaxHandles /\ made[x] \in 0..MaxHandles
      /\ live \in [Norm!Sides -> SUBSET (1..MaxHandles)]
  BY DEF NormInv, Norm!TypeOK
<1>1. /\ new \in 0..MaxHandles /\ c \in Norm!Call /\ c.is = "assign" /\ c.at = 2
      /\ c.new = new
  BY <1>0, CallKinds
<1>2. s \in Norm!NormState /\ s.session = new /\ s.instance = norm[x].instance
  <2> HIDE DEF new
  <2> QED BY <1>0, <1>1 DEF Norm!NormState
<1>3. /\ norm' = [norm EXCEPT ![x] = s] /\ busy' = [busy EXCEPT ![x] = c]
      /\ live' = live
  BY DEF Norm!DropSession
<1>4. /\ norm' \in [Norm!Sides -> Norm!NormState] /\ busy' \in [Norm!Sides -> Norm!Call]
      /\ norm'[x] = s /\ busy'[x] = c
      /\ \A y \in Norm!Sides : y # x => norm'[y] = norm[y] /\ busy'[y] = busy[y]
  <2> HIDE DEF s, c
  <2> QED BY <1>0, <1>1, <1>2, <1>3
<1>5. SideSound(x) BY DEF NormInv
<1>6. /\ live[x] \subseteq 1..made[x] /\ norm[x].session \in live[x] \cup {0}
      /\ norm[x].session = norm[x].instance /\ new \in live[x] \cup {0}
      /\ new = 0 \/ new # norm[x].instance
  BY <1>5 DEF SideSound
<1>7. ~crashed' /\ crashed' \in BOOLEAN
  <2>1. crashed' = (crashed \/ norm[x].session \notin live[x] \cup {0})
    BY DEF Norm!DropSession
  <2> QED BY <2>1, <1>6, Zenon DEF NormInv, Norm!TypeOK
<1>8. ASSUME NEW y \in Norm!Sides PROVE SideSound(y)'
  <2>1. CASE y = x
    <3>1. new <= made[x] BY <1>0, <1>6
    <3>2. /\ norm'[x].session = new /\ norm'[x].instance = norm[x].instance
          /\ busy'[x].is = "assign" /\ busy'[x].at = 2 /\ busy'[x].new = new
      <4> HIDE DEF s, c, new
      <4> QED BY <1>1, <1>2, <1>4
    <3>3. live'[x] = live[x] /\ made'[x] = made[x] BY <1>3
    <3> HIDE DEF s, c, new
    <3>4. /\ live'[x] \subseteq 1..made'[x] /\ norm'[x].session <= made'[x]
          /\ norm'[x].session \in live'[x] \cup {0}
          /\ norm'[x].session = busy'[x].new
          /\ busy'[x].new = 0 \/ busy'[x].new # norm'[x].instance
      BY <3>1, <3>2, <3>3, <1>6
    <3> QED BY <2>1, <3>2, <3>4 DEF SideSound
  <2>2. CASE y # x
    BY <2>2, <1>3, <1>4 DEF NormInv, SideSound
  <2> QED BY <2>1, <2>2
<1>9. /\ ObjectsSound' /\ sent' \in Seq(NormTopics)
      /\ here' \in 0..Len(sent') /\ taken' \in 0..here' /\ got' \in Seq(1..MaxObjects)
      /\ steady' \in [is : BOOLEAN, since : 0..MaxObjects]
  <2>0. /\ ObjectsSound /\ sent \in Seq(NormTopics) /\ Len(sent) \in Nat
        /\ here \in 0..Len(sent) /\ taken \in 0..here /\ got \in Seq(1..MaxObjects)
        /\ steady \in [is : BOOLEAN, since : 0..MaxObjects]
    BY DEF NormInv, Norm!TypeOK
  <2>1. CASE x = "pub"
    <3>1. /\ sent' = SubSeq(sent, 1, here) /\ here' = here /\ taken' = taken
          /\ got' = got /\ steady' = steady
      BY <2>1 DEF Norm!DropSession
    <3>2. /\ sent' \in Seq(NormTopics) /\ Len(sent') = here
          /\ \A i \in 1..here : sent'[i] = sent[i]
      <4>1. here \in Int /\ \A i \in 1..here : sent[i] \in NormTopics BY <2>0
      <4>2. /\ sent' \in Seq(NormTopics)
            /\ Len(sent') = IF 1 <= here THEN here - 1 + 1 ELSE 0
            /\ \A i \in 1..here - 1 + 1 : sent'[i] = sent[1 + i - 1]
        BY <3>1, <4>1, SubSeqProperties
      <4>3. Len(sent') = here BY <4>2, <2>0
      <4>4. ASSUME NEW i \in 1..here PROVE sent'[i] = sent[i]
        <5>1. i \in 1..here - 1 + 1 /\ 1 + i - 1 = i BY <2>0
        <5>2. sent'[i] = sent[1 + i - 1] BY <4>2, <5>1
        <5> QED BY <5>1, <5>2
      <4> QED BY <4>2, <4>3, <4>4
    <3>3. norm'["sub"] = norm["sub"] BY <2>1, <1>4 DEF Norm!Sides
    <3>4. \A i \in 1..Len(got) : got[i] \in 1..here
      <4>0. got \in Seq(1..MaxObjects) BY <2>0, Zenon
      <4>1. \A i \in 1..Len(got) : got[i] \in 1..MaxObjects BY <4>0, SeqElements
      <4>2. \A i \in 1..Len(got) : got[i] <= taken BY <2>0 DEF ObjectsSound
      <4> QED BY <4>1, <4>2, <2>0
    <3>5. \A k \in steady.since + 1 .. taken : k \in 1..here
      BY <2>0
    <3>6. Len(sent') <= MaxObjects BY <2>0, <3>2, NormAssumption DEF ObjectsSound
    <3>7. ASSUME steady.is
          PROVE  /\ \A i \in 1..Len(got) :
                      got[i] > steady.since /\ sent'[got[i]] \in interest.topics
                 /\ \A k \in steady.since + 1 .. taken :
                      sent'[k] \in interest.topics => \E i \in 1..Len(got) : got[i] = k
      BY <2>0, <3>2, <3>4, <3>5, <3>7 DEF ObjectsSound
    <3>8. ObjectsSound'
      <4>1. /\ Len(sent') <= MaxObjects /\ steady'.since <= taken'
            /\ norm'["sub"].session = 0 => got' = <<>>
            /\ \A i \in 1..Len(got') : got'[i] <= taken'
            /\ \A i, j \in 1..Len(got') : i < j => got'[i] < got'[j]
        BY <2>0, <3>1, <3>3, <3>6 DEF ObjectsSound
      <4> QED BY <3>1, <3>7, <4>1 DEF ObjectsSound
    <3> QED BY <2>0, <3>1, <3>2, <3>8
  <2>2. CASE x # "pub"
    <3>1. /\ here' = Len(sent) /\ taken' = Len(sent) /\ got' = <<>>
          /\ steady' = [is |-> TRUE, since |-> Len(sent)] /\ sent' = sent
      BY <2>2 DEF Norm!DropSession
    <3>2. Len(sent) \in 0..MaxObjects BY <2>0, NormAssumption DEF ObjectsSound
    <3>3. steady' \in [is : BOOLEAN, since : 0..MaxObjects]
          /\ steady'.since = Len(sent)
      BY <3>1, <3>2
    <3>4. got' \in Seq(1..MaxObjects) /\ Len(got') = 0 BY <3>1
    <3>5. here' \in 0..Len(sent') /\ taken' \in 0..here' BY <3>1, <2>0
    <3>6. ObjectsSound' BY <3>1, <3>2, <3>3, <3>4 DEF ObjectsSound
    <3> QED BY <3>1, <3>3, <3>4, <3>5, <3>6, <2>0
  <2> QED BY <2>1, <2>2
<1>10. Norm!TypeOK' BY <1>3, <1>4, <1>7, <1>9 DEF NormInv, Norm!TypeOK
<1> QED BY <1>7, <1>8, <1>9, <1>10 DEF NormInv

(* The second drops the instance, which the new session does not belong to.   *)
LEMMA DroppingInstance ==
  ASSUME NormInv, NEW x \in Norm!Sides, busy[x].is = "assign", busy[x].at = 2,
         Norm!DropInstance(x), made' = made, interest' = interest,
         norm' = [norm EXCEPT ![x].instance = busy[x].new],
         busy' = [busy EXCEPT ![x] = Norm!Idle]
  PROVE  NormInv'
<1> DEFINE new == busy[x].new
           s == [norm[x] EXCEPT !.instance = new]
<1>0. /\ norm \in [Norm!Sides -> Norm!NormState] /\ norm[x] \in Norm!NormState
      /\ busy \in [Norm!Sides -> Norm!Call] /\ busy[x] \in Norm!Call
      /\ live \in [Norm!Sides -> SUBSET (1..MaxHandles)]
  BY DEF NormInv, Norm!TypeOK
<1>1. new \in 0..MaxHandles BY <1>0, CallKinds
<1>2. s \in Norm!NormState /\ s.session = norm[x].session /\ s.instance = new
  <2> HIDE DEF new
  <2> QED BY <1>0, <1>1 DEF Norm!NormState
<1>3. /\ norm' = [norm EXCEPT ![x] = s]
      /\ live' = [live EXCEPT ![x] = @ \ {norm[x].instance}]
      /\ crashed' = crashed /\ sent' = sent /\ here' = here /\ taken' = taken
      /\ got' = got /\ steady' = steady
  BY DEF Norm!DropInstance, Norm!objects
<1>4. /\ norm' \in [Norm!Sides -> Norm!NormState] /\ busy' \in [Norm!Sides -> Norm!Call]
      /\ live' \in [Norm!Sides -> SUBSET (1..MaxHandles)]
      /\ norm'[x] = s /\ busy'[x] = Norm!Idle
      /\ live'[x] = live[x] \ {norm[x].instance}
      /\ \A y \in Norm!Sides : y # x =>
           norm'[y] = norm[y] /\ busy'[y] = busy[y] /\ live'[y] = live[y]
  <2> HIDE DEF s
  <2> QED BY <1>0, <1>2, <1>3, IdleCall
<1>5. /\ live[x] \subseteq 1..made[x] /\ norm[x].session <= made[x]
      /\ norm[x].session \in live[x] \cup {0} /\ norm[x].session = new
      /\ new = 0 \/ new # norm[x].instance
  BY DEF NormInv, SideSound
<1>6. ASSUME NEW y \in Norm!Sides PROVE SideSound(y)'
  <2>1. CASE y = x
    <3> HIDE DEF s, new
    <3> QED BY <2>1, <1>2, <1>4, <1>5, IdleCall DEF SideSound
  <2>2. CASE y # x
    BY <2>2, <1>4 DEF NormInv, SideSound
  <2> QED BY <2>1, <2>2
<1>7. norm'["sub"].session = norm["sub"].session
  <2> HIDE DEF s
  <2> QED BY <1>2, <1>4 DEF Norm!Sides
<1>8. ObjectsSound' BY <1>3, <1>7 DEF NormInv, ObjectsSound
<1>9. Norm!TypeOK' BY <1>3, <1>4 DEF NormInv, Norm!TypeOK
<1> QED BY <1>3, <1>6, <1>8, <1>9 DEF NormInv

LEMMA NormAssign ==
  ASSUME NormInv, NEW x \in Norm!Sides, Norm!Assign(x)
  PROVE  NormInv'
<1>0. busy[x] \in Norm!Call /\ busy[x].is = "assign"
  BY DEF NormInv, Norm!TypeOK, Norm!Assign
<1>1. busy[x].at \in 1..2 BY <1>0, CallKinds
<1>2. CASE busy[x].at = 1
  <2>1. Norm!DropOrder[busy[x].at] = "session" BY <1>2 DEF Norm!DropOrder
  <2>2. /\ Norm!DropSession(x) /\ made' = made /\ interest' = interest
        /\ norm' = [norm EXCEPT ![x].session = busy[x].new]
        /\ busy' = [busy EXCEPT ![x].at = 2]
    BY <1>2, <2>1 DEF Norm!Assign
  <2> QED BY <1>0, <1>2, <2>2, DroppingSession
<1>3. CASE busy[x].at = 2
  <2>1. Norm!DropOrder[busy[x].at] = "instance" BY <1>3 DEF Norm!DropOrder
  <2>2. /\ Norm!DropInstance(x) /\ made' = made /\ interest' = interest
        /\ norm' = [norm EXCEPT ![x].instance = busy[x].new]
        /\ busy' = [busy EXCEPT ![x] = Norm!Idle]
    <3>1. "instance" # "session" OBVIOUS
    <3>2. Norm!DropInstance(x) /\ made' = made /\ interest' = interest
      BY <2>1, <3>1, Zenon DEF Norm!Assign
    <3>3. norm' = [norm EXCEPT ![x].instance = busy[x].new]
      <4>1. norm' = [norm EXCEPT ![x][Norm!DropOrder[busy[x].at]] = busy[x].new]
        BY Zenon DEF Norm!Assign
      <4> QED BY <2>1, <4>1, Zenon
    <3>4. busy' = [busy EXCEPT ![x] = Norm!Idle]
      BY <1>3, SMT DEF Norm!Assign
    <3> QED BY <3>2, <3>3, <3>4
  <2> QED BY <1>0, <1>3, <2>2, DroppingInstance
<1> QED BY <1>1, <1>2, <1>3

LEMMA NormSend ==
  ASSUME NormInv, NEW t \in NormTopics, Norm!Send(t)
  PROVE  NormInv'
<1>1. /\ Len(sent) < MaxObjects /\ sent' = Append(sent, t)
      /\ norm' = norm /\ made' = made /\ live' = live /\ crashed' = crashed
      /\ busy' = busy /\ interest' = interest /\ here' = here /\ taken' = taken
      /\ got' = got /\ steady' = steady
  BY DEF Norm!Send, Norm!handles
<1>2. /\ sent \in Seq(NormTopics) /\ here \in 0..Len(sent) /\ taken \in 0..here
      /\ Len(sent) \in Nat /\ steady.since \in Nat
  BY DEF NormInv, Norm!TypeOK
<1>3. got \in Seq(1..MaxObjects) BY DEF NormInv, Norm!TypeOK
<1>4. /\ sent' \in Seq(NormTopics) /\ Len(sent') = Len(sent) + 1
      /\ \A i \in 1..Len(sent) : sent'[i] = sent[i]
  BY <1>1, <1>2, AppendFrames
<1>5. \A i \in 1..Len(got) : got[i] \in 1..Len(sent)
  <2>1. \A i \in 1..Len(got) : got[i] \in 1..MaxObjects BY <1>3, SeqElements
  <2>2. \A i \in 1..Len(got) : got[i] <= taken BY DEF NormInv, ObjectsSound
  <2> QED BY <1>2, <2>1, <2>2
<1>6. \A k \in steady.since + 1 .. taken : k \in 1..Len(sent) BY <1>2
<1>7. ASSUME steady.is
      PROVE  /\ \A i \in 1..Len(got) :
                  got[i] > steady.since /\ sent'[got[i]] \in interest.topics
             /\ \A k \in steady.since + 1 .. taken :
                  sent'[k] \in interest.topics => \E i \in 1..Len(got) : got[i] = k
  BY <1>4, <1>5, <1>6, <1>7 DEF NormInv, ObjectsSound
<1>8. Len(sent') <= MaxObjects BY <1>1, <1>2, <1>4, NormAssumption
<1>9. ObjectsSound' BY <1>1, <1>7, <1>8 DEF NormInv, ObjectsSound
<1>10. here' \in 0..Len(sent') BY <1>1, <1>2, <1>4
<1>11. Norm!TypeOK' BY <1>1, <1>4, <1>10 DEF NormInv, Norm!TypeOK
<1>12. \A x \in Norm!Sides : SideSound(x)' BY <1>1 DEF NormInv, SideSound
<1> QED BY <1>1, <1>9, <1>11, <1>12 DEF NormInv

LEMMA NormArrive ==
  ASSUME NormInv, Norm!Arrive
  PROVE  NormInv'
<1>1. /\ here < Len(sent) /\ here' = here + 1
      /\ norm' = norm /\ made' = made /\ live' = live /\ crashed' = crashed
      /\ busy' = busy /\ interest' = interest /\ sent' = sent /\ got' = got
  BY DEF Norm!Arrive, Norm!handles
<1>2. /\ here \in 0..Len(sent) /\ taken \in 0..here /\ Len(sent) \in Nat
      /\ Len(sent) <= MaxObjects
  BY DEF NormInv, Norm!TypeOK, ObjectsSound
<1>3. here' \in 0..Len(sent') BY <1>1, <1>2
<1>4. \A x \in Norm!Sides : SideSound(x)' BY <1>1 DEF NormInv, SideSound
<1>5. CASE norm["sub"].session # 0
  <2>1. taken' = taken /\ steady' = steady BY <1>5 DEF Norm!Arrive
  <2>2. taken' \in 0..here' BY <1>1, <1>2, <2>1
  <2>3. ObjectsSound' BY <1>1, <2>1 DEF NormInv, ObjectsSound
  <2>4. Norm!TypeOK' BY <1>1, <1>3, <2>1, <2>2 DEF NormInv, Norm!TypeOK
  <2> QED BY <1>1, <1>4, <2>3, <2>4 DEF NormInv
<1>6. CASE norm["sub"].session = 0
  <2>1. taken' = here + 1 /\ steady' = [is |-> TRUE, since |-> here + 1]
    BY <1>6 DEF Norm!Arrive
  <2>2. got = <<>> BY <1>6 DEF NormInv, ObjectsSound
  <2>3. taken' \in 0..here' /\ here + 1 \in 0..MaxObjects
    BY <1>1, <1>2, <2>1, NormAssumption
  <2>4. steady' \in [is : BOOLEAN, since : 0..MaxObjects] /\ steady'.since = here + 1
    BY <2>1, <2>3
  <2>5. Len(got') = 0 BY <1>1, <2>2
  <2>6. ObjectsSound' BY <1>1, <1>2, <2>1, <2>2, <2>3, <2>4, <2>5 DEF ObjectsSound
  <2>7. Norm!TypeOK' BY <1>1, <1>3, <2>3, <2>4 DEF NormInv, Norm!TypeOK
  <2> QED BY <1>1, <1>4, <2>6, <2>7 DEF NormInv
<1> QED BY <1>5, <1>6

(* A change of the subscriptions before the first object is taken leaves      *)
(* nothing that was wanted behind.                                            *)
LEMMA NormChangeInterest ==
  ASSUME NormInv, NEW t \in NormTopics, Norm!ChangeInterest(t)
  PROVE  NormInv'
<1>0. /\ interest \in [topics : SUBSET NormTopics, changes : 0..MaxChanges]
      /\ steady \in [is : BOOLEAN, since : 0..MaxObjects]
      /\ taken \in Nat
  BY DEF NormInv, Norm!TypeOK
<1>1. /\ interest.changes < MaxChanges
      /\ norm' = norm /\ made' = made /\ live' = live /\ crashed' = crashed
      /\ busy' = busy /\ sent' = sent /\ here' = here /\ taken' = taken /\ got' = got
  BY DEF Norm!ChangeInterest, Norm!handles
<1>2. interest' \in [topics : SUBSET NormTopics, changes : 0..MaxChanges]
  BY <1>0, <1>1, NormAssumption DEF Norm!ChangeInterest
<1>3. /\ steady' = [steady EXCEPT !.is = (taken = steady.since /\ steady.is)]
  BY DEF Norm!ChangeInterest
<1>4. /\ steady' \in [is : BOOLEAN, since : 0..MaxObjects] /\ steady'.since = steady.since
      /\ steady'.is => taken = steady.since /\ steady.is
  BY <1>0, <1>3
<1>5. ASSUME steady'.is
      PROVE  got = <<>> /\ steady.since + 1 .. taken = {}
  <2>1. got \in Seq(1..MaxObjects) BY DEF NormInv, Norm!TypeOK
  <2>2. \A i \in 1..Len(got) : got[i] > steady.since /\ got[i] <= steady.since
    BY <1>4, <1>5 DEF NormInv, ObjectsSound
  <2>3. \A i \in 1..Len(got) : got[i] \in Nat
    <3>1. \A i \in 1..Len(got) : got[i] \in 1..MaxObjects BY <2>1, SeqElements
    <3> QED BY <3>1
  <2>4. \A i \in 1..Len(got) : FALSE BY <2>2, <2>3, <1>0
  <2>5. got = <<>> BY <2>1, <2>4
  <2> QED BY <1>0, <1>4, <1>5, <2>5
<1>6. ASSUME steady'.is
      PROVE  /\ \A i \in 1..Len(got) :
                  got[i] > steady.since /\ sent[got[i]] \in interest'.topics
             /\ \A k \in steady.since + 1 .. taken :
                  sent[k] \in interest'.topics => \E i \in 1..Len(got) : got[i] = k
  BY <1>5, <1>6
<1>7. ObjectsSound' BY <1>1, <1>4, <1>6 DEF NormInv, ObjectsSound
<1>8. Norm!TypeOK' BY <1>1, <1>2, <1>4 DEF NormInv, Norm!TypeOK
<1>9. \A x \in Norm!Sides : SideSound(x)' BY <1>1 DEF NormInv, SideSound
<1> QED BY <1>1, <1>7, <1>8, <1>9 DEF NormInv

(* recv_norm_data: an object that is wanted is returned at once. *)
LEMMA NormRecvTakes ==
  ASSUME NormInv, Norm!RecvTakes
  PROVE  NormInv'
<1> DEFINE n == taken + 1
<1>0. /\ here \in 0..Len(sent) /\ taken \in 0..here /\ Len(sent) \in Nat
      /\ Len(sent) <= MaxObjects /\ got \in Seq(1..MaxObjects)
      /\ busy \in [Norm!Sides -> Norm!Call] /\ "sub" \in Norm!Sides
      /\ busy["sub"] \in Norm!Call /\ steady.since \in Nat
  BY DEF NormInv, Norm!TypeOK, ObjectsSound, Norm!Sides
<1>1. /\ busy["sub"].is = "recv" /\ taken < here /\ taken' = n
      /\ got' = IF Norm!Returns(n) THEN Append(got, n) ELSE got
      /\ norm' = norm /\ made' = made /\ live' = live /\ crashed' = crashed
      /\ interest' = interest /\ sent' = sent /\ here' = here /\ steady' = steady
  BY DEF Norm!RecvTakes, Norm!handles
<1>2. n \in 1..MaxObjects /\ n \in 1..here BY <1>0, <1>1, NormAssumption
<1>3. norm["sub"].session # 0 /\ busy["sub"].turns >= 1 /\ SideSound("sub")
  BY <1>0, <1>1 DEF NormInv, SideSound
<1>4. \E c \in Norm!Call :
        /\ busy' = [busy EXCEPT !["sub"] = c]
        /\ c.is \in {"none", "recv"} /\ (c.is = "recv" => c.turns >= 1)
  <2>1. CASE Norm!Returns(n) \/ Norm!LastTurn
    <3>1. busy' = [busy EXCEPT !["sub"] = Norm!Idle] BY <2>1 DEF Norm!RecvTakes
    <3> QED BY <3>1, IdleCall
  <2>2. CASE ~(Norm!Returns(n) \/ Norm!LastTurn)
    <3> DEFINE c == [is |-> "recv", turns |-> busy["sub"].turns - 1]
    <3>1. busy' = [busy EXCEPT !["sub"] = c] BY <2>2 DEF Norm!RecvTakes
    <3>2. busy["sub"].turns \in 0..MaxTurns BY <1>0, <1>1, CallKinds
    <3>3. busy["sub"].turns > 1 BY <2>2, <3>2, <1>3 DEF Norm!LastTurn
    <3>4. c \in Norm!Call /\ c.is = "recv" /\ c.turns = busy["sub"].turns - 1
      BY <3>2, <3>3, NormAssumption DEF Norm!Call
    <3>5. c.turns >= 1
      <4> HIDE DEF c
      <4> QED BY <3>2, <3>3, <3>4
    <3> HIDE DEF c
    <3> QED BY <3>1, <3>4, <3>5
  <2> QED BY <2>1, <2>2
<1>5. PICK c \in Norm!Call :
        /\ busy' = [busy EXCEPT !["sub"] = c]
        /\ c.is \in {"none", "recv"} /\ (c.is = "recv" => c.turns >= 1)
  BY <1>4
<1>6. /\ busy' \in [Norm!Sides -> Norm!Call] /\ busy'["sub"] = c
      /\ \A y \in Norm!Sides : y # "sub" => busy'[y] = busy[y]
  BY <1>0, <1>5
<1>7. ASSUME NEW y \in Norm!Sides PROVE SideSound(y)'
  <2>1. CASE y = "sub"
    BY <2>1, <1>1, <1>3, <1>5, <1>6 DEF SideSound
  <2>2. CASE y # "sub" BY <2>2, <1>1, <1>6 DEF NormInv, SideSound
  <2> QED BY <2>1, <2>2
<1>8. \A i \in 1..Len(got) : got[i] \in 1..MaxObjects BY <1>0, SeqElements
<1>9. \A i \in 1..Len(got) : got[i] <= taken BY DEF NormInv, ObjectsSound
<1>10. \A i, j \in 1..Len(got) : i < j => got[i] < got[j] BY DEF NormInv, ObjectsSound
<1>11. taken' \in 0..here' /\ steady.since <= taken'
  BY <1>0, <1>1, <1>2 DEF NormInv, ObjectsSound
<1>12. steady.is =>
         /\ \A i \in 1..Len(got) :
              got[i] > steady.since /\ sent[got[i]] \in interest.topics
         /\ \A k \in steady.since + 1 .. taken :
              sent[k] \in interest.topics => \E i \in 1..Len(got) : got[i] = k
  BY DEF NormInv, ObjectsSound
<1>13. n > steady.since /\ \A k \in steady.since + 1 .. n : k = n \/ k \in steady.since + 1 .. taken
  BY <1>0 DEF NormInv, ObjectsSound
<1>14. CASE Norm!Returns(n)
  <2>1. got' = Append(got, n) /\ sent[n] \in interest.topics
    BY <1>1, <1>14 DEF Norm!Returns
  <2>2. /\ got' \in Seq(1..MaxObjects) /\ Len(got') = Len(got) + 1 /\ Len(got) \in Nat
        /\ got'[Len(got) + 1] = n /\ \A i \in 1..Len(got) : got'[i] = got[i]
    <3> HIDE DEF n
    <3> QED BY <2>1, <1>0, <1>2, AppendFrames
  <2>3. \A i \in 1..Len(got') : i \in 1..Len(got) \/ i = Len(got) + 1 BY <2>2
  <2>4. \A i \in 1..Len(got') : got'[i] <= n
    BY <2>2, <2>3, <1>0, <1>8, <1>9
  <2>5. \A i, j \in 1..Len(got') : i < j => got'[i] < got'[j]
    <3> SUFFICES ASSUME NEW i \in 1..Len(got'), NEW j \in 1..Len(got'), i < j
                 PROVE  got'[i] < got'[j]
      OBVIOUS
    <3>1. i \in 1..Len(got) BY <2>2
    <3>2. CASE j \in 1..Len(got) BY <3>1, <3>2, <2>2, <1>10
    <3>3. CASE j = Len(got) + 1
      BY <3>1, <3>3, <2>2, <1>0, <1>8, <1>9
    <3> QED BY <3>2, <3>3, <2>3
  <2>6. ASSUME steady.is
        PROVE  /\ \A i \in 1..Len(got') :
                    got'[i] > steady.since /\ sent[got'[i]] \in interest.topics
               /\ \A k \in steady.since + 1 .. n :
                    sent[k] \in interest.topics => \E i \in 1..Len(got') : got'[i] = k
    <3>1. \A i \in 1..Len(got') :
            got'[i] > steady.since /\ sent[got'[i]] \in interest.topics
      <4> HIDE DEF n
      <4> QED BY <2>1, <2>2, <2>3, <2>6, <1>12, <1>13
    <3>2. ASSUME NEW k \in steady.since + 1 .. n, sent[k] \in interest.topics
          PROVE  \E i \in 1..Len(got') : got'[i] = k
      <4>1. CASE k = n
        <5>1. Len(got) + 1 \in 1..Len(got') BY <2>2
        <5> QED BY <4>1, <5>1, <2>2
      <4>2. CASE k \in steady.since + 1 .. taken
        <5>1. PICK i \in 1..Len(got) : got[i] = k BY <4>2, <3>2, <2>6, <1>12
        <5>2. i \in 1..Len(got') BY <2>2
        <5> QED BY <5>1, <5>2, <2>2
      <4> QED BY <4>1, <4>2, <1>13
    <3> QED BY <3>1, <3>2
  <2>7. ObjectsSound'
    <3>1. got' # <<>> => norm'["sub"].session # 0 BY <1>1, <1>3
    <3>2. Len(sent') <= MaxObjects BY <1>0, <1>1
    <3> HIDE DEF n
    <3> QED BY <1>1, <1>11, <2>4, <2>5, <2>6, <1>3, <3>2 DEF ObjectsSound
  <2>8. Norm!TypeOK' BY <1>1, <1>6, <1>11, <2>2 DEF NormInv, Norm!TypeOK
  <2> QED BY <1>1, <1>7, <2>7, <2>8 DEF NormInv
<1>15. CASE ~Norm!Returns(n)
  <2>1. got' = got /\ sent[n] \notin interest.topics
    BY <1>1, <1>15 DEF Norm!Returns
  <2>2. \A i \in 1..Len(got) : got[i] <= n BY <1>0, <1>8, <1>9
  <2>3. ASSUME steady.is
        PROVE  /\ \A i \in 1..Len(got) :
                    got[i] > steady.since /\ sent[got[i]] \in interest.topics
               /\ \A k \in steady.since + 1 .. n :
                    sent[k] \in interest.topics => \E i \in 1..Len(got) : got[i] = k
    <3> HIDE DEF n
    <3> QED BY <2>1, <2>3, <1>12, <1>13
  <2>4. ObjectsSound'
    <3>1. Len(sent') <= MaxObjects BY <1>0, <1>1
    <3> HIDE DEF n
    <3> QED BY <1>1, <1>3, <1>10, <1>11, <2>1, <2>2, <2>3, <3>1 DEF ObjectsSound
  <2>5. Norm!TypeOK' BY <1>1, <1>6, <1>11, <2>1 DEF NormInv, Norm!TypeOK
  <2> QED BY <1>1, <1>7, <2>4, <2>5 DEF NormInv
<1> QED BY <1>14, <1>15

LEMMA NormNext ==
  ASSUME NormInv, Norm!Next \/ UNCHANGED normVars
  PROVE  NormInv'
<1>1. CASE UNCHANGED normVars
  BY <1>1 DEF normVars, NormInv, Norm!TypeOK, SideSound, ObjectsSound
<1> QED BY <1>1, NormOpen, NormShut, NormAssign, NormSend, NormChangeInterest, NormArrive,
           NormRecvBegins, NormRecvTakes, NormRecvTimesOut DEF Norm!Next

LEMMA NormInvImplies == NormInv => NormSound
<1> SUFFICES ASSUME NormInv PROVE NormSound
  OBVIOUS
<1>1. Norm!SessionsDieFirst BY DEF NormInv, SideSound, Norm!SessionsDieFirst
<1>2. Norm!WantedAreDelivered
  <2>0. got \in Seq(1..MaxObjects) /\ DOMAIN got = 1..Len(got)
        /\ taken \in Nat /\ steady.since \in Nat
    BY DEF NormInv, Norm!TypeOK
  <2>1. \A i, j \in DOMAIN got : i < j => got[i] < got[j]
    BY <2>0 DEF NormInv, ObjectsSound
  <2>2. ASSUME steady.is
        PROVE  {got[i] : i \in DOMAIN got} =
                 {k \in steady.since + 1 .. taken : sent[k] \in interest.topics}
    <3>1. \A i \in DOMAIN got : got[i] \in 1..MaxObjects BY <2>0, SeqElements
    <3>2. \A i \in DOMAIN got : /\ got[i] <= taken /\ got[i] > steady.since
                                /\ sent[got[i]] \in interest.topics
      BY <2>0, <2>2 DEF NormInv, ObjectsSound
    <3>3. \A i \in DOMAIN got : got[i] \in steady.since + 1 .. taken
      BY <3>1, <3>2, <2>0
    <3>4. \A k \in steady.since + 1 .. taken :
            sent[k] \in interest.topics => \E i \in DOMAIN got : got[i] = k
      BY <2>0, <2>2 DEF NormInv, ObjectsSound
    <3> QED BY <3>2, <3>3, <3>4
  <2> QED BY <2>1, <2>2 DEF Norm!WantedAreDelivered
<1> QED BY <1>1, <1>2 DEF NormInv, NormSound

(* For any number of instances, objects, topics and turns: NORM never sees a  *)
(* session destroyed after its instance, whatever is bound and connected      *)
(* anew, and of what it hands over the application gets all it wants, in      *)
(* order and once (bind_norm, connect_norm, recv_norm_data).                  *)
THEOREM NormAlwaysSound == AllSpec => []NormSound
<1>1. AllInit => NormInv BY NormInit DEF AllInit
<1>2. NormInv /\ [AllNext]_<<part, optionVars, monitorVars, yvars, webVars, udpVars,
                             normVars, codecVars>> => NormInv'
  BY NormNext DEF AllNext
<1> QED BY <1>1, <1>2, NormInvImplies, PTL DEF AllSpec

-----------------------------------------------------------------------------
(* The monitor. *)
Masks == {Monitors!LowEvents, {"closed", Monitors!Stats}}
Events == Monitors!LowEvents \cup {Monitors!Stats}
Running == [name : MonNames, version : 1..2, mask : Masks, serial : Nat]
Binding == [op : {"bind"}, name : MonNames, version : 1..2, mask : Masks]
Emitting == [op : {"emit"}, name : MonNames, event : Events, count : Nat, version : 1..2]
Pushing == [op : {"push"}, name : Listeners, event : Events, count : Nat, version : 1..2]
Bound == [owner : {"nobody", "monitor", "stranger"}, peers : Seq(Listeners), serial : Nat]
EventFrame == {f \in [event : Events, version : 1..2, place : 1..3, more : BOOLEAN] :
                 f.more = (f.place < Monitors!Parts(f.version))}

(* Frames of whole events, the first perhaps partly read. *)
Whole(q) ==
  \A i \in 1..Len(q) :
    /\ i < Len(q) => Monitors!Follows(q[i], q[i + 1])
    /\ i = Len(q) => q[i].place = Monitors!Parts(q[i].version)
Inbox == {q \in Seq(EventFrame) : Whole(q)}

(* While a name is being bound no monitor runs, so none is left behind when   *)
(* the bind fails; a monitor that runs may ask for the statistics only if its *)
(* version is the second; a call that emits is of the monitor that runs.      *)
MonitorInv ==
  /\ started \in Nat /\ pipes \in Nat
  /\ registry \in [MonNames -> Bound]
  /\ news \in [Listeners -> Inbox]
  /\ work \in {Monitors!AtRest} \cup Binding \cup Emitting \cup Pushing
  /\ monitor # Monitors!NoMonitor =>
       /\ monitor \in Running
       /\ Monitors!ValidMask(monitor.version, monitor.mask)
       /\ registry[monitor.name].owner = "monitor"
       /\ registry[monitor.name].serial = monitor.serial
  /\ \A n \in MonNames : registry[n].owner = "monitor" =>
       monitor # Monitors!NoMonitor /\ monitor.name = n
  /\ work.op = "bind" =>
       monitor = Monitors!NoMonitor /\ Monitors!ValidMask(work.version, work.mask)
  /\ work.op \in {"emit", "push"} => work.version = monitor.version

(* The kinds of work are told apart by their field op. *)
LEMMA WorkKinds ==
  ASSUME NEW w \in {Monitors!AtRest} \cup Binding \cup Emitting \cup Pushing
  PROVE  /\ w.op \in {"none", "bind", "emit", "push"}
         /\ w.op = "bind" => w \in Binding
         /\ w.op = "emit" => w \in Emitting
         /\ w.op = "push" => w \in Pushing
  BY DEF Monitors!AtRest, Binding, Emitting, Pushing

LEMMA RestingWork == Monitors!AtRest.op = "none"
  BY DEF Monitors!AtRest

LEMMA UnboundIsBound == Monitors!Unbound \in Bound /\ Monitors!Unbound.owner = "nobody"
<1>1. <<>> \in Seq(Listeners) OBVIOUS
<1> QED BY <1>1 DEF Monitors!Unbound, Bound

LEMMA EmptyInbox == <<>> \in Inbox
<1>1. <<>> \in Seq(EventFrame) /\ Len(<<>>) = 0 OBVIOUS
<1> QED BY <1>1 DEF Inbox, Whole

LEMMA MonitorInit == Monitors!Init => MonitorInv
<1> SUFFICES ASSUME Monitors!Init PROVE MonitorInv
  OBVIOUS
<1>1. /\ monitor = Monitors!NoMonitor /\ work = Monitors!AtRest /\ pipes = 0
      /\ started = 0 /\ registry = [n \in MonNames |-> Monitors!Unbound]
      /\ news = [l \in Listeners |-> <<>>]
  BY DEF Monitors!Init
<1>2. registry \in [MonNames -> Bound] /\ \A n \in MonNames : registry[n].owner = "nobody"
  BY <1>1, UnboundIsBound
<1>3. news \in [Listeners -> Inbox] BY <1>1, EmptyInbox
<1> QED BY <1>1, <1>2, <1>3, RestingWork DEF MonitorInv

(* What stop_monitor does with the names: none is a monitor's any more. *)
LEMMA NamesGivenBack ==
  ASSUME MonitorInv, Monitors!StopRunning
  PROVE  /\ registry' \in [MonNames -> Bound]
         /\ \A n \in MonNames : registry'[n].owner # "monitor"
<1>1. registry' = [n \in MonNames |-> IF n = monitor.name THEN Monitors!Unbound
                                      ELSE registry[n]]
  BY DEF Monitors!StopRunning
<1> QED BY <1>1, UnboundIsBound DEF MonitorInv

LEMMA MonitorStarts ==
  ASSUME MonitorInv, NEW n \in MonNames, NEW version \in 1..2, NEW mask \in Masks,
         Monitors!StartMonitor(n, version, mask)
  PROVE  MonitorInv'
<1> DEFINE w == [op |-> "bind", name |-> n, version |-> version, mask |-> mask]
<1>1. /\ Monitors!ValidMask(version, mask) /\ Monitors!StopRunning
      /\ monitor' = Monitors!NoMonitor /\ started' = started + 1 /\ work' = w
      /\ news' = news /\ pipes' = pipes
  BY DEF Monitors!StartMonitor
<1>2. w \in Binding /\ w.op = "bind" /\ w.version = version /\ w.mask = mask
  BY DEF Binding
<1>3. started' \in Nat BY <1>1 DEF MonitorInv
<1> HIDE DEF w
<1> QED BY <1>1, <1>2, <1>3, NamesGivenBack DEF MonitorInv

LEMMA MonitorBinds ==
  ASSUME MonitorInv, Monitors!MonitorBind
  PROVE  MonitorInv'
<1> DEFINE n == work.name
           b == [registry[n] EXCEPT !.owner = "monitor", !.serial = started]
           m == [name |-> n, version |-> work.version, mask |-> work.mask,
                 serial |-> started]
<1>1. /\ work.op = "bind" /\ registry' = [registry EXCEPT ![n] = b] /\ monitor' = m
      /\ work' = Monitors!AtRest /\ news' = news /\ pipes' = pipes /\ started' = started
  BY DEF Monitors!MonitorBind
<1>2. work \in Binding BY <1>1, WorkKinds DEF MonitorInv
<1>3. n \in MonNames /\ work.version \in 1..2 /\ work.mask \in Masks BY <1>2 DEF Binding
<1>4. registry[n] \in Bound /\ started \in Nat BY <1>3 DEF MonitorInv
<1>5. b \in Bound /\ b.owner = "monitor" /\ b.serial = started BY <1>4 DEF Bound
<1>6. /\ m \in Running /\ m.name = n /\ m.version = work.version /\ m.mask = work.mask
      /\ m.serial = started
  BY <1>3, <1>4 DEF Running
<1>7. Monitors!ValidMask(m.version, m.mask) BY <1>1, <1>6 DEF MonitorInv
<1>8. monitor = Monitors!NoMonitor BY <1>1 DEF MonitorInv
<1>9. \A k \in MonNames : registry[k].owner # "monitor" BY <1>8 DEF MonitorInv
<1>10. m # Monitors!NoMonitor
  <2>1. "serial" \in DOMAIN m /\ "serial" \notin DOMAIN Monitors!NoMonitor
    BY DEF Monitors!NoMonitor
  <2> HIDE DEF m
  <2> QED BY <2>1
<1>11. /\ registry' \in [MonNames -> Bound] /\ registry'[n] = b
       /\ \A k \in MonNames : k # n => registry'[k] = registry[k]
  <2> HIDE DEF n, b, m
  <2> QED BY <1>1, <1>3, <1>5 DEF MonitorInv
<1> HIDE DEF n, b, m
<1>12. \A k \in MonNames : registry'[k].owner = "monitor" => k = n BY <1>9, <1>11
<1>13. /\ started' \in Nat /\ pipes' \in Nat /\ news' \in [Listeners -> Inbox]
  BY <1>1 DEF MonitorInv
<1> QED BY <1>1, <1>5, <1>6, <1>7, <1>10, <1>11, <1>12, <1>13, RestingWork DEF MonitorInv

LEMMA MonitorStops ==
  ASSUME MonitorInv, Monitors!StopMonitor
  PROVE  MonitorInv'
<1>1. /\ Monitors!StopRunning /\ monitor' = Monitors!NoMonitor /\ news' = news
      /\ work = Monitors!AtRest /\ work' = work /\ pipes' = pipes /\ started' = started
  BY DEF Monitors!StopMonitor
<1> QED BY <1>1, NamesGivenBack, RestingWork DEF MonitorInv

(* Steps that only change the call the socket's thread is in. *)
LEMMA WorkChanges ==
  ASSUME MonitorInv, NEW w \in {Monitors!AtRest} \cup Emitting \cup Pushing,
         work' = w, w.op \in {"emit", "push"} => w.version = monitor.version,
         monitor' = monitor, registry' = registry, news' \in [Listeners -> Inbox],
         pipes' = pipes, started' = started
  PROVE  MonitorInv'
<1>1. w.op # "bind" BY DEF Monitors!AtRest, Emitting, Pushing
<1> QED BY <1>1 DEF MonitorInv

LEMMA MonitorBindFails ==
  ASSUME MonitorInv, Monitors!MonitorBindFails
  PROVE  MonitorInv'
<1>1. /\ work' = Monitors!AtRest /\ monitor' = monitor /\ registry' = registry
      /\ news' = news /\ pipes' = pipes /\ started' = started
  BY DEF Monitors!MonitorBindFails
<1>2. news' \in [Listeners -> Inbox] BY <1>1 DEF MonitorInv
<1> QED BY <1>1, <1>2, RestingWork, WorkChanges

LEMMA MonitorEmits ==
  ASSUME MonitorInv, NEW event \in Events,
         \/ event \in Monitors!LowEvents /\ Monitors!Emit(event)
         \/ event = Monitors!Stats /\ Monitors!PipesStats
  PROVE  MonitorInv'
<1>1. monitor # Monitors!NoMonitor BY DEF Monitors!Emit, Monitors!PipesStats
<1>2. monitor.name \in MonNames /\ monitor.version \in 1..2
      /\ Monitors!ValidMask(monitor.version, monitor.mask)
  BY <1>1 DEF MonitorInv, Running
<1>3. \E count \in Nat :
        work' = [op |-> "emit", name |-> monitor.name, event |-> event, count |-> count,
                 version |-> monitor.version]
  <2>1. CASE event \in Monitors!LowEvents /\ Monitors!Emit(event)
    BY <2>1 DEF Monitors!Emit
  <2>2. CASE event = Monitors!Stats /\ Monitors!PipesStats
    <3>1. /\ work' = [op |-> "emit", name |-> monitor.name, event |-> event,
                      count |-> pipes, version |-> 2]
          /\ Monitors!Stats \in monitor.mask /\ pipes \in Nat
      BY <2>2 DEF Monitors!PipesStats, MonitorInv
    <3>2. monitor.version = 2 BY <3>1, <1>2 DEF Monitors!ValidMask
    <3> QED BY <3>1, <3>2
  <2> QED BY <2>1, <2>2
<1>4. PICK count \in Nat :
        work' = [op |-> "emit", name |-> monitor.name, event |-> event, count |-> count,
                 version |-> monitor.version]
  BY <1>3
<1> DEFINE w == [op |-> "emit", name |-> monitor.name, event |-> event, count |-> count,
                 version |-> monitor.version]
<1>5. w \in Emitting /\ w.version = monitor.version BY <1>2, <1>4 DEF Emitting
<1>6. /\ monitor' = monitor /\ registry' = registry /\ news' = news /\ pipes' = pipes
      /\ started' = started
  BY DEF Monitors!Emit, Monitors!PipesStats
<1>7. news' \in [Listeners -> Inbox] BY <1>6 DEF MonitorInv
<1>8. work' = w BY <1>4
<1> HIDE DEF w
<1> QED BY <1>5, <1>6, <1>7, <1>8, WorkChanges

LEMMA EmitFinds ==
  ASSUME MonitorInv, Monitors!EmitFindsPeer \/ Monitors!EmitFindsNobody
  PROVE  MonitorInv'
<1>1. /\ work.op = "emit" /\ monitor' = monitor /\ registry' = registry /\ news' = news
      /\ pipes' = pipes /\ started' = started
  BY DEF Monitors!EmitFindsPeer, Monitors!EmitFindsNobody
<1>2. work \in Emitting BY <1>1, WorkKinds DEF MonitorInv
<1>3. news' \in [Listeners -> Inbox] BY <1>1 DEF MonitorInv
<1>4. CASE Monitors!EmitFindsNobody
  <2>1. work' = Monitors!AtRest BY <1>4 DEF Monitors!EmitFindsNobody
  <2> QED BY <1>1, <1>3, <2>1, RestingWork, WorkChanges
<1>5. CASE Monitors!EmitFindsPeer
  <2> DEFINE l == Head(registry[work.name].peers)
             w == [work EXCEPT !.op = "push", !.name = l]
  <2>1. registry[work.name].peers # <<>> /\ work' = w BY <1>5 DEF Monitors!EmitFindsPeer
  <2>2. registry[work.name].peers \in Seq(Listeners)
    <3>1. work.name \in MonNames BY <1>2 DEF Emitting
    <3> QED BY <3>1 DEF MonitorInv, Bound
  <2>3. l \in Listeners BY <2>1, <2>2
  <2>4. w \in Pushing /\ w.version = work.version
    <3> HIDE DEF l
    <3> QED BY <1>2, <2>3 DEF Emitting, Pushing
  <2>5. work.version = monitor.version BY <1>1 DEF MonitorInv
  <2> HIDE DEF w, l
  <2> QED BY <1>1, <1>3, <2>1, <2>4, <2>5, WorkChanges
<1> QED BY <1>4, <1>5

(* The frames of an event are a whole one. *)
LEMMA FramesAreWhole ==
  ASSUME NEW event \in Events, NEW version \in 1..2
  PROVE  /\ Monitors!Frames(event, version) \in Inbox
         /\ Len(Monitors!Frames(event, version)) >= 1
         /\ Monitors!Frames(event, version)[1].place = 1
<1> DEFINE n == Monitors!Parts(version)
           fs == Monitors!Frames(event, version)
           f(k) == [event |-> event, version |-> version, place |-> k, more |-> k < n]
<1>1. n \in 2..3 BY DEF Monitors!Parts
<1>2. fs = [k \in 1..n |-> f(k)] BY DEF Monitors!Frames
<1>3. \A k \in 1..n : f(k) \in EventFrame BY <1>1 DEF EventFrame
<1>4. fs \in Seq(EventFrame) /\ Len(fs) = n
  <2> HIDE DEF fs, f, n, EventFrame
  <2> QED BY <1>1, <1>2, <1>3
<1>5. \A k \in 1..n : /\ fs[k].event = event /\ fs[k].version = version
                       /\ fs[k].place = k /\ fs[k].more = (k < n)
  BY <1>2
<1>6. Whole(fs)
  <2> SUFFICES ASSUME NEW i \in 1..n
               PROVE  /\ i < n => Monitors!Follows(fs[i], fs[i + 1])
                      /\ i = n => fs[i].place = Monitors!Parts(fs[i].version)
    BY <1>4 DEF Whole
  <2>1. ASSUME i < n PROVE Monitors!Follows(fs[i], fs[i + 1])
    <3>1. i + 1 \in 1..n BY <1>1, <2>1
    <3> HIDE DEF fs, n
    <3> QED BY <1>1, <1>5, <2>1, <3>1 DEF Monitors!Follows
  <2>2. ASSUME i = n PROVE fs[i].place = Monitors!Parts(fs[i].version)
    <3>1. fs[i].version = version /\ fs[i].place = n BY <1>5, <2>2
    <3> QED BY <3>1
  <2> QED BY <2>1, <2>2
<1> HIDE DEF fs, n
<1>7. fs \in Inbox BY <1>4, <1>6 DEF Inbox
<1> QED BY <1>1, <1>4, <1>5, <1>7 DEF fs

(* Whole events behind whole events. *)
LEMMA InboxGrows ==
  ASSUME NEW q \in Inbox, NEW p \in Inbox, Len(p) >= 1, p[1].place = 1
  PROVE  q \o p \in Inbox
<1> DEFINE m == Len(q)
           n == Len(p)
           r == q \o p
<1>1. q \in Seq(EventFrame) /\ p \in Seq(EventFrame) /\ Whole(q) /\ Whole(p)
  BY DEF Inbox
<1>2. /\ r \in Seq(EventFrame) /\ Len(r) = m + n /\ m \in Nat /\ n \in Nat
      /\ \A i \in 1..m : r[i] = q[i]
      /\ \A i \in m + 1..m + n : r[i] = p[i - m]
  <2> HIDE DEF EventFrame
  <2> QED BY <1>1, ConcatProperties, LenProperties
<1> HIDE DEF r
<1>3. Whole(r)
  <2> SUFFICES ASSUME NEW i \in 1..m + n
               PROVE  /\ i < m + n => Monitors!Follows(r[i], r[i + 1])
                      /\ i = m + n => r[i].place = Monitors!Parts(r[i].version)
    BY <1>2 DEF Whole
  <2>1. CASE i < m
    <3>1. i \in 1..m /\ i + 1 \in 1..m /\ i # m + n BY <1>2, <2>1
    <3>2. Monitors!Follows(q[i], q[i + 1]) BY <1>1, <2>1, <3>1 DEF Whole
    <3> QED BY <1>2, <3>1, <3>2
  <2>2. CASE i = m
    <3>1. i \in 1..m /\ i + 1 \in m + 1..m + n /\ i + 1 - m = 1 /\ i # m + n BY <1>2, <2>2
    <3>2. r[i] = q[m] /\ r[i + 1] = p[1] BY <1>2, <2>2, <3>1
    <3>3. q[m].place = Monitors!Parts(q[m].version) BY <1>1, <2>2, <3>1 DEF Whole
    <3>4. q[m] \in EventFrame BY <1>1, <2>2, <3>1, SeqElements
    <3>5. ~q[m].more BY <3>3, <3>4 DEF EventFrame, Monitors!Parts
    <3>6. Monitors!Follows(q[m], p[1]) BY <3>5 DEF Monitors!Follows
    <3> QED BY <3>1, <3>2, <3>6
  <2>3. CASE i > m
    <3> DEFINE j == i - m
    <3>1. j \in 1..n /\ i \in m + 1..m + n /\ (i = m + n) = (j = n)
      BY <1>2, <2>3
    <3>2. r[i] = p[j] BY <1>2, <3>1
    <3>3. ASSUME i < m + n PROVE Monitors!Follows(r[i], r[i + 1])
      <4>1. i + 1 \in m + 1..m + n /\ i + 1 - m = j + 1 /\ j < n BY <1>2, <2>3, <3>3
      <4>2. r[i + 1] = p[j + 1] BY <1>2, <4>1
      <4>3. Monitors!Follows(p[j], p[j + 1])
        <5> HIDE DEF j
        <5> QED BY <1>1, <3>1, <4>1 DEF Whole
      <4> QED BY <3>2, <4>2, <4>3
    <3>4. ASSUME i = m + n PROVE r[i].place = Monitors!Parts(r[i].version)
      <4>1. p[j].place = Monitors!Parts(p[j].version)
        <5> HIDE DEF j
        <5> QED BY <1>1, <3>1, <3>4 DEF Whole
      <4> QED BY <3>2, <4>1
    <3> QED BY <3>3, <3>4
  <2> QED BY <1>2, <2>1, <2>2, <2>3
<1> QED BY <1>2, <1>3 DEF Inbox, r

(* Reading a frame leaves the rest of its event, and the events behind it. *)
LEMMA InboxRead ==
  ASSUME NEW q \in Inbox, q # <<>>
  PROVE  Tail(q) \in Inbox
<1> DEFINE n == Len(q)
           r == Tail(q)
<1>1. q \in Seq(EventFrame) /\ Whole(q) BY DEF Inbox
<1>2. /\ r \in Seq(EventFrame) /\ Len(r) = n - 1 /\ n \in Nat /\ n >= 1
      /\ \A i \in 1..n - 1 : r[i] = q[i + 1]
  <2> HIDE DEF EventFrame
  <2> QED BY <1>1, HeadTailProperties, LenProperties, EmptySeq
<1> HIDE DEF r
<1>3. Whole(r)
  <2> SUFFICES ASSUME NEW i \in 1..n - 1
               PROVE  /\ i < n - 1 => Monitors!Follows(r[i], r[i + 1])
                      /\ i = n - 1 => r[i].place = Monitors!Parts(r[i].version)
    BY <1>2 DEF Whole
  <2>1. i + 1 \in 1..n /\ r[i] = q[i + 1] BY <1>2
  <2>2. ASSUME i < n - 1 PROVE Monitors!Follows(r[i], r[i + 1])
    <3>1. i + 1 < n /\ i + 1 \in 1..n - 1 BY <1>2, <2>2
    <3>2. r[i + 1] = q[(i + 1) + 1] BY <1>2, <3>1
    <3>3. Monitors!Follows(q[i + 1], q[(i + 1) + 1]) BY <1>1, <2>1, <3>1 DEF Whole
    <3> QED BY <2>1, <3>2, <3>3
  <2>3. ASSUME i = n - 1 PROVE r[i].place = Monitors!Parts(r[i].version)
    <3>1. i + 1 = n BY <1>2, <2>3
    <3>2. q[i + 1].place = Monitors!Parts(q[i + 1].version) BY <1>1, <2>1, <3>1 DEF Whole
    <3> QED BY <2>1, <3>2
  <2> QED BY <2>2, <2>3
<1> QED BY <1>2, <1>3 DEF Inbox, r

LEMMA MonitorPushes ==
  ASSUME MonitorInv, Monitors!Push
  PROVE  MonitorInv'
<1> DEFINE l == work.name
           fs == Monitors!Frames(work.event, work.version)
<1>1. /\ work.op = "push" /\ news' = [news EXCEPT ![l] = @ \o fs]
      /\ work' = IF work.count > 1 THEN [work EXCEPT !.count = @ - 1] ELSE Monitors!AtRest
      /\ monitor' = monitor /\ registry' = registry /\ pipes' = pipes /\ started' = started
  BY DEF Monitors!Push
<1>2. work \in Pushing BY <1>1, WorkKinds DEF MonitorInv
<1>3. l \in Listeners /\ work.count \in Nat BY <1>2 DEF Pushing
<1>4. fs \in Inbox /\ Len(fs) >= 1 /\ fs[1].place = 1
  <2>1. work.event \in Events /\ work.version \in 1..2 BY <1>2 DEF Pushing
  <2> QED BY <2>1, FramesAreWhole
<1>5. news' \in [Listeners -> Inbox]
  <2>1. news \in [Listeners -> Inbox] BY DEF MonitorInv
  <2>2. news[l] \in Inbox BY <2>1, <1>3
  <2> HIDE DEF l, fs
  <2>3. news[l] \o fs \in Inbox BY <2>2, <1>4, InboxGrows
  <2> QED BY <2>1, <2>3, <1>1
<1>6. work.version = monitor.version BY <1>1 DEF MonitorInv
<1>7. CASE work.count > 1
  <2> DEFINE w == [work EXCEPT !.count = @ - 1]
  <2>1. work' = w BY <1>1, <1>7
  <2>2. work.count - 1 \in Nat BY <1>3, <1>7
  <2>3. w \in Pushing /\ w.version = work.version BY <1>2, <2>2 DEF Pushing
  <2> HIDE DEF w
  <2> QED BY <1>1, <1>5, <1>6, <2>1, <2>3, WorkChanges
<1>8. CASE ~(work.count > 1)
  <2>1. work' = Monitors!AtRest BY <1>1, <1>8
  <2> QED BY <1>1, <1>5, <2>1, RestingWork, WorkChanges
<1> QED BY <1>7, <1>8

(* Others change the binding of a name: no monitor's name, or its peers only. *)
LEMMA BindingChanges ==
  ASSUME MonitorInv, NEW n \in MonNames, NEW b \in Bound,
         registry' = [registry EXCEPT ![n] = b],
         \/ b.owner = registry[n].owner /\ b.serial = registry[n].serial
         \/ b.owner # "monitor" /\ registry[n].owner # "monitor",
         monitor' = monitor, news' = news, work' = work, pipes' = pipes,
         started' = started
  PROVE  MonitorInv'
<1>1. /\ registry' \in [MonNames -> Bound] /\ registry'[n] = b
      /\ \A k \in MonNames : k # n => registry'[k] = registry[k]
  BY DEF MonitorInv
<1>2. ASSUME monitor # Monitors!NoMonitor
      PROVE  /\ registry'[monitor.name].owner = "monitor"
             /\ registry'[monitor.name].serial = monitor.serial
  <2>1. /\ registry[monitor.name].owner = "monitor" /\ monitor.name \in MonNames
        /\ registry[monitor.name].serial = monitor.serial
    BY <1>2 DEF MonitorInv, Running
  <2> QED BY <1>1, <2>1
<1>3. \A k \in MonNames : registry'[k].owner = "monitor" => registry[k].owner = "monitor"
  BY <1>1
<1> QED BY <1>1, <1>2, <1>3 DEF MonitorInv

LEMMA WithoutOne ==
  ASSUME NEW S, NEW q \in Seq(S), NEW i \in 1..Len(q)
  PROVE  Monitors!RemoveAt(q, i) \in Seq(S)
<1>0. Len(q) \in Nat /\ \A j \in 1..Len(q) : q[j] \in S BY SeqElements
<1>1. SubSeq(q, 1, i - 1) \in Seq(S)
  <2>1. 1 \in Int /\ i - 1 \in Int /\ \A j \in 1..i - 1 : q[j] \in S BY <1>0
  <2> QED BY <2>1, SubSeqProperties
<1>2. SubSeq(q, i + 1, Len(q)) \in Seq(S)
  <2>1. i + 1 \in Int /\ Len(q) \in Int /\ \A j \in i + 1..Len(q) : q[j] \in S BY <1>0
  <2> QED BY <2>1, SubSeqProperties
<1> QED BY <1>1, <1>2 DEF Monitors!RemoveAt

LEMMA ListenersComeAndGo ==
  ASSUME MonitorInv, NEW n \in MonNames, NEW l \in Listeners,
         Monitors!ListenerConnects(l, n) \/ Monitors!ListenerLeaves(l, n)
  PROVE  MonitorInv'
<1>1. /\ monitor' = monitor /\ news' = news /\ work' = work /\ pipes' = pipes
      /\ started' = started
  BY DEF Monitors!ListenerConnects, Monitors!ListenerLeaves
<1>2. registry[n] \in Bound BY DEF MonitorInv
<1>3. registry[n].peers \in Seq(Listeners) BY <1>2 DEF Bound
<1>4. ASSUME NEW q \in Seq(Listeners), registry' = [registry EXCEPT ![n].peers = q]
      PROVE  MonitorInv'
  <2> DEFINE b == [registry[n] EXCEPT !.peers = q]
  <2>1. b \in Bound /\ b.owner = registry[n].owner /\ b.serial = registry[n].serial
    BY <1>2 DEF Bound
  <2>2. registry' = [registry EXCEPT ![n] = b] BY <1>4
  <2> HIDE DEF b
  <2> QED BY <1>1, <2>1, <2>2, BindingChanges
<1>5. CASE Monitors!ListenerConnects(l, n)
  <2>1. registry' = [registry EXCEPT ![n].peers = Append(registry[n].peers, l)]
    BY <1>5 DEF Monitors!ListenerConnects
  <2>2. Append(registry[n].peers, l) \in Seq(Listeners) BY <1>3
  <2> QED BY <1>4, <2>1, <2>2
<1>6. CASE Monitors!ListenerLeaves(l, n)
  <2>1. PICK i \in 1..Len(registry[n].peers) :
          registry' = [registry EXCEPT ![n].peers = Monitors!RemoveAt(registry[n].peers, i)]
    BY <1>6 DEF Monitors!ListenerLeaves
  <2>2. Monitors!RemoveAt(registry[n].peers, i) \in Seq(Listeners) BY <1>3, WithoutOne
  <2> QED BY <1>4, <2>1, <2>2
<1> QED BY <1>5, <1>6

LEMMA StrangerActs ==
  ASSUME MonitorInv, NEW n \in MonNames,
         Monitors!StrangerBinds(n) \/ Monitors!StrangerUnbinds(n)
  PROVE  MonitorInv'
<1>1. /\ monitor' = monitor /\ news' = news /\ work' = work /\ pipes' = pipes
      /\ started' = started
  BY DEF Monitors!StrangerBinds, Monitors!StrangerUnbinds
<1>2. registry[n] \in Bound BY DEF MonitorInv
<1>3. CASE Monitors!StrangerBinds(n)
  <2> DEFINE b == [registry[n] EXCEPT !.owner = "stranger"]
  <2>1. b \in Bound /\ b.owner # "monitor" BY <1>2 DEF Bound
  <2>2. registry' = [registry EXCEPT ![n] = b] /\ registry[n].owner # "monitor"
    BY <1>3 DEF Monitors!StrangerBinds, Monitors!NameFree
  <2> HIDE DEF b
  <2> QED BY <1>1, <2>1, <2>2, BindingChanges
<1>4. CASE Monitors!StrangerUnbinds(n)
  <2>1. registry' = [registry EXCEPT ![n] = Monitors!Unbound]
        /\ registry[n].owner # "monitor" /\ Monitors!Unbound.owner # "monitor"
    BY <1>4, UnboundIsBound DEF Monitors!StrangerUnbinds
  <2> QED BY <1>1, <2>1, UnboundIsBound, BindingChanges
<1> QED BY <1>3, <1>4

LEMMA MonitorNext ==
  ASSUME MonitorInv, Monitors!Next \/ UNCHANGED monitorVars
  PROVE  MonitorInv'
<1>1. ASSUME NEW n \in MonNames, NEW mask \in Masks,
             \/ Monitors!Monitor(n, mask)
             \/ \E version \in 1..2 : Monitors!MonitorVersioned(n, version, mask)
      PROVE  MonitorInv'
  <2>1. 1 \in 1..2 OBVIOUS
  <2> QED BY <1>1, <2>1, MonitorStarts DEF Monitors!Monitor, Monitors!MonitorVersioned
<1>2. ASSUME NEW l \in Listeners, Monitors!ListenerReads(l) PROVE MonitorInv'
  <2>1. /\ news[l] # <<>> /\ news' = [news EXCEPT ![l] = Tail(@)]
        /\ monitor' = monitor /\ registry' = registry /\ work' = work
        /\ pipes' = pipes /\ started' = started
    BY <1>2 DEF Monitors!ListenerReads
  <2>2. news \in [Listeners -> Inbox] BY DEF MonitorInv
  <2>3. news' \in [Listeners -> Inbox]
    <3>1. news[l] \in Inbox BY <2>2
    <3>2. Tail(news[l]) \in Inbox BY <2>1, <3>1, InboxRead
    <3> QED BY <2>1, <2>2, <3>2
  <2> QED BY <2>1, <2>3 DEF MonitorInv
<1>3. CASE Monitors!PipesChange
  BY <1>3 DEF Monitors!PipesChange, MonitorInv
<1>4. CASE UNCHANGED monitorVars BY <1>4 DEF monitorVars, MonitorInv
<1>5. ASSUME NEW event \in Monitors!LowEvents, Monitors!Emit(event) PROVE MonitorInv'
  BY <1>5, MonitorEmits DEF Events
<1>6. CASE Monitors!PipesStats BY <1>6, MonitorEmits DEF Events
<1>7. CASE Monitors!Next
  BY <1>1, <1>2, <1>3, <1>5, <1>6, <1>7, MonitorBinds, MonitorBindFails, MonitorStops,
     EmitFinds, MonitorPushes, ListenersComeAndGo, StrangerActs
     DEF Monitors!Next, Masks
<1> QED BY <1>4, <1>7

LEMMA MonitorInvImplies == MonitorInv => MonitorConsistent
<1> SUFFICES ASSUME MonitorInv PROVE MonitorConsistent
  OBVIOUS
<1>1. Monitors!TypeOK
  <2>1. work.op \in {"none", "bind", "emit", "push"} /\ (work.op = "push" => work \in Pushing)
    BY WorkKinds DEF MonitorInv
  <2> QED BY <2>1 DEF MonitorInv, Pushing, Bound, Monitors!TypeOK
<1>2. Monitors!NoOrphanedName /\ Monitors!MonitorOwnsName /\ Monitors!VersionRespected
  BY DEF MonitorInv, Monitors!NoOrphanedName, Monitors!MonitorOwnsName,
         Monitors!VersionRespected
<1>3. Monitors!EventsAreWhole
  <2>1. \A l \in Listeners : news[l] \in Inbox BY DEF MonitorInv
  <2> QED BY <2>1 DEF Inbox, Whole, Monitors!EventsAreWhole
<1> QED BY <1>1, <1>2, <1>3 DEF MonitorConsistent

(* For any names, listeners and number of monitors, and whatever the others   *)
(* do between the locks that starting, stopping and emitting take one by one: *)
(* the name of the running monitor is its own and no other name is left bound *)
(* for one, and listeners find whole events in the version they were asked    *)
(* for (monitor, stop_monitor, emit_monitor_event, monitor_pipes_stats).      *)
THEOREM MonitorAlwaysConsistent == AllSpec => []MonitorConsistent
<1>1. AllInit => MonitorInv BY MonitorInit DEF AllInit
<1>2. MonitorInv /\ [AllNext]_<<part, optionVars, monitorVars, yvars, webVars, udpVars,
                                normVars, codecVars>> => MonitorInv'
  BY MonitorNext DEF AllNext
<1> QED BY <1>1, <1>2, MonitorInvImplies, PTL DEF AllSpec

-----------------------------------------------------------------------------
(* Options. *)
Readable == Options!IntOptions \ Options!Unreadable
Boolish == Options!Flag \cup Options!NaturalFlag
Policies == [verbose_subscribe : BOOLEAN, verbose_unsubscribe : BOOLEAN,
             manual : BOOLEAN, manual_last_value : BOOLEAN]

(* A value that is taken when it is set, and kept as it is. *)
Keeps(o, v) ==
  /\ v \in Int
  /\ o \in Boolish => v \in 0..1
  /\ o \in Readable =>
       \/ Options!Accepts(o, v) /\ Options!Stored(o, v) = v
       \/ o = "HEARTBEAT_TIMEOUT" /\ v = -1

OptionsInv ==
  /\ opt \in [Tried -> Int] /\ \A o \in Tried : Keeps(o, opt[o])
  /\ fast \in BOOLEAN
  /\ fast => \A o \in {"SNDHWM", "CONFLATE"} \cap Tried : opt[o] = Options!Default(o)
  /\ policy \in Policies
  /\ policy.verbose_unsubscribe => policy.verbose_subscribe
  /\ policy.manual_last_value => policy.manual
  /\ "XPUB_MANUAL" \in Tried => (policy.manual <=> opt["XPUB_MANUAL"] = 1)
  /\ DOMAIN blob = TriedBytes
  /\ Options!DisconnectMsgAgrees

(* What can be read does not depend on the type of the socket. *)
LEMMA ReadableOfAllTypes ==
  ASSUME NEW o \in Readable
  PROVE  Options!HasOption(o) /\ Options!HasOption(o)'
<1>1. o \notin {"PROBE_ROUTER", "ROUTER_RAW", "STREAM_NOTIFY", "XPUB_MANUAL_LAST_VALUE",
                "ONLY_FIRST_SUBSCRIBE", "XSUB_VERBOSE_UNSUBSCRIBE"}
  BY DEF Readable, Options!Unreadable
<1> QED BY <1>1 DEF Options!HasOption

LEMMA KeepsOnwards ==
  ASSUME NEW o \in Options!IntOptions, NEW v, Keeps(o, v)
  PROVE  Keeps(o, v)'
<1>1. CASE o \in Readable
  <2>1. Options!HasOption(o) /\ Options!HasOption(o)' BY <1>1, ReadableOfAllTypes
  <2>2. Options!Accepts(o, v) => Options!Accepts(o, v)'
    BY <2>1 DEF Options!Accepts
  <2>3. Options!Stored(o, v)' = Options!Stored(o, v) BY DEF Options!Stored
  <2> QED BY <2>2, <2>3, Zenon DEF Keeps
<1>2. CASE o \notin Readable BY <1>2, Zenon DEF Keeps
<1> QED BY <1>1, <1>2

(* Truth values are kept as 0 and 1, times to live in whole tenths of a       *)
(* second, the rest as they are.                                              *)
LEMMA StoredIsKept ==
  ASSUME NEW o \in Options!IntOptions, NEW v \in Int, Options!Accepts(o, v)
  PROVE  Keeps(o, Options!Stored(o, v))
<1>1. CASE o \in Boolish
  <2>1. Options!Stored(o, v) \in 0..1 BY <1>1 DEF Options!Stored, Boolish
  <2>2. ASSUME NEW b \in 0..1 PROVE Keeps(o, b)
    <3>1. Options!Stored(o, b) = b BY <1>1 DEF Options!Stored, Boolish
    <3>2. Options!Accepts(o, b)
      <4>1. Options!HasOption(o) BY DEF Options!Accepts
      <4>2. CASE o \in Options!Flag BY <4>1, <4>2 DEF Options!Accepts
      <4>3. CASE o \in Options!NaturalFlag
        <5>1. b >= 0 OBVIOUS
        <5> QED BY <4>1, <4>3, <5>1 DEF Options!Accepts
      <4> QED BY <1>1, <4>2, <4>3 DEF Boolish
    <3> QED BY <3>1, <3>2 DEF Keeps
  <2> QED BY <2>1, <2>2
<1>2. CASE o = "HEARTBEAT_TTL"
  <2>0. o \notin Boolish BY <1>2 DEF Boolish, Options!Flag, Options!NaturalFlag
  <2>1. v >= 0 /\ v \div 100 <= 65535
    <3>1. o \notin Options!FromMinusOne \cup Options!FromZero \cup Options!FromOne
                   \cup Options!AnyInt \cup Options!ZeroOrOne \cup Options!Parity
                   \cup Options!Nametype
      BY <1>2 DEF Options!FromMinusOne, Options!FromZero, Options!FromOne,
                  Options!AnyInt, Options!ZeroOrOne, Options!Parity, Options!Nametype
    <3> QED BY <1>2, <2>0, <3>1 DEF Options!Accepts, Boolish
  <2> DEFINE w == (v \div 100) * 100
  <2>2. w \in Int /\ w >= 0 /\ w \div 100 = v \div 100 BY <2>1
  <2>3. Options!Stored(o, v) = w /\ Options!Stored(o, w) = (w \div 100) * 100
    BY <1>2, <2>0, Zenon DEF Options!Stored, Boolish
  <2>4. Options!HasOption(o) BY DEF Options!Accepts
  <2>5. (w \div 100) * 100 = w BY <2>2
  <2>6. w \div 100 <= 65535 BY <2>1, <2>2
  <2> HIDE DEF w
  <2>7. Options!Accepts(o, w) BY <1>2, <2>2, <2>4, <2>6 DEF Options!Accepts
  <2> QED BY <2>0, <2>2, <2>3, <2>5, <2>7 DEF Keeps
<1>3. CASE o \notin Boolish /\ o # "HEARTBEAT_TTL"
  <2>1. Options!Stored(o, v) = v BY <1>3 DEF Options!Stored, Boolish
  <2> QED BY <1>3, <2>1 DEF Keeps
<1> QED BY <1>1, <1>2, <1>3

(* The defaults can be set, but for the one that stands for another option.   *)
LEMMA DefaultIsKept ==
  ASSUME NEW o \in Options!IntOptions
  PROVE  Keeps(o, Options!Default(o))
<1> USE DEF Options!Default, Keeps, Options!Stored, Options!Accepts
<1>0. o \in Readable => Options!HasOption(o) BY ReadableOfAllTypes
<1>1. CASE o \in Options!FromMinusOne
  BY <1>0, <1>1 DEF Options!FromMinusOne, Boolish, Options!Flag, Options!NaturalFlag
<1>2. CASE o \in Options!FromZero
  BY <1>0, <1>2 DEF Options!FromZero, Options!FromMinusOne, Boolish, Options!Flag,
                    Options!NaturalFlag
<1>3. CASE o \in Options!FromOne
  BY <1>0, <1>3 DEF Options!FromOne, Options!FromMinusOne, Boolish, Options!Flag,
                    Options!NaturalFlag
<1>4. CASE o \in Options!AnyInt \cup Options!ZeroOrOne
  BY <1>0, <1>4 DEF Options!AnyInt, Options!ZeroOrOne, Options!FromMinusOne, Boolish,
                    Options!Flag, Options!NaturalFlag, Readable, Options!Unreadable
<1>5. CASE o \in Boolish
  <2>1. Options!Default(o) \in 0..1
    BY <1>5 DEF Boolish, Options!Flag, Options!NaturalFlag, Options!FromMinusOne
  <2> QED BY <1>0, <1>5, <2>1 DEF Boolish
<1>6. CASE o \in Options!Parity \cup Options!Nametype
  BY <1>0, <1>6 DEF Options!Parity, Options!Nametype, Options!FromMinusOne, Boolish,
                    Options!Flag, Options!NaturalFlag
<1>7. CASE o \in {"TCP_KEEPALIVE", "HEARTBEAT_TTL", "NORM_MODE", "NORM_BLOCK_SIZE"}
  BY <1>0, <1>7 DEF Options!FromMinusOne, Boolish, Options!Flag, Options!NaturalFlag
<1> QED BY <1>1, <1>2, <1>3, <1>4, <1>5, <1>6, <1>7 DEF Options!IntOptions, Boolish

LEMMA OptionsInit == Options!Init => OptionsInv
<1> SUFFICES ASSUME Options!Init PROVE OptionsInv
  OBVIOUS
<1>1. /\ opt = [o \in Tried |-> Options!Default(o)] /\ fast = TRUE
      /\ blob = [o \in TriedBytes |-> Options!NoBytes]
      /\ policy = Options!NoPolicy /\ lifecycle = Options!NoBytes
  BY DEF Options!Init
<1>2. \A o \in Tried : opt[o] = Options!Default(o) /\ Keeps(o, opt[o]) /\ opt[o] \in Int
  <2>1. \A o \in Tried : Keeps(o, Options!Default(o))
    BY DefaultIsKept, OptionsAssumption
  <2> QED BY <1>1, <2>1 DEF Keeps
<1>3. opt \in [Tried -> Int] BY <1>1, <1>2
<1>4. /\ policy \in Policies /\ ~policy.verbose_unsubscribe /\ ~policy.manual
      /\ ~policy.manual_last_value
  BY <1>1 DEF Options!NoPolicy, Policies
<1>5. "XPUB_MANUAL" \in Tried => opt["XPUB_MANUAL"] = 0
  <2>1. Options!Default("XPUB_MANUAL") = 0 BY DEF Options!Default, Options!FromMinusOne
  <2> QED BY <1>2, <2>1
<1>6. DOMAIN blob = TriedBytes /\ Options!DisconnectMsgAgrees
  BY <1>1 DEF Options!DisconnectMsgAgrees
<1>7. fast \in BOOLEAN BY <1>1
<1> QED BY <1>2, <1>3, <1>4, <1>5, <1>6, <1>7 DEF OptionsInv

LEMMA OptionsOpen ==
  ASSUME OptionsInv, NEW type, Options!Open(type)
  PROVE  OptionsInv'
<1>1. PICK blocky \in BOOLEAN, ipv6 \in BOOLEAN :
        opt' = [o \in Tried |-> CASE o = "LINGER" -> IF blocky THEN -1 ELSE 0
                                  [] o = "IPV6" -> IF ipv6 THEN 1 ELSE 0
                                  [] OTHER -> opt[o]]
  BY DEF Options!Open
<1>2. blob' = blob /\ fast' = fast /\ policy' = policy /\ lifecycle' = lifecycle
  BY DEF Options!Open
<1>3. ASSUME NEW v \in {-1, 0} PROVE Keeps("LINGER", v)
  <2>1. /\ "LINGER" \in Options!FromMinusOne /\ "LINGER" \notin Boolish
        /\ "LINGER" \in Options!IntOptions
    BY DEF Options!FromMinusOne, Boolish, Options!Flag, Options!NaturalFlag,
           Options!IntOptions
  <2>2. "LINGER" \in Readable => Options!HasOption("LINGER") BY ReadableOfAllTypes
  <2>3. v \in Int /\ v >= -1 OBVIOUS
  <2>4. Options!Stored("LINGER", v) = v BY <2>1 DEF Options!Stored, Boolish
  <2>5. Options!HasOption("LINGER") => Options!Accepts("LINGER", v)
    BY <2>1, <2>3 DEF Options!Accepts
  <2> QED BY <2>1, <2>2, <2>3, <2>4, <2>5 DEF Keeps
<1>4. ASSUME NEW v \in {0, 1} PROVE Keeps("IPV6", v)
  <2>1. /\ "IPV6" \in Options!ZeroOrOne /\ "IPV6" \notin Boolish
        /\ "IPV6" \in Options!IntOptions
    BY DEF Options!ZeroOrOne, Boolish, Options!Flag, Options!NaturalFlag,
           Options!IntOptions
  <2>2. "IPV6" \in Readable => Options!HasOption("IPV6") BY ReadableOfAllTypes
  <2>3. v \in Int /\ v \in 0..1 OBVIOUS
  <2>4. Options!Stored("IPV6", v) = v BY <2>1 DEF Options!Stored, Boolish
  <2>5. Options!HasOption("IPV6") => Options!Accepts("IPV6", v)
    BY <2>1, <2>3 DEF Options!Accepts
  <2> QED BY <2>1, <2>2, <2>3, <2>4, <2>5 DEF Keeps
<1>5. ASSUME NEW o \in Tried PROVE Keeps(o, opt'[o]) /\ opt'[o] \in Int
  <2>1. CASE o = "LINGER"
    <3>1. opt'[o] \in {-1, 0} BY <1>1, <2>1
    <3> QED BY <2>1, <3>1, <1>3
  <2>2. CASE o = "IPV6"
    <3>1. opt'[o] \in {0, 1} BY <1>1, <2>2
    <3> QED BY <2>2, <3>1, <1>4
  <2>3. CASE o # "LINGER" /\ o # "IPV6"
    <3>1. opt'[o] = opt[o] BY <1>1, <2>3
    <3> QED BY <3>1 DEF OptionsInv
  <2> QED BY <2>1, <2>2, <2>3
<1>6. \A o \in Tried : o # "LINGER" /\ o # "IPV6" => opt'[o] = opt[o] BY <1>1
<1>7. opt' \in [Tried -> Int] BY <1>1, <1>5
<1>8. \A o \in Tried : Keeps(o, opt[o])'
  BY <1>5, KeepsOnwards, OptionsAssumption
<1>9. \A o \in Tried : Options!Default(o)' = Options!Default(o) BY DEF Options!Default
<1> QED BY <1>2, <1>6, <1>7, <1>8, <1>9 DEF OptionsInv, Options!DisconnectMsgAgrees

LEMMA OptionsSetBytes ==
  ASSUME OptionsInv, NEW o \in TriedBytes, NEW b, Options!SetBytes(o, b)
  PROVE  OptionsInv'
<1>1. /\ blob' = [blob EXCEPT ![o] = b] /\ lifecycle' = Options!Copied(o, b)
      /\ stype' = stype /\ opt' = opt /\ fast' = fast /\ policy' = policy
  BY DEF Options!SetBytes
<1>2. DOMAIN blob' = TriedBytes BY <1>1 DEF OptionsInv
<1>3. Options!DisconnectMsgAgrees'
  BY <1>1, <1>2 DEF OptionsInv, Options!DisconnectMsgAgrees, Options!Copied
<1>4. \A p \in Tried : Keeps(p, opt[p])'
  BY <1>1, KeepsOnwards, OptionsAssumption DEF OptionsInv
<1> QED BY <1>1, <1>2, <1>3, <1>4 DEF OptionsInv

(* However the XPUB options follow each other, the flags fit together. *)
LEMMA PolicyFits ==
  ASSUME OptionsInv, NEW o, NEW on \in BOOLEAN
  PROVE  LET p == Options!PolicyAfter(o, on) IN
         /\ p \in Policies
         /\ p.verbose_unsubscribe => p.verbose_subscribe
         /\ p.manual_last_value => p.manual
         /\ p.manual = IF o \in {"XPUB_MANUAL", "XPUB_MANUAL_LAST_VALUE"} THEN on
                       ELSE policy.manual
<1>0. /\ policy \in Policies
      /\ policy.verbose_unsubscribe => policy.verbose_subscribe
      /\ policy.manual_last_value => policy.manual
  BY DEF OptionsInv
<1>1. CASE o = "XPUB_VERBOSE" BY <1>0, <1>1 DEF Options!PolicyAfter, Policies
<1>2. CASE o = "XPUB_VERBOSER" BY <1>0, <1>2 DEF Options!PolicyAfter, Policies
<1>3. CASE o = "XPUB_MANUAL" BY <1>0, <1>3 DEF Options!PolicyAfter, Policies
<1>4. CASE o = "XPUB_MANUAL_LAST_VALUE" BY <1>0, <1>4 DEF Options!PolicyAfter, Policies
<1>5. CASE o \notin {"XPUB_VERBOSE", "XPUB_VERBOSER", "XPUB_MANUAL",
                     "XPUB_MANUAL_LAST_VALUE"}
  BY <1>0, <1>5 DEF Options!PolicyAfter
<1> QED BY <1>1, <1>2, <1>3, <1>4, <1>5

LEMMA OptionsSetInt ==
  ASSUME OptionsInv, NEW o \in Tried, NEW v \in IntValues, Options!SetInt(o, v)
  PROVE  OptionsInv'
<1> DEFINE also == IF o = "XPUB_MANUAL_LAST_VALUE" THEN {o, "XPUB_MANUAL"} ELSE {o}
           kept == Options!Stored(o, v)
<1>0. o \in Options!IntOptions /\ v \in Int /\ Options!Accepts(o, v)
  BY OptionsAssumption DEF Options!SetInt
<1>1. /\ opt' = [p \in Tried |-> IF p \in also THEN kept ELSE opt[p]]
      /\ policy' = Options!PolicyAfter(o, v # 0)
      /\ fast' = (fast /\ ~Options!DisablesFast(o))
      /\ stype' = stype /\ blob' = blob /\ lifecycle' = lifecycle
  BY DEF Options!SetInt
<1>2. Keeps(o, kept) BY <1>0, StoredIsKept
<1>3. o \in Boolish => kept = IF v = 0 THEN 0 ELSE 1
  BY DEF Options!Stored, Boolish
<1>4. "XPUB_MANUAL" \in Boolish /\ "XPUB_MANUAL_LAST_VALUE" \in Boolish
      /\ "XPUB_MANUAL" \in Options!IntOptions
  BY DEF Boolish, Options!Flag, Options!NaturalFlag, Options!IntOptions
<1>5. ASSUME "XPUB_MANUAL" \in also PROVE Keeps("XPUB_MANUAL", kept)
  <2>1. CASE o = "XPUB_MANUAL" BY <2>1, <1>2
  <2>2. CASE o = "XPUB_MANUAL_LAST_VALUE"
    <3>1. kept \in 0..1 BY <2>2, <1>3, <1>4
    <3>2. Options!Stored("XPUB_MANUAL", kept) = kept
      <4> HIDE DEF kept
      <4> QED BY <3>1, <1>4 DEF Options!Stored, Boolish
    <3>3. Options!HasOption("XPUB_MANUAL") BY DEF Options!HasOption
    <3>4. Options!Accepts("XPUB_MANUAL", kept)
      <4>1. "XPUB_MANUAL" \in Options!Flag BY DEF Options!Flag
      <4> HIDE DEF kept
      <4> QED BY <3>3, <4>1 DEF Options!Accepts
    <3> HIDE DEF kept
    <3> QED BY <3>1, <3>2, <3>4 DEF Keeps
  <2> QED BY <2>1, <2>2, <1>5
<1>6. ASSUME NEW p \in Tried PROVE Keeps(p, opt'[p]) /\ opt'[p] \in Int
  <2>1. CASE p \in also
    <3>1. opt'[p] = kept BY <1>1, <2>1
    <3>2. p = o \/ p = "XPUB_MANUAL" BY <2>1
    <3> HIDE DEF kept, also
    <3>3. Keeps(p, kept) BY <1>2, <1>5, <2>1, <3>2
    <3> QED BY <3>1, <3>3 DEF Keeps
  <2>2. CASE p \notin also
    <3>1. opt'[p] = opt[p] BY <1>1, <2>2
    <3> QED BY <3>1 DEF OptionsInv
  <2> QED BY <2>1, <2>2
<1>7. opt' \in [Tried -> Int]
  <2> HIDE DEF kept, also
  <2> QED BY <1>1, <1>6
<1>8. \A p \in Tried : Keeps(p, opt[p])' BY <1>6, KeepsOnwards, OptionsAssumption
<1>9. fast' \in BOOLEAN BY <1>1
<1>10. ASSUME fast', NEW p \in {"SNDHWM", "CONFLATE"} \cap Tried
       PROVE  opt'[p] = Options!Default(p)'
  <2>1. fast /\ o \notin {"SNDHWM", "CONFLATE"} BY <1>1, <1>10 DEF Options!DisablesFast
  <2>2. p \notin also BY <2>1
  <2>3. opt'[p] = opt[p]
    <3> HIDE DEF also, kept
    <3> QED BY <1>1, <2>2
  <2>4. opt[p] = Options!Default(p) BY <2>1 DEF OptionsInv
  <2>5. Options!Default(p)' = Options!Default(p) BY DEF Options!Default
  <2> QED BY <2>3, <2>4, <2>5
<1>11. /\ policy' \in Policies
       /\ policy'.verbose_unsubscribe => policy'.verbose_subscribe
       /\ policy'.manual_last_value => policy'.manual
       /\ policy'.manual = IF o \in {"XPUB_MANUAL", "XPUB_MANUAL_LAST_VALUE"} THEN v # 0
                           ELSE policy.manual
  <2>1. (v # 0) \in BOOLEAN OBVIOUS
  <2> QED BY <1>1, <2>1, PolicyFits
<1>12. ASSUME "XPUB_MANUAL" \in Tried
       PROVE  policy'.manual <=> opt'["XPUB_MANUAL"] = 1
  <2>1. CASE o \in {"XPUB_MANUAL", "XPUB_MANUAL_LAST_VALUE"}
    <3>1. policy'.manual = (v # 0) BY <1>11, <2>1
    <3>2. "XPUB_MANUAL" \in also BY <2>1
    <3>3. opt'["XPUB_MANUAL"] = kept
      <4> HIDE DEF also, kept
      <4> QED BY <1>1, <1>12, <3>2
    <3>4. kept = IF v = 0 THEN 0 ELSE 1 BY <1>3, <1>4, <2>1
    <3> HIDE DEF kept
    <3>5. kept = 1 <=> v # 0 BY <3>4
    <3>6. policy'.manual <=> v # 0 BY <3>1, Zenon
    <3> QED BY <3>3, <3>5, <3>6, Zenon
  <2>2. CASE o \notin {"XPUB_MANUAL", "XPUB_MANUAL_LAST_VALUE"}
    <3>1. policy'.manual = policy.manual BY <1>11, <2>2
    <3>2. "XPUB_MANUAL" \notin also BY <2>2
    <3>3. opt'["XPUB_MANUAL"] = opt["XPUB_MANUAL"]
      <4> HIDE DEF also, kept
      <4> QED BY <1>1, <1>12, <3>2
    <3> QED BY <1>12, <3>1, <3>3 DEF OptionsInv
  <2> QED BY <2>1, <2>2
<1>13. DOMAIN blob' = TriedBytes /\ Options!DisconnectMsgAgrees'
  BY <1>1 DEF OptionsInv, Options!DisconnectMsgAgrees
<1> QED BY <1>7, <1>8, <1>9, <1>10, <1>11, <1>12, <1>13 DEF OptionsInv

LEMMA OptionsNext ==
  ASSUME OptionsInv, Options!Next \/ UNCHANGED optionVars
  PROVE  OptionsInv'
<1>1. CASE UNCHANGED optionVars
  <2>1. /\ stype' = stype /\ opt' = opt /\ blob' = blob /\ fast' = fast
        /\ policy' = policy /\ lifecycle' = lifecycle
    BY <1>1 DEF optionVars
  <2>2. \A p \in Tried : Keeps(p, opt[p])'
    BY <2>1, KeepsOnwards, OptionsAssumption DEF OptionsInv
  <2> QED BY <2>1, <2>2 DEF OptionsInv, Options!DisconnectMsgAgrees
<1>2. ASSUME NEW o \in TriedBytes, Options!Restore(o) PROVE OptionsInv'
  BY <1>2, OptionsSetBytes DEF Options!Restore
<1>3. CASE Options!Next
  BY <1>2, <1>3, OptionsOpen, OptionsSetInt, OptionsSetBytes DEF Options!Next
<1> QED BY <1>1, <1>3

LEMMA OptionsInvImplies == OptionsInv => OptionsConsistent
<1> SUFFICES ASSUME OptionsInv PROVE OptionsConsistent
  OBVIOUS
<1>1. Options!TypeOK
  <2>1. \A o \in Tried : opt[o] \in Int /\ (o \in Options!Flag \cup Options!NaturalFlag
                                              => opt[o] \in 0..1)
    BY DEF OptionsInv, Keeps, Boolish
  <2>2. DOMAIN policy = DOMAIN Options!NoPolicy
    BY DEF OptionsInv, Policies, Options!NoPolicy
  <2> QED BY <2>1, <2>2 DEF OptionsInv, Options!TypeOK
<1>2. Options!IntsRestore
  <2>1. \A o \in Tried \ Options!Unreadable : o \in Readable
    BY OptionsAssumption DEF Readable
  <2> QED BY <2>1 DEF OptionsInv, Keeps, Options!IntsRestore
<1>3. Options!PolicyConsistent
  <2>1. policy.manual \in BOOLEAN BY DEF OptionsInv, Policies
  <2>2. "XPUB_MANUAL" \in Tried => policy.manual = (opt["XPUB_MANUAL"] = 1)
    BY <2>1 DEF OptionsInv
  <2> QED BY <2>2 DEF OptionsInv, Options!PolicyConsistent
<1>4. Options!FastPathUnlimited BY DEF OptionsInv, Options!FastPathUnlimited
<1>5. Options!DisconnectMsgAgrees BY DEF OptionsInv
<1> QED BY <1>1, <1>2, <1>3, <1>4, <1>5 DEF OptionsConsistent

(* For any of the options, values and orders of setting them: what is read    *)
(* can be set again, the policy the subscriptions meet is what the options    *)
(* say, the fast path is closed once a mark or conflation was set, and the    *)
(* copy of the disconnect message is the option (set_option_i32,              *)
(* set_option_bytes, get_option_i32).                                         *)
THEOREM OptionsAlwaysConsistent == AllSpec => []OptionsConsistent
<1>1. AllInit => OptionsInv BY OptionsInit DEF AllInit
<1>2. OptionsInv /\ [AllNext]_<<part, optionVars, monitorVars, yvars, webVars, udpVars,
                                normVars, codecVars>> => OptionsInv'
  BY OptionsNext DEF AllNext
<1> QED BY <1>1, <1>2, OptionsInvImplies, PTL DEF AllSpec

-----------------------------------------------------------------------------
(* WebSocket.  Every end of a connection has at most one owner, a socket or a *)
(* backlog, and each part of what the kernel holds follows from how far its   *)
(* owners are: see WebOK below.                                               *)
USE DEF Web!Ends

(* q is what may be read at end e of connection c, where g frames have been   *)
(* read: at most one handshake unit, of this connection, and then frames in   *)
(* order.                                                                     *)
Buffer(q, e, c, g) ==
  /\ Web!Ahead(q) = 1 =>
       Head(q).what = (IF e = "server" THEN "req" ELSE "resp") /\ Head(q).key = c
  /\ \A i \in 1 .. Len(q) - Web!Ahead(q) :
       LET u == q[Web!Ahead(q) + i] IN
       u.what = "frame" /\ u.n = g + i /\ u.masked = (e = "server")

LEMMA UnitKinds ==
  ASSUME NEW u \in Web!Unit
  PROVE  /\ u.what \in {"req", "resp", "frame"}
         /\ u.what = "frame" => u.n \in 1..MaxCalls /\ u.masked \in BOOLEAN
         /\ u.what # "frame" => u.key \in 1..MaxConns
  BY DEF Web!Unit

LEMMA SeqEnds ==
  ASSUME NEW S, NEW q \in Seq(S), q # <<>>
  PROVE  /\ Len(q) \in Nat /\ Len(q) >= 1 /\ Head(q) = q[1] /\ Head(q) \in S
  OBVIOUS

LEMMA SameElements ==
  ASSUME NEW S, NEW p \in Seq(S), NEW q \in Seq(S), Len(p) = Len(q),
         \A i \in 1..Len(p) : p[i] = q[i]
  PROVE  p = q
  OBVIOUS

LEMMA RangeIs ==
  ASSUME NEW S, NEW q \in Seq(S)
  PROVE  Web!Range(q) = {q[i] : i \in 1..Len(q)}
  BY DEF Web!Range

LEMMA EmptyBuffer ==
  ASSUME NEW e, NEW c, NEW g
  PROVE  Web!Ahead(<<>>) = 0 /\ Buffer(<<>>, e, c, g)
  BY DEF Web!Ahead, Buffer

LEMMA OneUnitBuffer ==
  ASSUME NEW e \in Web!Ends, NEW c, NEW g,
         NEW u, u.what = (IF e = "server" THEN "req" ELSE "resp"), u.key = c
  PROVE  Web!Ahead(<<u>>) = 1 /\ Buffer(<<u>>, e, c, g) /\ Len(<<u>>) = 1
  BY DEF Web!Ahead, Buffer

LEMMA AheadIs ==
  ASSUME NEW q \in Seq(Web!Unit)
  PROVE  /\ Web!Ahead(q) \in {0, 1} /\ Len(q) \in Nat /\ Web!Ahead(q) <= Len(q)
         /\ q = <<>> => Web!Ahead(q) = 0
  BY DEF Web!Ahead

LEMMA FrameAppended ==
  ASSUME NEW e \in Web!Ends, NEW c, NEW g \in Nat, NEW q \in Seq(Web!Unit),
         Buffer(q, e, c, g), NEW u \in Web!Unit, u.what = "frame",
         u.n = g + Len(q) - Web!Ahead(q) + 1, u.masked = (e = "server")
  PROVE  /\ Append(q, u) \in Seq(Web!Unit) /\ Append(q, u) # <<>>
         /\ Len(Append(q, u)) = Len(q) + 1
         /\ Web!Ahead(Append(q, u)) = Web!Ahead(q)
         /\ Buffer(Append(q, u), e, c, g)
<1> DEFINE r == Append(q, u)
           h == Web!Ahead(q)
<1>0. h \in {0, 1} /\ Len(q) \in Nat /\ h <= Len(q) BY AheadIs
<1>1. /\ r \in Seq(Web!Unit) /\ r # <<>> /\ Len(r) = Len(q) + 1
      /\ r[Len(q) + 1] = u /\ \A i \in 1..Len(q) : r[i] = q[i]
  OBVIOUS
<1>2. Head(r) = r[1] /\ (q # <<>> => Len(q) >= 1 /\ Head(q) = q[1])
  BY <1>1, SeqEnds
<1>3. Web!Ahead(r) = h /\ (h = 1 => Head(r) = Head(q))
  <2>1. CASE q = <<>>
    <3>1. Len(q) = 0 /\ r[1] = u BY <2>1, <1>1
    <3> QED BY <2>1, <3>1, <1>1, <1>2 DEF Web!Ahead
  <2>2. CASE q # <<>>
    <3>1. r[1] = q[1] BY <1>0, <1>1, <1>2, <2>2
    <3> QED BY <2>2, <3>1, <1>1, <1>2 DEF Web!Ahead
  <2> QED BY <2>1, <2>2
<1> HIDE DEF r, h
<1>4. ASSUME NEW i \in 1..Len(r) - h
      PROVE  r[h + i].what = "frame" /\ r[h + i].n = g + i /\ r[h + i].masked = (e = "server")
  <2>1. CASE i \in 1..Len(q) - h
    <3>1. h + i \in 1..Len(q) BY <1>0, <2>1
    <3>2. r[h + i] = q[h + i] BY <3>1, <1>1
    <3> QED BY <2>1, <3>2 DEF Buffer, h
  <2>2. CASE i = Len(q) - h + 1
    <3>1. h + i = Len(q) + 1 BY <1>0, <2>2
    <3>2. r[h + i] = u BY <3>1, <1>1
    <3>3. u.n = g + i BY <1>0, <2>2 DEF h
    <3> QED BY <3>2, <3>3
  <2> QED BY <2>1, <2>2, <1>0, <1>1
<1>5. Buffer(r, e, c, g) BY <1>3, <1>4 DEF Buffer, h
<1> QED BY <1>1, <1>3, <1>5 DEF r, h

LEMMA UnitTaken ==
  ASSUME NEW e \in Web!Ends, NEW c, NEW g \in Nat, NEW q \in Seq(Web!Unit), q # <<>>,
         Buffer(q, e, c, g)
  PROVE  /\ Tail(q) \in Seq(Web!Unit) /\ Len(Tail(q)) = Len(q) - 1
         /\ Web!Ahead(Tail(q)) = 0
         /\ Web!Ahead(q) = 1 => Buffer(Tail(q), e, c, g)
         /\ Web!Ahead(q) = 0 => Head(q).n = g + 1 /\ Buffer(Tail(q), e, c, g + 1)
<1> DEFINE r == Tail(q)
           h == Web!Ahead(q)
<1>0. h \in {0, 1} /\ Len(q) \in Nat /\ h <= Len(q) /\ Len(q) >= 1 /\ Head(q) = q[1]
  BY AheadIs, SeqEnds
<1>1. /\ r \in Seq(Web!Unit) /\ Len(r) = Len(q) - 1
      /\ \A i \in 1..Len(q) - 1 : r[i] = q[i + 1]
  OBVIOUS
<1>2. \A i \in 1..Len(q) - h :
        /\ q[h + i].what = "frame" /\ q[h + i].n = g + i
        /\ q[h + i].masked = (e = "server")
  BY DEF Buffer
<1>3. Web!Ahead(r) = 0
  <2>1. CASE r = <<>> BY <2>1, EmptyBuffer
  <2>2. CASE r # <<>>
    <3>1. Head(r) = r[1] /\ Len(r) >= 1 BY <1>1, <2>2, SeqEnds
    <3>2. r[1] = q[2] /\ Len(q) >= 2
      <4> HIDE DEF r
      <4> QED BY <3>1, <1>0, <1>1
    <3>3. 2 - h \in 1..Len(q) - h /\ h + (2 - h) = 2
      <4> HIDE DEF h
      <4> QED BY <3>2, <1>0
    <3>4. q[2].what = "frame" BY <3>3, <1>2
    <3> QED BY <3>1, <3>2, <3>4 DEF Web!Ahead
  <2> QED BY <2>1, <2>2
<1> HIDE DEF r, h
<1>4. ASSUME h = 1 PROVE Buffer(r, e, c, g)
  <2> SUFFICES ASSUME NEW i \in 1..Len(r)
               PROVE  r[i].what = "frame" /\ r[i].n = g + i /\ r[i].masked = (e = "server")
    BY <1>1, <1>3 DEF Buffer
  <2>1. i \in 1..Len(q) - h /\ i \in 1..Len(q) - 1 /\ h + i = i + 1 BY <1>0, <1>1, <1>4
  <2> QED BY <2>1, <1>1, <1>2
<1>5. ASSUME h = 0 PROVE Head(q).n = g + 1 /\ Buffer(r, e, c, g + 1)
  <2>1. 1 \in 1..Len(q) - h /\ h + 1 = 1 BY <1>0, <1>5
  <2>2. Head(q).n = g + 1 BY <2>1, <1>0, <1>2
  <2>3. ASSUME NEW i \in 1..Len(r)
        PROVE  r[i].what = "frame" /\ r[i].n = g + 1 + i /\ r[i].masked = (e = "server")
    <3>1. i + 1 \in 1..Len(q) - h /\ i \in 1..Len(q) - 1 /\ h + (i + 1) = i + 1
      BY <1>0, <1>1, <1>5
    <3>2. r[i] = q[i + 1] /\ q[i + 1].n = g + (i + 1) BY <3>1, <1>1, <1>2
    <3>3. q[i + 1].what = "frame" /\ q[i + 1].masked = (e = "server") BY <3>1, <1>2
    <3> QED BY <3>2, <3>3
  <2>4. Buffer(r, e, c, g + 1)
    BY <1>1, <1>3, <2>3 DEF Buffer
  <2> QED BY <2>2, <2>4
<1> QED BY <1>1, <1>3, <1>4, <1>5 DEF r, h

(* The kernel's view k of connection c: nothing is lost while both ends are   *)
(* open, and nothing arrives that was not sent.                               *)
Traffic(k, c) ==
  \A e \in Web!Ends :
    LET sofar == k.got[e] + Len(k.to[e]) - Web!Ahead(k.to[e]) IN
    /\ Buffer(k.to[e], e, c, k.got[e])
    /\ sofar <= k.sent[Web!Other(e)]
    /\ k.open = Web!Ends => sofar = k.sent[Web!Other(e)]

(* What is there to be read begins with the handshake unit until that is      *)
(* read.                                                                      *)
Fits(q, done) == q # <<>> => Web!Ahead(q) = IF done THEN 0 ELSE 1

(* The server's end, held by a socket or still in a backlog: before it has    *)
(* read the request it has written nothing.                                   *)
ServerSide(k, done) ==
  /\ Fits(k.to["server"], done)
  /\ ~done => k.sent["server"] = 0 /\ k.to["client"] = <<>>

(* The client's end, held by a socket with state u: before it has written the *)
(* request it has written nothing.                                            *)
ClientSide(sec, u, k) ==
  /\ u.key = u.conn
  /\ sec /\ ~u.asked => /\ ~u.done
                        /\ k.sent["client"] = 0 /\ k.to["server"] = <<>>
  /\ Fits(k.to["client"], u.done)

(* Both ends: a request that is written is read by a server's end that is not *)
(* done, and its response by a client's end that is not done.                 *)
Pair(sec, u, done, k) ==
  /\ ~done => ~u.done
  /\ done => (sec => u.asked)
  /\ done /\ ~u.done => k.to["client"] # <<>>
  /\ ~done /\ (sec => u.asked) => k.to["server"] # <<>>

(* A socket of state u with connection k. *)
Holds(sec, u, k) ==
  /\ u.end \in k.open
  /\ u.bound <=> u.end = "server"
  /\ u.connected <=> u.end = "client"
  /\ u.end = "client" => ClientSide(sec, u, k)
  /\ u.end = "server" => ServerSide(k, u.done)

(* A socket of state u with backlog q. *)
Alone(u, q) ==
  /\ u.listener <=> u.bound
  /\ ~(u.bound /\ u.connected)
  /\ u.conn = 0 => ~u.connected /\ ~u.done
  /\ ~u.listener => q = <<>>

(* Each end of a connection has one owner. *)
Unique(x, b) ==
  /\ \A s, t \in WsSockets :
       x[s].conn # 0 /\ x[s].conn = x[t].conn /\ x[s].end = x[t].end => s = t
  /\ \A s, t \in WsSockets : \A i \in 1..Len(b[t]) :
       b[t][i] = x[s].conn => x[s].end = "client"
  /\ \A s, t \in WsSockets : \A i \in 1..Len(b[s]), j \in 1..Len(b[t]) :
       b[s][i] = b[t][j] => s = t /\ i = j

Paired(sec, x, w, b) ==
  \A s, t \in WsSockets : x[s].conn # 0 /\ x[s].end = "client" =>
    /\ x[t].conn = x[s].conn /\ x[t].end = "server" =>
         Pair(sec, x[s], x[t].done, w[x[s].conn])
    /\ \A i \in 1..Len(b[t]) :
         b[t][i] = x[s].conn => Pair(sec, x[s], FALSE, w[x[s].conn])

Shape(x, w, b) ==
  /\ x \in [WsSockets -> Web!State]
  /\ w \in Seq(Web!Conn) /\ Len(w) <= MaxConns
  /\ b \in [WsSockets -> Seq(1..Len(w))]
  /\ \A s \in WsSockets : x[s].conn <= Len(w)

WebOK(sec, x, w, b) ==
  /\ Shape(x, w, b)
  /\ \A c \in 1..Len(w) : Traffic(w[c], c)
  /\ \A s \in WsSockets : Alone(x[s], b[s])
  /\ \A s \in WsSockets : x[s].conn # 0 => Holds(sec, x[s], w[x[s].conn])
  /\ \A s \in WsSockets : \A i \in 1..Len(b[s]) :
       "server" \in w[b[s][i]].open /\ ServerSide(w[b[s][i]], FALSE)
  /\ Unique(x, b)
  /\ Paired(sec, x, w, b)

WebInv == secure \in BOOLEAN /\ WebOK(secure, ws, wire, backlog)

LEMMA ConnFields ==
  ASSUME NEW k \in Web!Conn
  PROVE  /\ k.to \in [Web!Ends -> Seq(Web!Unit)] /\ k.open \subseteq Web!Ends
         /\ k.sent \in [Web!Ends -> 0..MaxCalls] /\ k.got \in [Web!Ends -> 0..MaxCalls]
         /\ \A e \in Web!Ends : /\ k.to[e] \in Seq(Web!Unit) /\ Len(k.to[e]) \in Nat
                                /\ k.sent[e] \in 0..MaxCalls /\ k.got[e] \in 0..MaxCalls
<1>1. /\ k.to \in [Web!Ends -> Seq(Web!Unit)] /\ k.open \subseteq Web!Ends
      /\ k.sent \in [Web!Ends -> 0..MaxCalls] /\ k.got \in [Web!Ends -> 0..MaxCalls]
  BY DEF Web!Conn
<1>2. \A e \in Web!Ends : k.to[e] \in Seq(Web!Unit) BY <1>1
<1>3. \A e \in Web!Ends : Len(k.to[e]) \in Nat BY <1>2, SeqElements
<1> QED BY <1>1, <1>2, <1>3

LEMMA StateFields ==
  ASSUME NEW u \in Web!State
  PROVE  /\ u.listener \in BOOLEAN /\ u.conn \in 0..MaxConns /\ u.end \in Web!Ends
         /\ u.bound \in BOOLEAN /\ u.connected \in BOOLEAN /\ u.done \in BOOLEAN
         /\ u.asked \in BOOLEAN /\ u.key \in 0..MaxConns
  BY DEF Web!State

LEMMA WebInit == Web!Init => WebInv
<1> SUFFICES ASSUME Web!Init PROVE WebInv
  OBVIOUS
<1>0. /\ secure \in BOOLEAN /\ wire = <<>>
      /\ ws = [s \in WsSockets |-> Web!Unused] /\ backlog = [s \in WsSockets |-> <<>>]
  BY DEF Web!Init
<1>1. Web!Unused \in Web!State /\ Web!Unused.conn = 0
      /\ Alone(Web!Unused, <<>>)
  BY WebAssumption DEF Web!Unused, Web!State, Alone
<1>2. Shape(ws, wire, backlog)
  <2>1. wire \in Seq(Web!Conn) /\ Len(wire) = 0 BY <1>0
  <2>2. ws \in [WsSockets -> Web!State] BY <1>0, <1>1
  <2>3. backlog \in [WsSockets -> Seq(1..Len(wire))]
    <3>1. <<>> \in Seq(1..Len(wire)) OBVIOUS
    <3> QED BY <1>0, <3>1
  <2> QED BY <2>1, <2>2, <2>3, <1>0, <1>1, WebAssumption DEF Shape
<1>3. \A s \in WsSockets : ws[s].conn = 0 /\ backlog[s] = <<>> /\ Alone(ws[s], backlog[s])
  BY <1>0, <1>1
<1>4. Len(wire) = 0 /\ \A s \in WsSockets : Len(backlog[s]) = 0 BY <1>0, <1>3
<1>5. 1..0 = {} OBVIOUS
<1> QED BY <1>0, <1>2, <1>3, <1>4, <1>5 DEF WebInv, WebOK, Unique, Paired

LEMMA OtherEnd ==
  /\ Web!Other("client") = "server" /\ Web!Other("server") = "client"
  /\ \A e \in Web!Ends : Web!Other(e) \in Web!Ends /\ Web!Other(e) # e
                          /\ \A d \in Web!Ends : d # e => d = Web!Other(e)
  BY DEF Web!Other

(* Closing ends leaves the rest of a connection as it was. *)
LEMMA EndsClosed ==
  ASSUME NEW k \in Web!Conn, NEW c, NEW D, NEW k2 \in Web!Conn,
         k2.to = k.to, k2.sent = k.sent, k2.got = k.got, k2.open = k.open \ D
  PROVE  /\ Traffic(k, c) => Traffic(k2, c)
         /\ \A done : ServerSide(k, done) => ServerSide(k2, done)
         /\ \A sec, u, done : Pair(sec, u, done, k) => Pair(sec, u, done, k2)
         /\ \A sec, u : Holds(sec, u, k) /\ u.end \notin D => Holds(sec, u, k2)
<1>1. /\ k2.to = k.to /\ k2.sent = k.sent /\ k2.got = k.got /\ k2.open = k.open \ D
  OBVIOUS
<1>2. k2.open = Web!Ends => k.open = Web!Ends BY <1>1, ConnFields
<1>3. Traffic(k, c) => Traffic(k2, c)
  <2> SUFFICES ASSUME Traffic(k, c) PROVE Traffic(k2, c) OBVIOUS
  <2> QED BY <1>1, <1>2 DEF Traffic
<1>4. \A done : ServerSide(k, done) => ServerSide(k2, done) BY <1>1 DEF ServerSide
<1>5. \A sec, u, done : Pair(sec, u, done, k) => Pair(sec, u, done, k2) BY <1>1 DEF Pair
<1>6. \A sec, u : ClientSide(sec, u, k) => ClientSide(sec, u, k2) BY <1>1 DEF ClientSide
<1>7. \A sec, u : Holds(sec, u, k) /\ u.end \notin D => Holds(sec, u, k2)
  BY <1>1, <1>4, <1>6 DEF Holds
<1> QED BY <1>1, <1>3, <1>4, <1>5, <1>7

(* s owns the ends D[c] of every connection c. *)
OwnEnds(D, s, x, w, b) ==
  \A c \in 1..Len(w) :
    /\ "client" \in D[c] => x[s].conn = c /\ x[s].end = "client"
    /\ "server" \in D[c] => \/ x[s].conn = c /\ x[s].end = "server"
                            \/ \E i \in 1..Len(b[s]) : b[s][i] = c

Without(w, D) == [c \in DOMAIN w |-> [w[c] EXCEPT !.open = w[c].open \ D[c]]]

(* s gives up its stream and its listener. *)
LEMMA GivenUp ==
  ASSUME NEW sec, NEW x, NEW w, NEW b, WebOK(sec, x, w, b), NEW s \in WsSockets,
         NEW D, NEW u \in Web!State, u.conn = 0, Alone(u, <<>>),
         OwnEnds(D, s, x, w, b), NEW w2, w2 = Without(w, D)
  PROVE  /\ WebOK(sec, [x EXCEPT ![s] = u], w2, [b EXCEPT ![s] = <<>>])
         /\ Len(w2) = Len(w)
<1> DEFINE x2 == [x EXCEPT ![s] = u]
           b2 == [b EXCEPT ![s] = <<>>]
<1>0. /\ x \in [WsSockets -> Web!State] /\ w \in Seq(Web!Conn) /\ Len(w) <= MaxConns
      /\ b \in [WsSockets -> Seq(1..Len(w))] /\ \A t \in WsSockets : x[t].conn <= Len(w)
  BY DEF WebOK, Shape
<1>1. Len(w) \in Nat /\ DOMAIN w = 1..Len(w) /\ \A c \in 1..Len(w) : w[c] \in Web!Conn
  BY <1>0, SeqElements
<1>2. \A c \in 1..Len(w) : w2[c] = [w[c] EXCEPT !.open = w[c].open \ D[c]] BY <1>1 DEF Without
<1>3. ASSUME NEW c \in 1..Len(w)
      PROVE  /\ w2[c] \in Web!Conn /\ w2[c].open = w[c].open \ D[c]
             /\ Traffic(w[c], c) => Traffic(w2[c], c)
             /\ ServerSide(w[c], FALSE) => ServerSide(w2[c], FALSE)
             /\ \A u1, done : Pair(sec, u1, done, w[c]) => Pair(sec, u1, done, w2[c])
             /\ \A u1 : Holds(sec, u1, w[c]) /\ u1.end \notin D[c] => Holds(sec, u1, w2[c])
  <2> DEFINE k == w[c]
             k2 == w2[c]
             Dc == D[c]
  <2>0. k \in Web!Conn /\ k2 = [k EXCEPT !.open = k.open \ Dc] BY <1>1, <1>2
  <2> HIDE DEF k, k2, Dc
  <2>1. /\ k \in Web!Conn /\ k2 \in Web!Conn
        /\ k2.to = k.to /\ k2.sent = k.sent /\ k2.got = k.got /\ k2.open = k.open \ Dc
    BY <2>0 DEF Web!Conn
  <2>2. Traffic(k, c) => Traffic(k2, c) BY <2>1, EndsClosed, Zenon
  <2>3. \A done : ServerSide(k, done) => ServerSide(k2, done) BY <2>1, EndsClosed, Zenon
  <2>4. \A u1, done : Pair(sec, u1, done, k) => Pair(sec, u1, done, k2)
    BY <2>1, EndsClosed, Zenon
  <2>5. \A u1 : Holds(sec, u1, k) /\ u1.end \notin Dc => Holds(sec, u1, k2)
    BY <2>1, EndsClosed, Zenon
  <2> QED BY <2>1, <2>2, <2>3, <2>4, <2>5 DEF k, k2, Dc
<1>4. w2 \in Seq(Web!Conn) /\ Len(w2) = Len(w)
  <2>1. w2 \in [1..Len(w) -> Web!Conn] BY <1>1, <1>2, <1>3 DEF Without
  <2> QED BY <2>1, <1>1, SeqDef, LenProperties
<1>5. /\ x2[s] = u /\ b2[s] = <<>> /\ Len(b2[s]) = 0
      /\ \A t \in WsSockets : t # s => x2[t] = x[t] /\ b2[t] = b[t]
  BY <1>0
<1>6. 1..0 = {} OBVIOUS
<1>7. Shape(x2, w2, b2)
  <2>1. x2 \in [WsSockets -> Web!State] BY <1>0
  <2>2. <<>> \in Seq(1..Len(w)) OBVIOUS
  <2>3. b2 \in [WsSockets -> Seq(1..Len(w))] BY <1>0, <2>2
  <2>4. \A t \in WsSockets : x2[t].conn <= Len(w) BY <1>0, <1>1, <1>5
  <2> QED BY <2>1, <2>3, <2>4, <1>0, <1>4 DEF Shape
<1>8. \A c \in 1..Len(w2) : Traffic(w2[c], c)
  BY <1>3, <1>4 DEF WebOK
<1>9. \A t \in WsSockets : Alone(x2[t], b2[t]) BY <1>5 DEF WebOK
<1>10. \A t \in WsSockets : x[t].conn \in 0..Len(w) BY <1>0, <1>1, StateFields
<1>11. \A t \in WsSockets : \A i \in 1..Len(b[t]) : b[t][i] \in 1..Len(w) BY <1>0, SeqElements
<1>12. ASSUME NEW t \in WsSockets, t # s, x[t].conn # 0
       PROVE  x[t].conn \in 1..Len(w) /\ x[t].end \in Web!Ends /\ x[t].end \notin D[x[t].conn]
  <2>1. x[t].conn \in 1..Len(w) /\ x[t].end \in Web!Ends BY <1>12, <1>1, <1>10, <1>0, StateFields
  <2>2. Unique(x, b) BY DEF WebOK
  <2>3. ASSUME x[t].end = "client" PROVE "client" \notin D[x[t].conn]
    BY <1>12, <2>1, <2>2, <2>3 DEF Unique, OwnEnds
  <2>4. ASSUME x[t].end = "server" PROVE "server" \notin D[x[t].conn]
    BY <1>12, <2>1, <2>2, <2>4 DEF Unique, OwnEnds
  <2> QED BY <2>1, <2>3, <2>4
<1>13. \A t \in WsSockets : x2[t].conn # 0 => Holds(sec, x2[t], w2[x2[t].conn])
  <2> SUFFICES ASSUME NEW t \in WsSockets, x2[t].conn # 0
               PROVE  Holds(sec, x2[t], w2[x2[t].conn])
    OBVIOUS
  <2>1. t # s /\ x2[t] = x[t] BY <1>5
  <2>2. Holds(sec, x[t], w[x[t].conn]) BY <2>1 DEF WebOK
  <2>3. x[t].conn \in 1..Len(w) /\ x[t].end \notin D[x[t].conn] BY <2>1, <1>12
  <2> QED BY <2>1, <2>2, <2>3, <1>3
<1>14. ASSUME NEW t \in WsSockets, NEW i \in 1..Len(b2[t])
       PROVE  /\ t # s /\ b2[t] = b[t] /\ b[t][i] \in 1..Len(w)
              /\ "server" \in w2[b2[t][i]].open /\ ServerSide(w2[b2[t][i]], FALSE)
  <2>1. t # s BY <1>5, <1>6, <1>14
  <2>2. b2[t] = b[t] BY <2>1, <1>5
  <2>3. b[t][i] \in 1..Len(w) BY <1>11, <1>14, <2>2
  <2>4. "server" \in w[b[t][i]].open /\ ServerSide(w[b[t][i]], FALSE)
    BY <1>14, <2>2 DEF WebOK
  <2>5. "server" \notin D[b[t][i]]
    <3>1. Unique(x, b) BY DEF WebOK
    <3> QED BY <3>1, <2>1, <2>2, <2>3, <1>14 DEF Unique, OwnEnds
  <2>6. "server" \in w2[b[t][i]].open /\ ServerSide(w2[b[t][i]], FALSE)
    <3> DEFINE c == b[t][i]
    <3>1. c \in 1..Len(w) /\ "server" \in w[c].open /\ "server" \notin D[c]
          /\ ServerSide(w[c], FALSE)
      BY <2>3, <2>4, <2>5
    <3> HIDE DEF c
    <3>2. "server" \in w2[c].open /\ ServerSide(w2[c], FALSE) BY <3>1, <1>3
    <3> QED BY <3>2 DEF c
  <2> QED BY <2>1, <2>2, <2>3, <2>6
<1>15. Unique(x2, b2)
  <2>1. Unique(x, b) BY DEF WebOK
  <2>2. \A t \in WsSockets : x2[t].conn # 0 => t # s BY <1>5
  <2>3. \A t \in WsSockets : \A i \in 1..Len(b2[t]) : t # s BY <1>14
  <2>4. ASSUME NEW r \in WsSockets, NEW t \in WsSockets, x2[r].conn # 0,
               x2[r].conn = x2[t].conn, x2[r].end = x2[t].end
        PROVE  r = t
    BY <2>1, <2>2, <2>4, <1>5 DEF Unique
  <2>5. ASSUME NEW r \in WsSockets, NEW t \in WsSockets, NEW i \in 1..Len(b2[t]),
               b2[t][i] = x2[r].conn
        PROVE  x2[r].end = "client"
    <3>1. t # s /\ b2[t] = b[t] /\ b[t][i] \in 1..Len(w) BY <1>14
    <3>2. x2[r].conn # 0 BY <3>1, <2>5
    <3> QED BY <3>1, <3>2, <2>1, <2>2, <2>5, <1>5 DEF Unique
  <2>6. ASSUME NEW r \in WsSockets, NEW t \in WsSockets, NEW i \in 1..Len(b2[r]),
               NEW j \in 1..Len(b2[t]), b2[r][i] = b2[t][j]
        PROVE  r = t /\ i = j
    BY <2>1, <2>3, <2>6, <1>5 DEF Unique
  <2> QED BY <2>4, <2>5, <2>6 DEF Unique
<1>16. Paired(sec, x2, w2, b2)
  <2> SUFFICES ASSUME NEW r \in WsSockets, NEW t \in WsSockets,
                      x2[r].conn # 0, x2[r].end = "client"
               PROVE  /\ x2[t].conn = x2[r].conn /\ x2[t].end = "server" =>
                           Pair(sec, x2[r], x2[t].done, w2[x2[r].conn])
                      /\ \A i \in 1..Len(b2[t]) : b2[t][i] = x2[r].conn =>
                           Pair(sec, x2[r], FALSE, w2[x2[r].conn])
    BY DEF Paired
  <2>1. r # s /\ x2[r] = x[r] BY <1>5
  <2>2. x[r].conn \in 1..Len(w) BY <2>1, <1>12
  <2>3. Paired(sec, x, w, b) BY DEF WebOK
  <2>4. ASSUME x2[t].conn = x2[r].conn, x2[t].end = "server"
        PROVE  Pair(sec, x2[r], x2[t].done, w2[x2[r].conn])
    <3>1. t # s /\ x2[t] = x[t] BY <2>4, <1>5
    <3>2. Pair(sec, x[r], x[t].done, w[x[r].conn]) BY <2>1, <2>3, <2>4, <3>1 DEF Paired
    <3> QED BY <2>1, <2>2, <3>1, <3>2, <1>3
  <2>5. ASSUME NEW i \in 1..Len(b2[t]), b2[t][i] = x2[r].conn
        PROVE  Pair(sec, x2[r], FALSE, w2[x2[r].conn])
    <3>1. t # s /\ b2[t] = b[t] BY <1>14
    <3>2. Pair(sec, x[r], FALSE, w[x[r].conn]) BY <2>1, <2>3, <2>5, <3>1 DEF Paired
    <3> QED BY <2>1, <2>2, <3>2, <1>3
  <2> QED BY <2>4, <2>5
<1>17. WebOK(sec, x2, w2, b2)
  BY <1>7, <1>8, <1>9, <1>13, <1>14, <1>15, <1>16 DEF WebOK
<1> QED BY <1>17, <1>4

(* What a state of the sockets gives at every place. *)
LEMMA Places ==
  ASSUME NEW x, NEW w, NEW b, Shape(x, w, b)
  PROVE  /\ Len(w) \in Nat /\ DOMAIN w = 1..Len(w) /\ \A c \in 1..Len(w) : w[c] \in Web!Conn
         /\ \A s \in WsSockets : /\ x[s] \in Web!State /\ x[s].conn \in 0..Len(w)
                                 /\ x[s].end \in Web!Ends
                                 /\ b[s] \in Seq(1..Len(w)) /\ Len(b[s]) \in Nat
                                 /\ \A i \in 1..Len(b[s]) : b[s][i] \in 1..Len(w)
<1>1. /\ x \in [WsSockets -> Web!State] /\ w \in Seq(Web!Conn)
      /\ b \in [WsSockets -> Seq(1..Len(w))] /\ \A s \in WsSockets : x[s].conn <= Len(w)
  BY DEF Shape
<1>2. Len(w) \in Nat /\ DOMAIN w = 1..Len(w) /\ \A c \in 1..Len(w) : w[c] \in Web!Conn
  BY <1>1, SeqElements
<1>3. ASSUME NEW s \in WsSockets
      PROVE  /\ x[s] \in Web!State /\ x[s].conn \in 0..Len(w) /\ x[s].end \in Web!Ends
             /\ b[s] \in Seq(1..Len(w))
  <2>1. x[s] \in Web!State /\ b[s] \in Seq(1..Len(w)) BY <1>1
  <2>2. x[s].conn \in 0..MaxConns /\ x[s].end \in Web!Ends BY <2>1, StateFields
  <2> QED BY <2>1, <2>2, <1>1, <1>2
<1>4. \A s \in WsSockets : Len(b[s]) \in Nat /\ \A i \in 1..Len(b[s]) : b[s][i] \in 1..Len(w)
  BY <1>3, SeqElements
<1> QED BY <1>2, <1>3, <1>4

(* s takes the first connection of its backlog. *)
LEMMA Accepted ==
  ASSUME NEW sec, NEW x, NEW w, NEW b, WebOK(sec, x, w, b), NEW s \in WsSockets,
         x[s].listener, x[s].conn = 0, b[s] # <<>>,
         NEW u \in Web!State, u.conn = Head(b[s]), u.end = "server",
         u.listener = x[s].listener, u.bound = x[s].bound,
         u.connected = x[s].connected, u.done = x[s].done
  PROVE  WebOK(sec, [x EXCEPT ![s] = u], w, [b EXCEPT ![s] = Tail(b[s])])
<1> DEFINE x2 == [x EXCEPT ![s] = u]
           b2 == [b EXCEPT ![s] = Tail(b[s])]
           c == Head(b[s])
<1>0. Shape(x, w, b) /\ Unique(x, b) /\ Paired(sec, x, w, b) BY DEF WebOK
<1>1. /\ Len(w) \in Nat /\ DOMAIN w = 1..Len(w) /\ \A d \in 1..Len(w) : w[d] \in Web!Conn
      /\ \A t \in WsSockets : /\ x[t] \in Web!State /\ x[t].conn \in 0..Len(w)
                              /\ x[t].end \in Web!Ends
                              /\ b[t] \in Seq(1..Len(w)) /\ Len(b[t]) \in Nat
                              /\ \A i \in 1..Len(b[t]) : b[t][i] \in 1..Len(w)
  BY <1>0, Places
<1>2. /\ c = b[s][1] /\ c \in 1..Len(w) /\ 1 \in 1..Len(b[s]) /\ Len(b[s]) >= 1
  BY <1>1, SeqEnds
<1>3. /\ Tail(b[s]) \in Seq(1..Len(w)) /\ Len(Tail(b[s])) = Len(b[s]) - 1
      /\ \A i \in 1..Len(b[s]) - 1 : Tail(b[s])[i] = b[s][i + 1]
  <2>1. b[s] \in Seq(1..Len(w)) BY <1>1
  <2> QED BY <2>1, TailFrames
<1>4. /\ x2[s] = u /\ b2[s] = Tail(b[s])
      /\ \A t \in WsSockets : t # s => x2[t] = x[t] /\ b2[t] = b[t]
  BY <1>0 DEF Shape
<1>5. u.done = FALSE /\ ~u.connected /\ u.bound
  BY StateFields DEF WebOK, Alone
<1>6. \A t \in WsSockets : \A i \in 1..Len(b2[t]) :
        LET j == IF t = s THEN i + 1 ELSE i IN
        j \in 1..Len(b[t]) /\ b2[t][i] = b[t][j] /\ (t = s => j # 1)
  <2> SUFFICES ASSUME NEW t \in WsSockets, NEW i \in 1..Len(b2[t])
               PROVE LET j == IF t = s THEN i + 1 ELSE i IN
                     j \in 1..Len(b[t]) /\ b2[t][i] = b[t][j] /\ (t = s => j # 1)
    OBVIOUS
  <2>1. CASE t = s
    <3>0. b2[t] = Tail(b[s]) BY <2>1, <1>4
    <3>a. i \in 1..Len(Tail(b[s])) BY <3>0, Zenon
    <3> HIDE DEF b2
    <3>1. i \in 1..Len(b[s]) - 1 /\ b2[t][i] = b[s][i + 1] BY <3>0, <3>a, <1>3
    <3>2. i + 1 \in 1..Len(b[s]) /\ i + 1 # 1 BY <3>1, <1>1
    <3> QED BY <2>1, <3>1, <3>2
  <2>2. CASE t # s BY <2>2, <1>4
  <2> QED BY <2>1, <2>2
<1>7. \A t \in WsSockets : \A i \in 1..Len(b2[t]) :
        b2[t][i] # c /\ \E j \in 1..Len(b[t]) : b2[t][i] = b[t][j]
  <2> SUFFICES ASSUME NEW t \in WsSockets, NEW i \in 1..Len(b2[t])
               PROVE b2[t][i] # c /\ \E j \in 1..Len(b[t]) : b2[t][i] = b[t][j]
    OBVIOUS
  <2> DEFINE j == IF t = s THEN i + 1 ELSE i
  <2>1. j \in 1..Len(b[t]) /\ b2[t][i] = b[t][j] /\ (t = s => j # 1) BY <1>6
  <2> HIDE DEF j
  <2>2. b[t][j] # b[s][1] BY <2>1, <1>0, <1>2 DEF Unique
  <2> QED BY <2>1, <2>2, <1>2
<1>8. Shape(x2, w, b2)
  <2>1. x2 \in [WsSockets -> Web!State] /\ b2 \in [WsSockets -> Seq(1..Len(w))]
    BY <1>0, <1>3 DEF Shape
  <2>2. \A t \in WsSockets : x2[t].conn <= Len(w) BY <1>1, <1>2, <1>4
  <2> QED BY <2>1, <2>2, <1>0 DEF Shape
<1>9. "server" \in w[c].open /\ ServerSide(w[c], FALSE) BY <1>2 DEF WebOK
<1>10. Holds(sec, u, w[c]) BY <1>5, <1>9 DEF Holds
<1>11. \A t \in WsSockets : x2[t].conn # 0 => Holds(sec, x2[t], w[x2[t].conn])
  BY <1>4, <1>10 DEF WebOK
<1>12. \A t \in WsSockets : Alone(x2[t], b2[t])
  BY <1>4, <1>5 DEF WebOK, Alone
<1>13. \A t \in WsSockets : \A i \in 1..Len(b2[t]) :
         "server" \in w[b2[t][i]].open /\ ServerSide(w[b2[t][i]], FALSE)
  <2> SUFFICES ASSUME NEW t \in WsSockets, NEW i \in 1..Len(b2[t])
               PROVE  "server" \in w[b2[t][i]].open /\ ServerSide(w[b2[t][i]], FALSE)
    OBVIOUS
  <2>1. PICK j \in 1..Len(b[t]) : b2[t][i] = b[t][j] BY <1>7
  <2> QED BY <2>1 DEF WebOK
<1>14. Unique(x2, b2)
  <2>1. ASSUME NEW r \in WsSockets, NEW t \in WsSockets, x2[r].conn # 0,
               x2[r].conn = x2[t].conn, x2[r].end = x2[t].end
        PROVE  r = t
    <3>1. \A v \in WsSockets : v # s /\ x[v].conn = c => x[v].end = "client"
      BY <1>0, <1>2 DEF Unique
    <3>2. CASE r = s BY <3>2, <3>1, <2>1, <1>4
    <3>3. CASE t = s BY <3>3, <3>1, <2>1, <1>4
    <3>4. CASE r # s /\ t # s BY <3>4, <2>1, <1>4, <1>0 DEF Unique
    <3> QED BY <3>2, <3>3, <3>4
  <2>2. ASSUME NEW r \in WsSockets, NEW t \in WsSockets, NEW i \in 1..Len(b2[t]),
               b2[t][i] = x2[r].conn
        PROVE  x2[r].end = "client"
    <3>1. r # s BY <2>2, <1>4, <1>7
    <3>2. PICK j \in 1..Len(b[t]) : b2[t][i] = b[t][j] BY <1>7
    <3> QED BY <3>1, <3>2, <2>2, <1>4, <1>0 DEF Unique
  <2>3. ASSUME NEW r \in WsSockets, NEW t \in WsSockets, NEW i \in 1..Len(b2[r]),
               NEW j \in 1..Len(b2[t]), b2[r][i] = b2[t][j]
        PROVE  r = t /\ i = j
    <3> DEFINE m == IF r = s THEN i + 1 ELSE i
               n == IF t = s THEN j + 1 ELSE j
    <3>1. m \in 1..Len(b[r]) /\ n \in 1..Len(b[t]) /\ b[r][m] = b[t][n] BY <2>3, <1>6
    <3>2. r = t /\ m = n
      <4> HIDE DEF m, n
      <4> QED BY <3>1, <1>0 DEF Unique
    <3>3. Len(b2[r]) \in Nat BY <1>8, Places
    <3> QED BY <3>2, <3>3
  <2> QED BY <2>1, <2>2, <2>3 DEF Unique
<1>15. Paired(sec, x2, w, b2)
  <2> SUFFICES ASSUME NEW r \in WsSockets, NEW t \in WsSockets,
                      x2[r].conn # 0, x2[r].end = "client"
               PROVE  /\ x2[t].conn = x2[r].conn /\ x2[t].end = "server" =>
                           Pair(sec, x2[r], x2[t].done, w[x2[r].conn])
                      /\ \A i \in 1..Len(b2[t]) : b2[t][i] = x2[r].conn =>
                           Pair(sec, x2[r], FALSE, w[x2[r].conn])
    BY DEF Paired
  <2>1. r # s /\ x2[r] = x[r] BY <1>4
  <2>2. ASSUME x2[t].conn = x2[r].conn, x2[t].end = "server"
        PROVE  Pair(sec, x2[r], x2[t].done, w[x2[r].conn])
    <3>1. CASE t = s
      <4>1. b[s][1] = x[r].conn /\ x2[t].done = FALSE BY <3>1, <2>1, <2>2, <1>2, <1>4, <1>5
      <4> QED BY <4>1, <2>1, <1>0, <1>2 DEF Paired
    <3>2. CASE t # s BY <3>2, <2>1, <2>2, <1>0, <1>4 DEF Paired
    <3> QED BY <3>1, <3>2
  <2>3. ASSUME NEW i \in 1..Len(b2[t]), b2[t][i] = x2[r].conn
        PROVE  Pair(sec, x2[r], FALSE, w[x2[r].conn])
    <3>1. PICK j \in 1..Len(b[t]) : b2[t][i] = b[t][j] BY <1>7
    <3> QED BY <3>1, <2>1, <2>3, <1>0 DEF Paired
  <2> QED BY <2>2, <2>3
<1>16. \A d \in 1..Len(w) : Traffic(w[d], d) BY DEF WebOK
<1> QED BY <1>8, <1>11, <1>12, <1>13, <1>14, <1>15, <1>16 DEF WebOK

(* A socket s without a stream connects to the listener t. *)
LEMMA Opened ==
  ASSUME NEW sec \in BOOLEAN, NEW x, NEW w, NEW b, WebOK(sec, x, w, b),
         NEW s \in WsSockets, NEW t \in WsSockets, s # t,
         x[s].conn = 0, b[s] = <<>>, x[t].listener,
         NEW c, c = Len(w) + 1, c <= MaxConns,
         NEW u \in Web!State, u.conn = c, u.end = "client", u.key = c,
         ~u.listener, ~u.bound, u.connected, ~u.done, ~u.asked,
         NEW k \in Web!Conn, Traffic(k, c), k.open = Web!Ends,
         k.sent["client"] = 0, k.sent["server"] = 0, k.to["client"] = <<>>,
         IF sec THEN k.to["server"] = <<>>
         ELSE k.to["server"] # <<>> /\ Web!Ahead(k.to["server"]) = 1
  PROVE  WebOK(sec, [x EXCEPT ![s] = u], Append(w, k), [b EXCEPT ![t] = Append(b[t], c)])
<1> DEFINE x2 == [x EXCEPT ![s] = u]
           w2 == Append(w, k)
           b2 == [b EXCEPT ![t] = Append(b[t], c)]
<1>0. Shape(x, w, b) /\ Unique(x, b) /\ Paired(sec, x, w, b) BY DEF WebOK
<1>1. /\ Len(w) \in Nat /\ DOMAIN w = 1..Len(w) /\ \A d \in 1..Len(w) : w[d] \in Web!Conn
      /\ \A r \in WsSockets : /\ x[r] \in Web!State /\ x[r].conn \in 0..Len(w)
                              /\ x[r].end \in Web!Ends
                              /\ b[r] \in Seq(1..Len(w)) /\ Len(b[r]) \in Nat
                              /\ \A i \in 1..Len(b[r]) : b[r][i] \in 1..Len(w)
  BY <1>0, Places
<1>2. /\ w2 \in Seq(Web!Conn) /\ Len(w2) = Len(w) + 1 /\ w2[c] = k
      /\ \A d \in 1..Len(w) : w2[d] = w[d]
  BY <1>0 DEF Shape
<1>3. c \in Nat /\ c # 0 /\ c \notin 0..Len(w) /\ c \in 1..Len(w2)
      /\ \A d \in 0..Len(w) : d # c /\ (d # 0 => d \in 1..Len(w))
  BY <1>1, <1>2
<1> HIDE DEF w2
<1>4. /\ x2[s] = u /\ b2[t] = Append(b[t], c)
      /\ \A r \in WsSockets : (r # s => x2[r] = x[r]) /\ (r # t => b2[r] = b[r])
  BY <1>0 DEF Shape
<1>5. /\ Append(b[t], c) \in Seq(1..Len(w2)) /\ Len(Append(b[t], c)) = Len(b[t]) + 1
      /\ Append(b[t], c)[Len(b[t]) + 1] = c
      /\ \A i \in 1..Len(b[t]) : Append(b[t], c)[i] = b[t][i]
  <2>1. \A i \in 1..Len(b[t]) : b[t][i] \in 1..Len(w2)
    BY <1>1, <1>2
  <2>2. b[t] \in Seq(1..Len(w)) /\ Len(b[t]) \in Nat BY <1>1
  <2>3. b[t] \in [1..Len(b[t]) -> 1..Len(w2)]
    BY <2>1, <2>2, LenProperties
  <2>4. b[t] \in Seq(1..Len(w2)) BY <2>2, <2>3, SeqDef
  <2>5. c \in 1..Len(w2) BY <1>3
  <2> DEFINE q == b[t]
             S == 1..Len(w2)
  <2>6. q \in Seq(S) /\ c \in S BY <2>4, <2>5
  <2> HIDE DEF q, S
  <2>7. /\ Append(q, c) \in Seq(S) /\ Len(Append(q, c)) = Len(q) + 1
        /\ Append(q, c)[Len(q) + 1] = c
        /\ \A i \in 1..Len(q) : Append(q, c)[i] = q[i]
    BY <2>6
  <2> QED BY <2>7 DEF q, S
<1> HIDE DEF x2, b2
(* What is in a backlog was there before, or is the new connection. *)
<1>6. ASSUME NEW r \in WsSockets, NEW i \in 1..Len(b2[r])
      PROVE  \/ i \in 1..Len(b[r]) /\ b2[r][i] = b[r][i] /\ b2[r][i] \in 1..Len(w)
             \/ r = t /\ i = Len(b[t]) + 1 /\ b2[r][i] = c
  <2>1. CASE r # t BY <2>1, <1>1, <1>4, <1>6
  <2>2. CASE r = t
    <3>1. Len(b2[r]) = Len(b[t]) + 1 /\ Len(b[t]) \in Nat BY <2>2, <1>1, <1>4, <1>5
    <3>2. i \in 1..Len(b[t]) \/ i = Len(b[t]) + 1 BY <3>1, <1>6
    <3>3. CASE i \in 1..Len(b[t]) BY <3>3, <2>2, <1>1, <1>4, <1>5
    <3>4. CASE i = Len(b[t]) + 1 BY <3>4, <2>2, <1>4, <1>5
    <3> QED BY <3>2, <3>3, <3>4
  <2> QED BY <2>1, <2>2
<1>7. \A r \in WsSockets : r # s => x2[r] = x[r] /\ x2[r].conn \in 0..Len(w) /\ x2[r].conn # c
  BY <1>1, <1>3, <1>4
<1>8. Shape(x2, w2, b2)
  <2>1. x2 \in [WsSockets -> Web!State] BY <1>0 DEF Shape, x2
  <2>2. ASSUME NEW r \in WsSockets PROVE b2[r] \in Seq(1..Len(w2))
    <3>1. CASE r = t BY <3>1, <1>4, <1>5
    <3>2. CASE r # t
      <4>1. b[r] \in Seq(1..Len(w)) /\ Len(b[r]) \in Nat BY <1>1
      <4>2. \A i \in 1..Len(b[r]) : b[r][i] \in 1..Len(w2) BY <1>1, <1>2
      <4>3. b[r] \in [1..Len(b[r]) -> 1..Len(w2)] BY <4>1, <4>2, LenProperties
      <4> QED BY <4>1, <4>3, <3>2, <1>4, SeqDef
    <3> QED BY <3>1, <3>2
  <2>3. b2 \in [WsSockets -> Seq(1..Len(w2))] BY <2>2, <1>0 DEF b2, Shape
  <2>4. \A r \in WsSockets : x2[r].conn <= Len(w2)
    <3>1. x2[s].conn <= Len(w2) BY <1>1, <1>2, <1>4
    <3>2. \A r \in WsSockets : r # s => x2[r].conn <= Len(w2)
      <4> HIDE DEF w2
      <4> QED BY <1>1, <1>2, <1>7
    <3> QED BY <3>1, <3>2
  <2> QED BY <2>1, <2>3, <2>4, <1>1, <1>2, WebAssumption DEF Shape
<1>9. \A d \in 1..Len(w2) : Traffic(w2[d], d)
  <2>1. \A d \in 1..Len(w) : Traffic(w[d], d) BY DEF WebOK
  <2>2. \A d \in 1..Len(w2) : d \in 1..Len(w) \/ d = c BY <1>1, <1>2
  <2> QED BY <2>1, <2>2, <1>2
<1>10. ClientSide(sec, u, k) /\ ServerSide(k, FALSE) /\ Pair(sec, u, FALSE, k)
  BY DEF ClientSide, ServerSide, Pair, Fits
<1>11. Holds(sec, u, k) BY <1>10 DEF Holds
<1>12. \A r \in WsSockets : Alone(x2[r], b2[r])
  <2>1. \A r \in WsSockets : Alone(x[r], b[r]) BY DEF WebOK
  <2>2. Alone(u, <<>>) BY <1>3 DEF Alone
  <2>3. Alone(x2[s], b2[s]) BY <2>2, <1>4
  <2>4. Alone(x2[t], b2[t]) BY <2>1, <1>4 DEF Alone
  <2> QED BY <2>1, <2>3, <2>4, <1>4
<1>13. \A r \in WsSockets : x2[r].conn # 0 => Holds(sec, x2[r], w2[x2[r].conn])
  <2> SUFFICES ASSUME NEW r \in WsSockets, x2[r].conn # 0
               PROVE  Holds(sec, x2[r], w2[x2[r].conn])
    OBVIOUS
  <2>1. CASE r = s BY <2>1, <1>2, <1>4, <1>11
  <2>2. CASE r # s
    <3>1. x2[r] = x[r] /\ x[r].conn \in 1..Len(w) BY <2>2, <1>3, <1>7
    <3> QED BY <3>1, <1>2 DEF WebOK
  <2> QED BY <2>1, <2>2
<1>14. \A r \in WsSockets : \A i \in 1..Len(b2[r]) :
         "server" \in w2[b2[r][i]].open /\ ServerSide(w2[b2[r][i]], FALSE)
  <2> SUFFICES ASSUME NEW r \in WsSockets, NEW i \in 1..Len(b2[r])
               PROVE  "server" \in w2[b2[r][i]].open /\ ServerSide(w2[b2[r][i]], FALSE)
    OBVIOUS
  <2>1. CASE i \in 1..Len(b[r]) /\ b2[r][i] = b[r][i] /\ b2[r][i] \in 1..Len(w)
    <3>1. w2[b2[r][i]] = w[b[r][i]] BY <2>1, <1>2
    <3> QED BY <3>1, <2>1 DEF WebOK
  <2>2. CASE b2[r][i] = c BY <2>2, <1>2, <1>10
  <2> QED BY <2>1, <2>2, <1>6
<1>15. Unique(x2, b2)
  <2>1. ASSUME NEW r \in WsSockets, NEW v \in WsSockets, x2[r].conn # 0,
               x2[r].conn = x2[v].conn, x2[r].end = x2[v].end
        PROVE  r = v
    <3>1. (r = s) <=> (v = s) BY <2>1, <1>4, <1>7
    <3>2. CASE r # s BY <3>1, <3>2, <2>1, <1>0, <1>7 DEF Unique
    <3> QED BY <3>1, <3>2
  <2>2. ASSUME NEW r \in WsSockets, NEW v \in WsSockets, NEW i \in 1..Len(b2[v]),
               b2[v][i] = x2[r].conn
        PROVE  x2[r].end = "client"
    <3>1. CASE r = s BY <3>1, <1>4
    <3>2. CASE r # s
      <4>1. i \in 1..Len(b[v]) /\ b2[v][i] = b[v][i] BY <3>2, <2>2, <1>6, <1>7
      <4>2. b[v][i] = x[r].conn /\ x2[r].end = x[r].end BY <4>1, <3>2, <2>2, <1>7
      <4> QED BY <4>1, <4>2, <1>0, Zenon DEF Unique
    <3> QED BY <3>1, <3>2
  <2>3. ASSUME NEW r \in WsSockets, NEW v \in WsSockets, NEW i \in 1..Len(b2[r]),
               NEW j \in 1..Len(b2[v]), b2[r][i] = b2[v][j]
        PROVE  r = v /\ i = j
    <3>1. c \notin 1..Len(w) BY <1>1
    <3>2. CASE b2[r][i] = c
      <4>1. r = t /\ i = Len(b[t]) + 1 BY <3>1, <3>2, <1>6
      <4>2. v = t /\ j = Len(b[t]) + 1 BY <3>1, <3>2, <2>3, <1>6
      <4> QED BY <4>1, <4>2
    <3>3. CASE b2[r][i] # c
      <4>1. i \in 1..Len(b[r]) /\ b2[r][i] = b[r][i] BY <3>3, <1>6
      <4>2. j \in 1..Len(b[v]) /\ b2[v][j] = b[v][j] BY <3>3, <2>3, <1>6
      <4>3. b[r][i] = b[v][j] BY <4>1, <4>2, <2>3
      <4>4. \A p, q \in WsSockets : \A m \in 1..Len(b[p]), n \in 1..Len(b[q]) :
              b[p][m] = b[q][n] => p = q /\ m = n
        BY <1>0, Zenon DEF Unique
      <4>5. \A m \in 1..Len(b[r]), n \in 1..Len(b[v]) : b[r][m] = b[v][n] => r = v /\ m = n
        BY <4>4, Zenon
      <4> QED BY <4>1, <4>2, <4>3, <4>5, Zenon
    <3> QED BY <3>2, <3>3
  <2> QED BY <2>1, <2>2, <2>3 DEF Unique
<1>16. Paired(sec, x2, w2, b2)
  <2> SUFFICES ASSUME NEW r \in WsSockets, NEW v \in WsSockets,
                      x2[r].conn # 0, x2[r].end = "client"
               PROVE  /\ x2[v].conn = x2[r].conn /\ x2[v].end = "server" =>
                           Pair(sec, x2[r], x2[v].done, w2[x2[r].conn])
                      /\ \A i \in 1..Len(b2[v]) : b2[v][i] = x2[r].conn =>
                           Pair(sec, x2[r], FALSE, w2[x2[r].conn])
    BY DEF Paired
  <2>1. CASE r = s
    <3>1. x2[r] = u /\ w2[x2[r].conn] = k BY <2>1, <1>2, <1>4
    <3>2. ~(x2[v].conn = x2[r].conn /\ x2[v].end = "server") BY <2>1, <1>4, <1>7
    <3> QED BY <3>1, <3>2, <1>10
  <2>2. CASE r # s
    <3>1. x2[r] = x[r] /\ x[r].conn \in 1..Len(w) /\ w2[x2[r].conn] = w[x[r].conn]
      BY <2>2, <1>2, <1>3, <1>7
    <3>2. ASSUME x2[v].conn = x2[r].conn, x2[v].end = "server"
          PROVE  Pair(sec, x2[r], x2[v].done, w2[x2[r].conn])
      <4>1. v # s BY <3>2, <1>4
      <4> QED BY <4>1, <3>1, <3>2, <1>0, <1>7 DEF Paired
    <3>3. ASSUME NEW i \in 1..Len(b2[v]), b2[v][i] = x2[r].conn
          PROVE  Pair(sec, x2[r], FALSE, w2[x2[r].conn])
      <4>1. i \in 1..Len(b[v]) /\ b2[v][i] = b[v][i] BY <2>2, <3>3, <1>6, <1>7
      <4> QED BY <4>1, <3>1, <3>3, <1>0 DEF Paired
    <3> QED BY <3>2, <3>3
  <2> QED BY <2>1, <2>2
<1>17. WebOK(sec, x2, w2, b2)
  BY <1>8, <1>9, <1>12, <1>13, <1>14, <1>15, <1>16 DEF WebOK
<1> QED BY <1>17 DEF x2, w2, b2

(* A step of the socket s on its connection: it becomes k2, and s becomes u. *)
LEMMA Stepped ==
  ASSUME NEW sec, NEW x, NEW w, NEW b, WebOK(sec, x, w, b), NEW s \in WsSockets,
         NEW c, c = x[s].conn, c # 0,
         NEW u \in Web!State, u.conn = c, u.end = x[s].end, Alone(u, b[s]),
         NEW k2 \in Web!Conn, Traffic(k2, c), Holds(sec, u, k2),
         \A t \in WsSockets : t # s /\ x[t].conn = c /\ x[t].end # u.end =>
           /\ Holds(sec, x[t], k2)
           /\ u.end = "client" => Pair(sec, u, x[t].done, k2)
           /\ u.end = "server" => Pair(sec, x[t], u.done, k2),
         \A t \in WsSockets : \A i \in 1..Len(b[t]) : b[t][i] = c /\ u.end = "client" =>
           "server" \in k2.open /\ ServerSide(k2, FALSE) /\ Pair(sec, u, FALSE, k2)
  PROVE  WebOK(sec, [x EXCEPT ![s] = u], [w EXCEPT ![c] = k2], b)
<1> DEFINE x2 == [x EXCEPT ![s] = u]
           w2 == [w EXCEPT ![c] = k2]
<1>0. Shape(x, w, b) /\ Unique(x, b) /\ Paired(sec, x, w, b) BY DEF WebOK
<1>1. /\ Len(w) \in Nat /\ DOMAIN w = 1..Len(w) /\ \A d \in 1..Len(w) : w[d] \in Web!Conn
      /\ \A r \in WsSockets : /\ x[r] \in Web!State /\ x[r].conn \in 0..Len(w)
                              /\ x[r].end \in Web!Ends
                              /\ b[r] \in Seq(1..Len(w)) /\ Len(b[r]) \in Nat
                              /\ \A i \in 1..Len(b[r]) : b[r][i] \in 1..Len(w)
  BY <1>0, Places
<1>2. c \in 1..Len(w) BY <1>1
<1>3. /\ w2 \in Seq(Web!Conn) /\ Len(w2) = Len(w) /\ w2[c] = k2
      /\ \A d \in 1..Len(w) : d # c => w2[d] = w[d]
  BY <1>0, <1>2 DEF Shape
<1>4. x2[s] = u /\ \A r \in WsSockets : (r # s => x2[r] = x[r])
  BY <1>0 DEF Shape
<1>5. Shape(x2, w2, b)
  <2>1. x2 \in [WsSockets -> Web!State] BY <1>0 DEF Shape
  <2>2. \A r \in WsSockets : x2[r].conn <= Len(w) BY <1>1, <1>2, <1>4
  <2> QED BY <2>1, <2>2, <1>0, <1>3 DEF Shape
<1> HIDE DEF x2, w2
<1>6. \A r \in WsSockets : x2[r].conn = x[r].conn /\ x2[r].end = x[r].end BY <1>4
<1>7. Unique(x2, b) BY <1>0, <1>6 DEF Unique
<1>8. \A d \in 1..Len(w2) : Traffic(w2[d], d) BY <1>3 DEF WebOK
<1>9. \A r \in WsSockets : Alone(x2[r], b[r]) BY <1>4 DEF WebOK
<1>10. \A r \in WsSockets : x2[r].conn # 0 => Holds(sec, x2[r], w2[x2[r].conn])
  <2> SUFFICES ASSUME NEW r \in WsSockets, x2[r].conn # 0
               PROVE  Holds(sec, x2[r], w2[x2[r].conn])
    OBVIOUS
  <2>1. CASE r = s BY <2>1, <1>3, <1>4
  <2>2. CASE r # s /\ x[r].conn = c
    <3>1. x[r].end # u.end BY <2>2, <1>0 DEF Unique
    <3> QED BY <3>1, <2>2, <1>3, <1>4
  <2>3. CASE r # s /\ x[r].conn # c
    <3>1. x[r].conn \in 1..Len(w) BY <2>3, <1>1, <1>6
    <3> QED BY <3>1, <2>3, <1>3, <1>4 DEF WebOK
  <2> QED BY <2>1, <2>2, <2>3
<1>11. \A r \in WsSockets : \A i \in 1..Len(b[r]) :
         "server" \in w2[b[r][i]].open /\ ServerSide(w2[b[r][i]], FALSE)
  <2> SUFFICES ASSUME NEW r \in WsSockets, NEW i \in 1..Len(b[r])
               PROVE  "server" \in w2[b[r][i]].open /\ ServerSide(w2[b[r][i]], FALSE)
    OBVIOUS
  <2>1. CASE b[r][i] = c
    <3>1. u.end = "client" BY <2>1, <1>0 DEF Unique
    <3> QED BY <2>1, <3>1, <1>3
  <2>2. CASE b[r][i] # c
    <3>1. w2[b[r][i]] = w[b[r][i]] BY <2>2, <1>1, <1>3
    <3> QED BY <3>1 DEF WebOK
  <2> QED BY <2>1, <2>2
<1>12. Paired(sec, x2, w2, b)
  <2> SUFFICES ASSUME NEW r \in WsSockets, NEW v \in WsSockets,
                      x2[r].conn # 0, x2[r].end = "client"
               PROVE  /\ x2[v].conn = x2[r].conn /\ x2[v].end = "server" =>
                           Pair(sec, x2[r], x2[v].done, w2[x2[r].conn])
                      /\ \A i \in 1..Len(b[v]) : b[v][i] = x2[r].conn =>
                           Pair(sec, x2[r], FALSE, w2[x2[r].conn])
    BY DEF Paired
  <2>1. ASSUME x2[v].conn = x2[r].conn, x2[v].end = "server"
        PROVE  Pair(sec, x2[r], x2[v].done, w2[x2[r].conn])
    <3>0. r # v BY <2>1
    <3>1. CASE r = s BY <3>0, <3>1, <2>1, <1>3, <1>4
    <3>2. CASE v = s BY <3>0, <3>2, <2>1, <1>3, <1>4
    <3>3. CASE r # s /\ v # s
      <4>1. x[r].conn # c
        <5> SUFFICES ASSUME x[r].conn = c PROVE FALSE OBVIOUS
        <5>1. u.end \in Web!Ends BY <1>1
        <5>2. u.end # "client" BY <3>3, <1>0, <1>6 DEF Unique
        <5>3. u.end # "server" BY <3>3, <2>1, <1>0, <1>6 DEF Unique
        <5> QED BY <5>1, <5>2, <5>3
      <4>2. w2[x[r].conn] = w[x[r].conn] BY <4>1, <1>1, <1>3, <1>6
      <4> QED BY <4>2, <3>3, <2>1, <1>0, <1>4 DEF Paired
    <3> QED BY <3>1, <3>2, <3>3
  <2>2. ASSUME NEW i \in 1..Len(b[v]), b[v][i] = x2[r].conn
        PROVE  Pair(sec, x2[r], FALSE, w2[x2[r].conn])
    <3>1. CASE r = s BY <3>1, <2>2, <1>3, <1>4
    <3>2. CASE r # s
      <4>1. x[r].conn # c
        <5> SUFFICES ASSUME x[r].conn = c PROVE FALSE OBVIOUS
        <5>1. u.end = "client" BY <2>2, <1>0, <1>6 DEF Unique
        <5>2. x[r].end = x[s].end /\ x[r].conn = x[s].conn /\ x[r].conn # 0 BY <5>1, <1>6
        <5> QED BY <5>2, <3>2, <1>0, Zenon DEF Unique
      <4>2. w2[x[r].conn] = w[x[r].conn] BY <4>1, <1>1, <1>3, <1>6
      <4> QED BY <4>2, <3>2, <2>2, <1>0, <1>4 DEF Paired
    <3> QED BY <3>1, <3>2
  <2> QED BY <2>1, <2>2
<1>13. WebOK(sec, x2, w2, b)
  BY <1>5, <1>7, <1>8, <1>9, <1>10, <1>11, <1>12 DEF WebOK
<1> QED BY <1>13 DEF x2, w2

(* What a write of u by end e makes of the connection k, what a read at end e *)
(* makes of it, and the counts of frames.                                     *)
Reaches(k, e, u) ==
  IF Web!Other(e) \in k.open
  THEN [k EXCEPT !.to = [k.to EXCEPT ![Web!Other(e)] = Append(k.to[Web!Other(e)], u)]]
  ELSE k
Takes(k, e) == [k EXCEPT !.to = [k.to EXCEPT ![e] = Tail(k.to[e])]]
Sends(k, e) == [k EXCEPT !.sent = [k.sent EXCEPT ![e] = k.sent[e] + 1]]
Gets(k, e, n) == [k EXCEPT !.got = [k.got EXCEPT ![e] = n]]

LEMMA WrittenIs ==
  ASSUME NEW w \in Seq(Web!Conn), NEW c \in 1..Len(w), NEW e \in Web!Ends, NEW u
  PROVE  Web!Written(w, c, e, u) = [w EXCEPT ![c] = Reaches(w[c], e, u)]
<1>0. w[c] \in Web!Conn /\ c \in DOMAIN w BY SeqElements
<1>1. CASE Web!Other(e) \in w[c].open
  BY <1>0, <1>1 DEF Web!Written, Reaches, Web!Conn
<1>2. CASE Web!Other(e) \notin w[c].open
  BY <1>0, <1>2 DEF Web!Written, Reaches
<1> QED BY <1>1, <1>2

LEMMA ReachesIs ==
  ASSUME NEW k \in Web!Conn, NEW e \in Web!Ends, NEW u \in Web!Unit
  PROVE  LET k2 == Reaches(k, e, u)
             o == Web!Other(e) IN
         /\ k2 \in Web!Conn /\ k2.open = k.open /\ k2.sent = k.sent /\ k2.got = k.got
         /\ k2.to[e] = k.to[e]
         /\ k2.to[o] = IF o \in k.open THEN Append(k.to[o], u) ELSE k.to[o]
<1> DEFINE o == Web!Other(e)
           k2 == Reaches(k, e, u)
           q == [k.to EXCEPT ![o] = Append(k.to[o], u)]
<1>0. /\ k.to \in [Web!Ends -> Seq(Web!Unit)] /\ o \in Web!Ends /\ o # e
      /\ k.to[o] \in Seq(Web!Unit)
  BY ConnFields, OtherEnd
<1>1. CASE o \in k.open
  <2>1. Append(k.to[o], u) \in Seq(Web!Unit)
    <3> DEFINE p == k.to[o]
    <3>1. p \in Seq(Web!Unit) BY <1>0
    <3> HIDE DEF p
    <3>2. Append(p, u) \in Seq(Web!Unit) BY <3>1
    <3> QED BY <3>2 DEF p
  <2>2. q \in [Web!Ends -> Seq(Web!Unit)] /\ q[o] = Append(k.to[o], u) /\ q[e] = k.to[e]
    BY <1>0, <2>1
  <2> HIDE DEF q
  <2>3. k2 = [k EXCEPT !.to = q] BY <1>1 DEF Reaches, q
  <2>4. /\ k2 \in Web!Conn /\ k2.open = k.open /\ k2.sent = k.sent /\ k2.got = k.got
        /\ k2.to = q
    BY <2>2, <2>3 DEF Web!Conn
  <2> QED BY <1>1, <2>2, <2>4
<1>2. CASE o \notin k.open BY <1>2 DEF Reaches
<1> QED BY <1>1, <1>2

LEMMA TakesIs ==
  ASSUME NEW k \in Web!Conn, NEW e \in Web!Ends, k.to[e] # <<>>
  PROVE  LET k2 == Takes(k, e) IN
         /\ k2 \in Web!Conn /\ k2.open = k.open /\ k2.sent = k.sent /\ k2.got = k.got
         /\ k2.to[e] = Tail(k.to[e]) /\ \A d \in Web!Ends : d # e => k2.to[d] = k.to[d]
<1> DEFINE k2 == Takes(k, e)
           q == [k.to EXCEPT ![e] = Tail(k.to[e])]
<1>0. k.to \in [Web!Ends -> Seq(Web!Unit)] /\ k.to[e] \in Seq(Web!Unit) BY ConnFields
<1>1. Tail(k.to[e]) \in Seq(Web!Unit) BY <1>0, TailFrames
<1>2. /\ q \in [Web!Ends -> Seq(Web!Unit)] /\ q[e] = Tail(k.to[e])
      /\ \A d \in Web!Ends : d # e => q[d] = k.to[d]
  BY <1>0, <1>1
<1> HIDE DEF q
<1>3. k2 = [k EXCEPT !.to = q] BY DEF Takes, q
<1>4. /\ k2 \in Web!Conn /\ k2.open = k.open /\ k2.sent = k.sent /\ k2.got = k.got
      /\ k2.to = q
  BY <1>2, <1>3 DEF Web!Conn
<1> QED BY <1>2, <1>4

LEMMA SendsIs ==
  ASSUME NEW k \in Web!Conn, NEW e \in Web!Ends, k.sent[e] < MaxCalls
  PROVE  LET k2 == Sends(k, e) IN
         /\ k2 \in Web!Conn /\ k2.open = k.open /\ k2.to = k.to /\ k2.got = k.got
         /\ k2.sent[e] = k.sent[e] + 1
         /\ \A d \in Web!Ends : d # e => k2.sent[d] = k.sent[d]
<1> DEFINE k2 == Sends(k, e)
           q == [k.sent EXCEPT ![e] = k.sent[e] + 1]
<1>0. k.sent \in [Web!Ends -> 0..MaxCalls] /\ k.sent[e] \in 0..MaxCalls BY ConnFields
<1>1. k.sent[e] + 1 \in 0..MaxCalls BY <1>0, WebAssumption
<1>2. /\ q \in [Web!Ends -> 0..MaxCalls] /\ q[e] = k.sent[e] + 1
      /\ \A d \in Web!Ends : d # e => q[d] = k.sent[d]
  BY <1>0, <1>1
<1> HIDE DEF q
<1>3. k2 = [k EXCEPT !.sent = q] BY DEF Sends, q
<1>4. /\ k2 \in Web!Conn /\ k2.open = k.open /\ k2.to = k.to /\ k2.got = k.got
      /\ k2.sent = q
  BY <1>2, <1>3 DEF Web!Conn
<1> QED BY <1>2, <1>4

LEMMA GetsIs ==
  ASSUME NEW k \in Web!Conn, NEW e \in Web!Ends, NEW n \in 0..MaxCalls
  PROVE  LET k2 == Gets(k, e, n) IN
         /\ k2 \in Web!Conn /\ k2.open = k.open /\ k2.to = k.to /\ k2.sent = k.sent
         /\ k2.got[e] = n /\ \A d \in Web!Ends : d # e => k2.got[d] = k.got[d]
<1> DEFINE k2 == Gets(k, e, n)
           q == [k.got EXCEPT ![e] = n]
<1>0. k.got \in [Web!Ends -> 0..MaxCalls] BY ConnFields
<1>2. /\ q \in [Web!Ends -> 0..MaxCalls] /\ q[e] = n
      /\ \A d \in Web!Ends : d # e => q[d] = k.got[d]
  BY <1>0
<1> HIDE DEF q
<1>3. k2 = [k EXCEPT !.got = q] BY DEF Gets, q
<1>4. /\ k2 \in Web!Conn /\ k2.open = k.open /\ k2.to = k.to /\ k2.sent = k.sent
      /\ k2.got = q
  BY <1>2, <1>3 DEF Web!Conn
<1> QED BY <1>2, <1>4

(* What a step of s finds at its own end. *)
LEMMA OwnEnd ==
  ASSUME WebInv, NEW s \in WsSockets, ws[s].conn # 0
  PROVE  /\ wire \in Seq(Web!Conn) /\ ws[s].conn \in 1..Len(wire)
         /\ wire[ws[s].conn] \in Web!Conn
         /\ ws[s] \in Web!State /\ ws[s].end \in Web!Ends
         /\ Traffic(wire[ws[s].conn], ws[s].conn)
         /\ Holds(secure, ws[s], wire[ws[s].conn])
<1>1. Shape(ws, wire, backlog) BY DEF WebInv, WebOK
<1>2. /\ Len(wire) \in Nat /\ ws[s] \in Web!State /\ ws[s].conn \in 0..Len(wire)
      /\ ws[s].end \in Web!Ends /\ \A c \in 1..Len(wire) : wire[c] \in Web!Conn
  BY <1>1, Places
<1>3. ws[s].conn \in 1..Len(wire) BY <1>2
<1>4. wire \in Seq(Web!Conn) BY <1>1 DEF Shape
<1> QED BY <1>2, <1>3, <1>4 DEF WebInv, WebOK

LEMMA ConsumedIs ==
  ASSUME WebInv, NEW s \in WsSockets, ws[s].conn # 0
  PROVE  Web!Consumed(s) =
           [wire EXCEPT ![ws[s].conn] = Takes(wire[ws[s].conn], ws[s].end)]
  BY OwnEnd DEF Web!Consumed, Takes, Web!Conn

LEMMA WebGiveUp ==
  ASSUME WebInv, NEW s \in WsSockets, NEW u \in Web!State, u.conn = 0, Alone(u, <<>>)
  PROVE  /\ WebOK(secure, [ws EXCEPT ![s] = u], Web!Closed(s), [backlog EXCEPT ![s] = <<>>])
         /\ Len(Web!Closed(s)) = Len(wire)
<1> DEFINE D == [c \in DOMAIN wire |-> Web!Closing(s, c)]
<1>0. WebOK(secure, ws, wire, backlog) /\ Shape(ws, wire, backlog) BY DEF WebInv, WebOK
<1>1. /\ DOMAIN wire = 1..Len(wire) /\ ws[s].end \in Web!Ends
      /\ backlog[s] \in Seq(1..Len(wire))
  BY <1>0, Places
<1>2. Web!Range(backlog[s]) = {backlog[s][i] : i \in 1..Len(backlog[s])}
  BY <1>1, RangeIs
<1>3. ASSUME NEW c \in 1..Len(wire)
      PROVE  /\ D[c] = Web!Closing(s, c)
             /\ "client" \in D[c] => ws[s].conn = c /\ ws[s].end = "client"
             /\ "server" \in D[c] =>
                  \/ ws[s].conn = c /\ ws[s].end = "server"
                  \/ \E i \in 1..Len(backlog[s]) : backlog[s][i] = c
  <2>1. D[c] = Web!Closing(s, c) BY <1>1
  <2>2. "client" \in Web!Closing(s, c) => ws[s].conn = c /\ ws[s].end = "client"
    BY DEF Web!Closing
  <2>3. "server" \in Web!Closing(s, c) =>
          (ws[s].conn = c /\ ws[s].end = "server") \/ c \in Web!Range(backlog[s])
    BY DEF Web!Closing
  <2>4. c \in Web!Range(backlog[s]) => \E i \in 1..Len(backlog[s]) : backlog[s][i] = c
    BY <1>2
  <2> QED BY <2>1, <2>2, <2>3, <2>4
<1>4. Web!Closed(s) = Without(wire, D)
  BY <1>1, <1>3 DEF Web!Closed, Without
<1> DEFINE w2 == Web!Closed(s)
<1> HIDE DEF D, w2
<1>5. w2 = Without(wire, D)
  BY <1>4 DEF w2
<1>6. /\ WebOK(secure, [ws EXCEPT ![s] = u], w2, [backlog EXCEPT ![s] = <<>>])
      /\ Len(w2) = Len(wire)
  <2>1. OwnEnds(D, s, ws, wire, backlog) BY <1>3 DEF OwnEnds
  <2> QED BY <2>1, <1>0, <1>5, GivenUp
<1> QED BY <1>6 DEF w2

LEMMA UnusedIs ==
  /\ Web!Unused \in Web!State /\ Web!Unused.conn = 0
  /\ Web!Unused.end = "client" /\ ~Web!Unused.listener /\ ~Web!Unused.bound
  /\ ~Web!Unused.connected /\ ~Web!Unused.done /\ ~Web!Unused.asked
  BY WebAssumption DEF Web!Unused, Web!State

LEMMA WebBind ==
  ASSUME WebInv, NEW s \in WsSockets, Web!Bind(s), UNCHANGED secure
  PROVE  WebInv'
<1> DEFINE u == [Web!Unused EXCEPT !.listener = TRUE, !.bound = TRUE]
<1>1. u \in Web!State /\ u.conn = 0 /\ Alone(u, <<>>)
  <2>1. u \in Web!State BY UnusedIs DEF Web!State
  <2>2. u.conn = 0 /\ u.listener /\ u.bound /\ ~u.connected /\ ~u.done
    BY UnusedIs DEF Web!State
  <2> HIDE DEF u
  <2> QED BY <2>1, <2>2 DEF Alone
<1>2. ws' = [ws EXCEPT ![s] = u] /\ wire' = Web!Closed(s)
      /\ backlog' = [backlog EXCEPT ![s] = <<>>]
  BY DEF Web!Bind
<1> HIDE DEF u
<1> QED BY <1>1, <1>2, WebGiveUp DEF WebInv

LEMMA WebUnbind ==
  ASSUME WebInv, NEW s \in WsSockets, Web!Unbind(s), UNCHANGED secure
  PROVE  WebInv'
<1> DEFINE u == [Web!Unused EXCEPT !.connected = ws[s].connected]
<1>0. Alone(ws[s], backlog[s]) /\ ws[s] \in Web!State
  BY Places DEF WebInv, WebOK
<1>1. ws[s].bound /\ ws[s].connected = FALSE
  BY <1>0, StateFields DEF Web!Unbind, Alone
<1>2. u \in Web!State /\ u.conn = 0 /\ Alone(u, <<>>)
  <2>1. u \in Web!State BY <1>1, UnusedIs DEF Web!State
  <2>2. u.conn = 0 /\ ~u.listener /\ ~u.bound /\ ~u.connected /\ ~u.done
    BY <1>1, UnusedIs DEF Web!State
  <2> HIDE DEF u
  <2> QED BY <2>1, <2>2 DEF Alone
<1>3. ws' = [ws EXCEPT ![s] = u] /\ wire' = Web!Closed(s)
      /\ backlog' = [backlog EXCEPT ![s] = <<>>]
  BY DEF Web!Unbind, Web!AfterUnbind
<1> HIDE DEF u
<1> QED BY <1>2, <1>3, WebGiveUp DEF WebInv

LEMMA WebDisconnect ==
  ASSUME WebInv, NEW s \in WsSockets, Web!Disconnect(s), UNCHANGED secure
  PROVE  WebInv'
<1> DEFINE u == [Web!Unused EXCEPT !.listener = ws[s].listener, !.bound = ws[s].bound]
<1>0. Alone(ws[s], backlog[s]) /\ ws[s] \in Web!State
  BY Places DEF WebInv, WebOK
<1>1. ws[s].connected /\ ws[s].bound = FALSE /\ ws[s].listener = FALSE
  BY <1>0, StateFields DEF Web!Disconnect, Alone
<1>2. u \in Web!State /\ u.conn = 0 /\ Alone(u, <<>>)
  <2>1. u \in Web!State BY <1>1, UnusedIs DEF Web!State
  <2>2. u.conn = 0 /\ ~u.listener /\ ~u.bound /\ ~u.connected /\ ~u.done
    BY <1>1, UnusedIs DEF Web!State
  <2> HIDE DEF u
  <2> QED BY <2>1, <2>2 DEF Alone
<1>3. ws' = [ws EXCEPT ![s] = u] /\ wire' = Web!Closed(s) /\ backlog' = backlog
  BY DEF Web!Disconnect
<1>4. backlog = [backlog EXCEPT ![s] = <<>>]
  BY <1>0, <1>1 DEF Alone, WebInv, WebOK, Shape
<1> HIDE DEF u
<1> QED BY <1>2, <1>3, <1>4, WebGiveUp DEF WebInv

LEMMA WebConnect ==
  ASSUME WebInv, NEW s \in WsSockets, NEW t \in WsSockets, Web!Connect(s, t),
         UNCHANGED secure
  PROVE  WebInv'
<1> DEFINE c == Len(wire) + 1
           none == [e \in Web!Ends |-> <<>>]
           zero == [e \in Web!Ends |-> 0]
           fresh == [to |-> none, open |-> Web!Ends, sent |-> zero, got |-> zero]
           u == [Web!Unused EXCEPT !.conn = c, !.connected = TRUE, !.key = c]
           x1 == [ws EXCEPT ![s] = Web!Unused]
           w1 == Web!Closed(s)
           b1 == [backlog EXCEPT ![s] = <<>>]
           k == IF secure THEN fresh ELSE Reaches(fresh, "client", Web!Request(c))
<1>0. /\ secure \in BOOLEAN /\ Shape(ws, wire, backlog) /\ Alone(Web!Unused, <<>>)
      /\ ws \in [WsSockets -> Web!State] /\ backlog \in [WsSockets -> Seq(1..Len(wire))]
      /\ Len(wire) \in Nat
  BY UnusedIs, Places DEF WebInv, WebOK, Shape, Alone
<1>1. /\ s # t /\ ws[t].listener /\ c <= MaxConns
      /\ ws' = [ws EXCEPT ![s] = u]
      /\ backlog' = [backlog EXCEPT ![t] = Append(@, c), ![s] = <<>>]
      /\ wire' = IF secure THEN Append(w1, fresh)
                 ELSE Web!Written(Append(w1, fresh), c, "client", Web!Request(c))
  BY <1>0 DEF Web!Connect, Web!AsksNow
<1>2. WebOK(secure, x1, w1, b1) /\ Len(w1) = Len(wire)
  BY <1>0, UnusedIs, WebGiveUp
<1>3. /\ x1[s].conn = 0 /\ b1[s] = <<>> /\ x1[t].listener /\ b1[t] = backlog[t]
  BY <1>0, <1>1, UnusedIs
<1>4. /\ u \in Web!State /\ u.conn = c /\ u.end = "client" /\ u.key = c
      /\ ~u.listener /\ ~u.bound /\ u.connected /\ ~u.done /\ ~u.asked
  <2>1. c \in 0..MaxConns BY <1>0, <1>1, WebAssumption
  <2> HIDE DEF c
  <2> QED BY <2>1, UnusedIs DEF Web!State
<1>5. /\ fresh \in Web!Conn /\ fresh.open = Web!Ends
      /\ fresh.to["client"] = <<>> /\ fresh.to["server"] = <<>>
      /\ fresh.sent = zero /\ fresh.got = zero
      /\ zero["client"] = 0 /\ zero["server"] = 0
  <2>1. none \in [Web!Ends -> Seq(Web!Unit)] OBVIOUS
  <2>2. zero \in [Web!Ends -> 0..MaxCalls] BY WebAssumption
  <2> QED BY <2>1, <2>2 DEF Web!Conn
<1>6. Web!Request(c) \in Web!Unit /\ Web!Request(c).what = "req" /\ Web!Request(c).key = c
  BY <1>0, <1>1, WebAssumption DEF Web!Request, Web!Unit
<1> HIDE DEF fresh, zero, none
<1>7. /\ k \in Web!Conn /\ k.open = Web!Ends /\ k.sent = zero /\ k.got = zero
      /\ k.to["client"] = <<>>
      /\ k.to["server"] = IF secure THEN <<>> ELSE <<Web!Request(c)>>
  <2>1. CASE secure BY <2>1, <1>5
  <2>2. CASE ~secure
    <3>1. k = Reaches(fresh, "client", Web!Request(c)) BY <2>2
    <3>2. "client" \in Web!Ends /\ "server" \in Web!Ends /\ Web!Other("client") = "server"
      BY OtherEnd
    <3> DEFINE r == Web!Request(c)
               e == "client"
               o == Web!Other(e)
    <3> HIDE DEF k, r, e, o
    <3>a. r \in Web!Unit /\ e \in Web!Ends /\ k = Reaches(fresh, e, r)
      BY <3>1, <3>2, <1>6 DEF r, e
    <3>b. /\ k \in Web!Conn /\ k.open = fresh.open /\ k.sent = fresh.sent /\ k.got = fresh.got
          /\ k.to[e] = fresh.to[e]
          /\ k.to[o] = IF o \in fresh.open THEN Append(fresh.to[o], r) ELSE fresh.to[o]
      BY <3>a, <1>5, ReachesIs, Zenon DEF o
    <3>3. /\ k \in Web!Conn /\ k.open = fresh.open /\ k.sent = fresh.sent /\ k.got = fresh.got
          /\ k.to["client"] = fresh.to["client"]
          /\ k.to["server"] = Append(fresh.to["server"], Web!Request(c))
      BY <3>2, <3>b, <1>5 DEF e, o, r
    <3> QED BY <2>2, <3>3, <1>5
  <2> QED BY <2>1, <2>2
<1> HIDE DEF k, c, u, x1, w1, b1
<1>8. Traffic(k, c)
  <2>1. /\ Web!Other("client") = "server" /\ Web!Other("server") = "client"
    BY OtherEnd
  <2>2. /\ Buffer(k.to["client"], "client", c, 0) /\ Web!Ahead(k.to["client"]) = 0
        /\ Len(k.to["client"]) = 0
    BY <1>7, EmptyBuffer
  <2>3. /\ Buffer(k.to["server"], "server", c, 0)
        /\ Len(k.to["server"]) = Web!Ahead(k.to["server"]) /\ Len(k.to["server"]) \in Nat
    <3>1. CASE secure BY <3>1, <1>7, EmptyBuffer
    <3>2. CASE ~secure BY <3>2, <1>6, <1>7, OneUnitBuffer
    <3> QED BY <3>1, <3>2
  <2>4. ASSUME NEW e \in Web!Ends
        PROVE  /\ Buffer(k.to[e], e, c, k.got[e])
               /\ k.got[e] + Len(k.to[e]) - Web!Ahead(k.to[e]) = 0
               /\ k.sent[Web!Other(e)] = 0
    <3>1. CASE e = "client" BY <3>1, <2>1, <2>2, <1>5, <1>7
    <3>2. CASE e = "server"
      <4>1. k.got[e] = 0 /\ k.sent[Web!Other(e)] = 0 BY <3>2, <2>1, <1>5, <1>7
      <4> QED BY <3>2, <4>1, <2>3
    <3> QED BY <3>1, <3>2
  <2> QED BY <2>4 DEF Traffic
<1>9. IF secure THEN k.to["server"] = <<>>
      ELSE k.to["server"] # <<>> /\ Web!Ahead(k.to["server"]) = 1
  <2>1. ASSUME ~secure PROVE Web!Ahead(k.to["server"]) = 1 /\ k.to["server"] # <<>>
    BY <2>1, <1>6, <1>7, OneUnitBuffer
  <2> QED BY <2>1, <1>7
<1>10. k.sent["client"] = 0 /\ k.sent["server"] = 0 BY <1>5, <1>7
<1>11. WebOK(secure, [x1 EXCEPT ![s] = u], Append(w1, k), [b1 EXCEPT ![t] = Append(b1[t], c)])
  <2>1. c = Len(w1) + 1 BY <1>2 DEF c
  <2> QED BY <2>1, <1>0, <1>1, <1>2, <1>3, <1>4, <1>7, <1>8, <1>9, <1>10, Opened
<1>12. ws' = [x1 EXCEPT ![s] = u] BY <1>0, <1>1 DEF x1
<1>13. backlog' = [b1 EXCEPT ![t] = Append(b1[t], c)] BY <1>0, <1>1, <1>3 DEF b1
<1>14. wire' = Append(w1, k)
  <2>1. CASE secure BY <2>1, <1>1 DEF k
  <2>2. CASE ~secure
    <3> DEFINE w2 == Append(w1, fresh)
    <3>0. w1 \in Seq(Web!Conn) /\ c = Len(w1) + 1 /\ Len(w1) \in Nat
      BY <1>0, <1>2 DEF WebOK, Shape, c
    <3>1. w2 \in Seq(Web!Conn) /\ c \in 1..Len(w2) /\ w2[c] = fresh BY <3>0, <1>5
    <3>2. wire' = Web!Written(w2, c, "client", Web!Request(c)) BY <2>2, <1>1
    <3>3. "client" \in Web!Ends OBVIOUS
    <3>4. wire' = [w2 EXCEPT ![c] = Reaches(w2[c], "client", Web!Request(c))]
      <4> HIDE DEF w2
      <4> QED BY <3>1, <3>2, <3>3, WrittenIs
    <3>5. wire' = [w2 EXCEPT ![c] = k] BY <2>2, <3>1, <3>4 DEF k
    <3>6. [w2 EXCEPT ![c] = k] = Append(w1, k)
      <4> DEFINE a == [w2 EXCEPT ![c] = k]
                 d == Append(w1, k)
      <4>1. /\ a \in Seq(Web!Conn) /\ d \in Seq(Web!Conn)
            /\ Len(a) = Len(w1) + 1 /\ Len(d) = Len(w1) + 1
        BY <3>0, <1>5, <1>7
      <4>2. \A i \in 1..Len(w1) : a[i] = w1[i] /\ d[i] = w1[i]
        <5>1. \A i \in 1..Len(w1) : w2[i] = w1[i] /\ d[i] = w1[i] BY <3>0, <1>5, <1>7
        <5>2. \A i \in 1..Len(w1) : i # c /\ i \in 1..Len(w2) BY <3>0, <3>1, <1>5
        <5>3. \A i \in 1..Len(w2) : i # c => a[i] = w2[i]
          <6> HIDE DEF w2
          <6> QED BY <3>1
        <5> HIDE DEF w2, a, d
        <5> QED BY <5>1, <5>2, <5>3
      <4>3. a[c] = k /\ d[c] = k BY <3>0, <1>5, <1>7
      <4>4. \A i \in 1..Len(a) : a[i] = d[i]
        <5> HIDE DEF a, d
        <5> QED BY <3>0, <4>1, <4>2, <4>3
      <4> HIDE DEF a, d
      <4>5. a = d BY <4>1, <4>4, SameElements
      <4> QED BY <4>5 DEF a, d
    <3> QED BY <3>5, <3>6
  <2> QED BY <2>1, <2>2
<1> QED BY <1>0, <1>11, <1>12, <1>13, <1>14 DEF WebInv

LEMMA WebAccept ==
  ASSUME WebInv, NEW s \in WsSockets, Web!Accept(s), UNCHANGED secure
  PROVE  WebInv'
<1> DEFINE u == [ws[s] EXCEPT !.conn = Head(backlog[s]), !.end = "server"]
<1>0. /\ WebOK(secure, ws, wire, backlog) /\ Shape(ws, wire, backlog)
      /\ ws[s] \in Web!State /\ backlog[s] \in Seq(1..Len(wire))
      /\ ws \in [WsSockets -> Web!State] /\ Len(wire) \in Nat /\ Len(wire) <= MaxConns
      /\ backlog \in [WsSockets -> Seq(1..Len(wire))]
  BY Places DEF WebInv, WebOK, Shape
<1>1. /\ ws[s].listener /\ ws[s].conn = 0 /\ backlog[s] # <<>>
  BY DEF Web!Accept, Web!MayAccept
<1>2. Head(backlog[s]) \in 0..MaxConns BY <1>0, <1>1, SeqEnds, WebAssumption
<1>3. /\ u \in Web!State /\ u.conn = Head(backlog[s]) /\ u.end = "server"
      /\ u.listener = ws[s].listener /\ u.bound = ws[s].bound
      /\ u.connected = ws[s].connected /\ u.done = ws[s].done
  BY <1>0, <1>2 DEF Web!State
<1>4. ws' = [ws EXCEPT ![s] = u] BY <1>0 DEF Web!Accept, Web!State
<1>5. wire' = wire /\ backlog' = [backlog EXCEPT ![s] = Tail(backlog[s])]
  BY <1>0 DEF Web!Accept
<1> HIDE DEF u
<1>6. WebOK(secure, [ws EXCEPT ![s] = u], wire, [backlog EXCEPT ![s] = Tail(backlog[s])])
  BY <1>0, <1>1, <1>3, Accepted
<1> QED BY <1>4, <1>5, <1>6 DEF WebInv

(* A step at the client's end: whoever has the server's end, a socket or a    *)
(* backlog, finds what it expects.                                            *)
LEMMA ClientStep ==
  ASSUME WebInv, NEW s \in WsSockets, NEW c, c = ws[s].conn, c # 0,
         ws[s].end = "client", NEW k, k = wire[c],
         NEW u \in Web!State, u.conn = c, u.end = "client",
         u.listener = ws[s].listener, u.bound = ws[s].bound,
         u.connected = ws[s].connected,
         NEW k2 \in Web!Conn, k2.open = k.open, Traffic(k2, c), ClientSide(secure, u, k2),
         \A d \in BOOLEAN :
           "server" \in k.open /\ ServerSide(k, d) /\ Pair(secure, ws[s], d, k) =>
             ServerSide(k2, d) /\ Pair(secure, u, d, k2)
  PROVE  WebOK(secure, [ws EXCEPT ![s] = u], [wire EXCEPT ![c] = k2], backlog)
<1>0. /\ WebOK(secure, ws, wire, backlog) /\ Paired(secure, ws, wire, backlog)
      /\ Shape(ws, wire, backlog)
  BY DEF WebInv, WebOK
<1>1. Holds(secure, ws[s], k) /\ Alone(ws[s], backlog[s]) BY <1>0 DEF WebOK
<1>2. Alone(u, backlog[s]) BY <1>1 DEF Alone
<1>3. Holds(secure, u, k2) BY <1>1 DEF Holds
<1>4. ASSUME NEW t \in WsSockets, t # s, ws[t].conn = c, ws[t].end # u.end
      PROVE  /\ Holds(secure, ws[t], k2)
             /\ u.end = "client" => Pair(secure, u, ws[t].done, k2)
             /\ u.end = "server" => Pair(secure, ws[t], u.done, k2)
  <2>1. ws[t] \in Web!State /\ ws[t].end \in Web!Ends BY <1>0, Places
  <2>2. ws[t].end = "server" /\ ws[t].done \in BOOLEAN BY <1>4, <2>1, StateFields
  <2>3. Holds(secure, ws[t], k) BY <1>0, <1>4 DEF WebOK
  <2>4. "server" \in k.open /\ ServerSide(k, ws[t].done) BY <2>2, <2>3 DEF Holds
  <2>5. Pair(secure, ws[s], ws[t].done, k) BY <1>0, <1>4, <2>2 DEF Paired
  <2>6. ServerSide(k2, ws[t].done) /\ Pair(secure, u, ws[t].done, k2)
    BY <2>2, <2>4, <2>5
  <2> QED BY <2>2, <2>3, <2>4, <2>6 DEF Holds
<1>5. ASSUME NEW t \in WsSockets, NEW i \in 1..Len(backlog[t]), backlog[t][i] = c
      PROVE  "server" \in k2.open /\ ServerSide(k2, FALSE) /\ Pair(secure, u, FALSE, k2)
  <2>1. "server" \in k.open /\ ServerSide(k, FALSE) BY <1>0, <1>5 DEF WebOK
  <2>2. Pair(secure, ws[s], FALSE, k) BY <1>0, <1>5 DEF Paired
  <2> QED BY <2>1, <2>2
<1> QED BY <1>0, <1>2, <1>3, <1>4, <1>5, Stepped

LEMMA ServerStep ==
  ASSUME WebInv, NEW s \in WsSockets, NEW c, c = ws[s].conn, c # 0,
         ws[s].end = "server", NEW k, k = wire[c],
         NEW u \in Web!State, u.conn = c, u.end = "server",
         u.listener = ws[s].listener, u.bound = ws[s].bound,
         u.connected = ws[s].connected,
         NEW k2 \in Web!Conn, k2.open = k.open, Traffic(k2, c), ServerSide(k2, u.done),
         \A v \in Web!State :
           "client" \in k.open /\ ClientSide(secure, v, k) /\ Pair(secure, v, ws[s].done, k) =>
             ClientSide(secure, v, k2) /\ Pair(secure, v, u.done, k2)
  PROVE  WebOK(secure, [ws EXCEPT ![s] = u], [wire EXCEPT ![c] = k2], backlog)
<1>0. /\ WebOK(secure, ws, wire, backlog) /\ Paired(secure, ws, wire, backlog)
      /\ Shape(ws, wire, backlog)
  BY DEF WebInv, WebOK
<1>1. Holds(secure, ws[s], k) /\ Alone(ws[s], backlog[s]) BY <1>0 DEF WebOK
<1>2. Alone(u, backlog[s]) BY <1>1 DEF Alone
<1>3. Holds(secure, u, k2) BY <1>1 DEF Holds
<1>4. ASSUME NEW t \in WsSockets, t # s, ws[t].conn = c, ws[t].end # u.end
      PROVE  /\ Holds(secure, ws[t], k2)
             /\ u.end = "client" => Pair(secure, u, ws[t].done, k2)
             /\ u.end = "server" => Pair(secure, ws[t], u.done, k2)
  <2>1. ws[t] \in Web!State /\ ws[t].end \in Web!Ends BY <1>0, Places
  <2>2. ws[t].end = "client" BY <1>4, <2>1
  <2>3. Holds(secure, ws[t], k) BY <1>0, <1>4 DEF WebOK
  <2>4. "client" \in k.open /\ ClientSide(secure, ws[t], k) BY <2>2, <2>3 DEF Holds
  <2>5. Pair(secure, ws[t], ws[s].done, k) BY <1>0, <1>4, <2>2 DEF Paired
  <2>6. ClientSide(secure, ws[t], k2) /\ Pair(secure, ws[t], u.done, k2)
    BY <2>1, <2>4, <2>5
  <2> QED BY <2>2, <2>3, <2>4, <2>6 DEF Holds
<1> QED BY <1>0, <1>2, <1>3, <1>4, Stepped

(* Both ends of a connection. *)
LEMMA TrafficOfEnds ==
  ASSUME NEW k, NEW c
  PROVE  Traffic(k, c) <=>
           /\ Buffer(k.to["client"], "client", c, k.got["client"])
           /\ Buffer(k.to["server"], "server", c, k.got["server"])
           /\ k.got["client"] + Len(k.to["client"]) - Web!Ahead(k.to["client"]) <= k.sent["server"]
           /\ k.got["server"] + Len(k.to["server"]) - Web!Ahead(k.to["server"]) <= k.sent["client"]
           /\ k.open = Web!Ends =>
                /\ k.got["client"] + Len(k.to["client"]) - Web!Ahead(k.to["client"])
                     = k.sent["server"]
                /\ k.got["server"] + Len(k.to["server"]) - Web!Ahead(k.to["server"])
                     = k.sent["client"]
  BY OtherEnd DEF Traffic

LEMMA BothEnds ==
  ASSUME NEW D, D \subseteq Web!Ends, "client" \in D, "server" \in D
  PROVE  D = Web!Ends
  OBVIOUS

LEMMA WebWriteRequest ==
  ASSUME WebInv, NEW s \in WsSockets, Web!WriteRequest(s), UNCHANGED secure
  PROVE  WebInv'
<1> DEFINE c == ws[s].conn
           k == wire[c]
           req == Web!Request(c)
           u == [ws[s] EXCEPT !.asked = TRUE]
           k2 == Reaches(k, "client", req)
<1>1. secure /\ ws[s].connected /\ ~ws[s].done /\ c # 0 /\ ~ws[s].asked
  BY DEF Web!WriteRequest, Web!Asked
<1>2. /\ wire \in Seq(Web!Conn) /\ c \in 1..Len(wire) /\ k \in Web!Conn /\ ws[s] \in Web!State
      /\ Traffic(k, c) /\ Holds(secure, ws[s], k)
  BY <1>1, OwnEnd
<1>3. /\ ws[s].end = "client" /\ ClientSide(secure, ws[s], k) /\ "client" \in k.open
      /\ ws[s].key = c
  BY <1>1, <1>2 DEF Holds, ClientSide
<1>4. k.to["server"] = <<>> /\ k.sent["client"] = 0 BY <1>1, <1>3 DEF ClientSide
<1>5. req \in Web!Unit /\ req.what = "req" /\ req.key = c
  <2>1. c \in 1..MaxConns BY <1>1, <1>2, StateFields, WebAssumption
  <2> QED BY <2>1 DEF Web!Request, Web!Unit
<1>6. /\ u \in Web!State /\ u.conn = c /\ u.end = "client" /\ u.key = c /\ u.asked
      /\ u.listener = ws[s].listener /\ u.bound = ws[s].bound
      /\ u.connected = ws[s].connected /\ ~u.done
  BY <1>1, <1>2, <1>3 DEF Web!State
<1>7. ws' = [ws EXCEPT ![s] = u] /\ backlog' = backlog
  BY <1>2 DEF Web!WriteRequest, Web!State
<1>8. wire' = [wire EXCEPT ![c] = k2]
  <2>1. wire' = Web!Written(wire, c, "client", req) BY <1>3 DEF Web!WriteRequest
  <2> QED BY <2>1, <1>2, WrittenIs
<1> HIDE DEF c, k, u, req, k2
<1>9. /\ k2 \in Web!Conn /\ k2.open = k.open /\ k2.sent = k.sent /\ k2.got = k.got
      /\ k2.to["client"] = k.to["client"]
      /\ k2.to["server"] = IF "server" \in k.open THEN <<req>> ELSE <<>>
  <2>1. "client" \in Web!Ends /\ Web!Other("client") = "server" BY OtherEnd
  <2>2. /\ k2 \in Web!Conn /\ k2.open = k.open /\ k2.sent = k.sent /\ k2.got = k.got
        /\ k2.to["client"] = k.to["client"]
        /\ k2.to[Web!Other("client")] =
             IF Web!Other("client") \in k.open THEN Append(k.to[Web!Other("client")], req)
             ELSE k.to[Web!Other("client")]
    BY <2>1, <1>2, <1>5, ReachesIs, Zenon DEF k2
  <2>3. k2.to["server"] = IF "server" \in k.open THEN Append(k.to["server"], req) ELSE k.to["server"]
    BY <2>1, <2>2, Zenon
  <2>4. Append(<<>>, req) = <<req>> OBVIOUS
  <2> QED BY <2>2, <2>3, <2>4, <1>4
<1>10. /\ Buffer(k2.to["server"], "server", c, k.got["server"])
       /\ Len(k2.to["server"]) = Web!Ahead(k2.to["server"]) /\ Len(k2.to["server"]) \in Nat
       /\ "server" \in k.open => k2.to["server"] # <<>> /\ Web!Ahead(k2.to["server"]) = 1
       /\ Web!Ahead(<<>>) = 0
  <2>1. CASE "server" \in k.open
    <3>1. k2.to["server"] = <<req>> BY <2>1, <1>9
    <3>2. Web!Ahead(<<req>>) = 1 /\ Buffer(<<req>>, "server", c, k.got["server"]) /\ Len(<<req>>) = 1
      BY <1>5, OneUnitBuffer
    <3> QED BY <3>1, <3>2, EmptyBuffer
  <2>2. CASE "server" \notin k.open BY <2>2, <1>9, EmptyBuffer
  <2> QED BY <2>1, <2>2
<1>11. Traffic(k2, c)
  <2>1. Web!Ahead(k.to["server"]) = 0 /\ Len(k.to["server"]) = 0 /\ k.got["server"] \in Nat
    BY <1>2, <1>4, <1>10, ConnFields
  <2>2. /\ Buffer(k.to["client"], "client", c, k.got["client"])
        /\ k.got["client"] + Len(k.to["client"]) - Web!Ahead(k.to["client"]) <= k.sent["server"]
        /\ k.open = Web!Ends =>
             /\ k.got["client"] + Len(k.to["client"]) - Web!Ahead(k.to["client"])
                  = k.sent["server"]
             /\ k.got["server"] = k.sent["client"]
        /\ k.got["server"] <= k.sent["client"]
    BY <2>1, <1>2, TrafficOfEnds
  <2>3. k2.got["server"] + Len(k2.to["server"]) - Web!Ahead(k2.to["server"]) = k.got["server"]
    BY <2>1, <1>9, <1>10
  <2> QED BY <2>2, <2>3, <1>9, <1>10, TrafficOfEnds
<1>12. ClientSide(secure, u, k2) BY <1>1, <1>3, <1>6, <1>9 DEF ClientSide, Fits
<1>13. ASSUME NEW d \in BOOLEAN, "server" \in k.open, ServerSide(k, d), Pair(secure, ws[s], d, k)
       PROVE  ServerSide(k2, d) /\ Pair(secure, u, d, k2)
  <2>1. d = FALSE BY <1>1, <1>13 DEF Pair
  <2> QED BY <2>1, <1>6, <1>9, <1>10, <1>13 DEF ServerSide, Pair, Fits
<1>14. WebOK(secure, [ws EXCEPT ![s] = u], [wire EXCEPT ![c] = k2], backlog)
  <2>1. c = ws[s].conn /\ k = wire[c] BY DEF c, k
  <2> QED BY <2>1, <1>1, <1>3, <1>6, <1>9, <1>11, <1>12, <1>13, ClientStep
<1> QED BY <1>7, <1>8, <1>14 DEF WebInv

(* A unit is taken from the buffer of end e, which had nothing ahead of its   *)
(* frames afterwards.                                                         *)
LEMMA HandshakeUnitTaken ==
  ASSUME NEW k \in Web!Conn, NEW c, Traffic(k, c), NEW e \in Web!Ends,
         k.to[e] # <<>>, Head(k.to[e]).what # "frame", NEW k2, k2 = Takes(k, e)
  PROVE  /\ Traffic(k2, c) /\ Web!Ahead(k.to[e]) = 1 /\ Web!Ahead(k2.to[e]) = 0
         /\ Head(k.to[e]).key = c
<1>1. /\ k2 \in Web!Conn /\ k2.open = k.open /\ k2.sent = k.sent /\ k2.got = k.got
      /\ k2.to[e] = Tail(k.to[e]) /\ \A d \in Web!Ends : d # e => k2.to[d] = k.to[d]
  BY TakesIs
<1>2. /\ k.to[e] \in Seq(Web!Unit) /\ k.got[e] \in Nat /\ Len(k.to[e]) \in Nat
      /\ Buffer(k.to[e], e, c, k.got[e])
  BY ConnFields DEF Traffic
<1>3. Web!Ahead(k.to[e]) = 1 /\ Head(k.to[e]).key = c
  <2>1. Web!Ahead(k.to[e]) = 1 BY DEF Web!Ahead
  <2> QED BY <2>1, <1>2 DEF Buffer
<1>4. /\ Len(Tail(k.to[e])) = Len(k.to[e]) - 1 /\ Web!Ahead(Tail(k.to[e])) = 0
      /\ Buffer(Tail(k.to[e]), e, c, k.got[e])
  <2> DEFINE q == k.to[e]
             g == k.got[e]
  <2>1. q \in Seq(Web!Unit) /\ q # <<>> /\ g \in Nat /\ Buffer(q, e, c, g) /\ Web!Ahead(q) = 1
    BY <1>2, <1>3
  <2> HIDE DEF q, g
  <2>2. /\ Tail(q) \in Seq(Web!Unit) /\ Len(Tail(q)) = Len(q) - 1
        /\ Web!Ahead(Tail(q)) = 0
        /\ Web!Ahead(q) = 1 => Buffer(Tail(q), e, c, g)
        /\ Web!Ahead(q) = 0 => Head(q).n = g + 1 /\ Buffer(Tail(q), e, c, g + 1)
    BY <2>1, UnitTaken, Zenon
  <2> QED BY <2>1, <2>2 DEF q, g
<1>5. ASSUME NEW d \in Web!Ends
      PROVE  LET sofar == k2.got[d] + Len(k2.to[d]) - Web!Ahead(k2.to[d]) IN
             /\ Buffer(k2.to[d], d, c, k2.got[d])
             /\ sofar <= k2.sent[Web!Other(d)]
             /\ k2.open = Web!Ends => sofar = k2.sent[Web!Other(d)]
  <2>1. CASE d # e BY <2>1, <1>1 DEF Traffic
  <2>2. CASE d = e
    <3>1. k2.got[d] + Len(k2.to[d]) - Web!Ahead(k2.to[d])
            = k.got[d] + Len(k.to[d]) - Web!Ahead(k.to[d])
      BY <2>2, <1>1, <1>2, <1>3, <1>4
    <3> QED BY <2>2, <3>1, <1>1, <1>4 DEF Traffic
  <2> QED BY <2>1, <2>2
<1>6. Traffic(k2, c) BY <1>5 DEF Traffic
<1> QED BY <1>1, <1>3, <1>4, <1>6

LEMMA WebClientHandshake ==
  ASSUME WebInv, NEW s \in WsSockets, Web!ClientHandshake(s), UNCHANGED secure
  PROVE  WebInv'
<1> DEFINE c == ws[s].conn
           k == wire[c]
           u == [ws[s] EXCEPT !.done = TRUE]
           k2 == Takes(k, "client")
<1>1. /\ ~ws[s].done /\ ~ws[s].bound /\ (secure => ws[s].asked) /\ c # 0
      /\ k.to[ws[s].end] # <<>> /\ Head(k.to[ws[s].end]).what = "resp"
  BY DEF Web!ClientHandshake, Web!Reads, Web!Here
<1>2. /\ wire \in Seq(Web!Conn) /\ c \in 1..Len(wire) /\ k \in Web!Conn /\ ws[s] \in Web!State
      /\ ws[s].end \in Web!Ends /\ Traffic(k, c) /\ Holds(secure, ws[s], k)
  BY <1>1, OwnEnd
<1>3. /\ ws[s].end = "client" /\ ClientSide(secure, ws[s], k) /\ ws[s].key = c
  BY <1>1, <1>2 DEF Holds, ClientSide
<1>4. /\ u \in Web!State /\ u.conn = c /\ u.end = "client" /\ u.key = c
      /\ u.asked = ws[s].asked /\ u.listener = ws[s].listener /\ u.bound = ws[s].bound
      /\ u.connected = ws[s].connected /\ u.done
  BY <1>1, <1>2, <1>3 DEF Web!State
<1>5. ws' = [ws EXCEPT ![s] = u] /\ backlog' = backlog
  BY <1>2 DEF Web!ClientHandshake, Web!State
<1>6. wire' = [wire EXCEPT ![c] = k2]
  BY <1>1, <1>3, ConsumedIs DEF Web!ClientHandshake
<1> HIDE DEF c, k, u, k2
<1>7. /\ k2 \in Web!Conn /\ k2.open = k.open /\ k2.sent = k.sent
      /\ k2.to["server"] = k.to["server"]
  BY <1>1, <1>2, <1>3, TakesIs DEF k2
<1>8. /\ Traffic(k2, c) /\ Web!Ahead(k2.to["client"]) = 0 /\ k.to["client"] # <<>>
  BY <1>1, <1>2, <1>3, HandshakeUnitTaken DEF k2
<1>9. ClientSide(secure, u, k2) BY <1>1, <1>4, <1>8 DEF ClientSide, Fits
<1>10. ASSUME NEW d \in BOOLEAN, "server" \in k.open, ServerSide(k, d), Pair(secure, ws[s], d, k)
       PROVE  ServerSide(k2, d) /\ Pair(secure, u, d, k2)
  <2>1. d = TRUE BY <1>8, <1>10 DEF ServerSide
  <2> QED BY <2>1, <1>1, <1>4, <1>7, <1>10 DEF ServerSide, Pair, Fits
<1>11. WebOK(secure, [ws EXCEPT ![s] = u], [wire EXCEPT ![c] = k2], backlog)
  <2>1. c = ws[s].conn /\ k = wire[c] BY DEF c, k
  <2> QED BY <2>1, <1>1, <1>3, <1>4, <1>7, <1>8, <1>9, <1>10, ClientStep
<1> QED BY <1>5, <1>6, <1>11 DEF WebInv

LEMMA WebServerHandshake ==
  ASSUME WebInv, NEW s \in WsSockets, Web!ServerHandshake(s), UNCHANGED secure
  PROVE  WebInv'
<1> DEFINE c == ws[s].conn
           k == wire[c]
           resp == [what |-> "resp", key |-> Head(k.to["server"]).key]
           u == [ws[s] EXCEPT !.done = TRUE]
           k1 == Takes(k, "server")
           k2 == Reaches(k1, "server", resp)
<1>1. /\ ~ws[s].done /\ ws[s].bound /\ c # 0
      /\ k.to[ws[s].end] # <<>> /\ Head(k.to[ws[s].end]).what = "req"
  BY DEF Web!ServerHandshake, Web!Reads, Web!Here
<1>2. /\ wire \in Seq(Web!Conn) /\ c \in 1..Len(wire) /\ k \in Web!Conn /\ ws[s] \in Web!State
      /\ ws[s].end \in Web!Ends /\ Traffic(k, c) /\ Holds(secure, ws[s], k)
  BY <1>1, OwnEnd
<1>3. /\ ws[s].end = "server" /\ ServerSide(k, FALSE) /\ "server" \in k.open
  BY <1>1, <1>2, StateFields DEF Holds
<1>4. /\ u \in Web!State /\ u.conn = c /\ u.end = "server"
      /\ u.listener = ws[s].listener /\ u.bound = ws[s].bound
      /\ u.connected = ws[s].connected /\ u.done = TRUE
  BY <1>1, <1>2, <1>3 DEF Web!State
<1>5. ws' = [ws EXCEPT ![s] = u] /\ backlog' = backlog
  BY <1>2 DEF Web!ServerHandshake, Web!State
<1>6. /\ k1 \in Web!Conn /\ k1.open = k.open /\ k1.sent = k.sent /\ k1.got = k.got
      /\ k1.to["client"] = k.to["client"]
  BY <1>1, <1>2, <1>3, TakesIs
<1>7. wire' = [wire EXCEPT ![c] = k2]
  <2> DEFINE w1 == [wire EXCEPT ![c] = k1]
  <2>1. wire' = Web!Written(w1, c, "server", resp)
    BY <1>1, <1>3, ConsumedIs DEF Web!ServerHandshake, Web!Here
  <2>2. w1 \in Seq(Web!Conn) /\ c \in 1..Len(w1) /\ w1[c] = k1
    <3> HIDE DEF c, k1
    <3> QED BY <1>2, <1>6
  <2>3. Web!Written(w1, c, "server", resp) = [w1 EXCEPT ![c] = Reaches(w1[c], "server", resp)]
    <3> HIDE DEF w1, c, resp
    <3> QED BY <2>2, WrittenIs
  <2>4. wire' = [w1 EXCEPT ![c] = k2] BY <2>1, <2>2, <2>3
  <2> HIDE DEF c, k1, k2
  <2> QED BY <2>4, <1>2
<1> HIDE DEF c, k, u, k1, k2
<1>8. /\ Traffic(k1, c) /\ Web!Ahead(k1.to["server"]) = 0 /\ k.to["server"] # <<>>
      /\ Head(k.to["server"]).key = c
  BY <1>1, <1>2, <1>3, HandshakeUnitTaken DEF k1
<1>9. resp \in Web!Unit /\ resp.what = "resp" /\ resp.key = c
  <2>1. c \in 1..MaxConns BY <1>1, <1>2, StateFields, WebAssumption DEF c
  <2> QED BY <2>1, <1>8 DEF Web!Unit
<1> HIDE DEF resp
<1>10. k.to["client"] = <<>> /\ k.sent["server"] = 0 BY <1>3 DEF ServerSide
<1>11. /\ k2 \in Web!Conn /\ k2.open = k.open /\ k2.sent = k.sent /\ k2.got = k.got
       /\ k2.to["server"] = k1.to["server"]
       /\ k2.to["client"] = IF "client" \in k.open THEN <<resp>> ELSE <<>>
  <2>1. "server" \in Web!Ends /\ Web!Other("server") = "client" BY OtherEnd
  <2>2. /\ k2 \in Web!Conn /\ k2.open = k1.open /\ k2.sent = k1.sent /\ k2.got = k1.got
        /\ k2.to["server"] = k1.to["server"]
        /\ k2.to[Web!Other("server")] =
             IF Web!Other("server") \in k1.open THEN Append(k1.to[Web!Other("server")], resp)
             ELSE k1.to[Web!Other("server")]
    BY <2>1, <1>6, <1>9, ReachesIs, Zenon DEF k2
  <2>3. k2.to["client"] = IF "client" \in k1.open THEN Append(k1.to["client"], resp)
                          ELSE k1.to["client"]
    BY <2>1, <2>2, Zenon
  <2>4. Append(<<>>, resp) = <<resp>> OBVIOUS
  <2> QED BY <2>2, <2>3, <2>4, <1>6, <1>10
<1>12. /\ Buffer(k2.to["client"], "client", c, k.got["client"])
       /\ Len(k2.to["client"]) = Web!Ahead(k2.to["client"]) /\ Len(k2.to["client"]) \in Nat
       /\ "client" \in k.open => k2.to["client"] # <<>> /\ Web!Ahead(k2.to["client"]) = 1
  <2>1. CASE "client" \in k.open
    <3>1. k2.to["client"] = <<resp>> BY <2>1, <1>11
    <3>2. Web!Ahead(<<resp>>) = 1 /\ Buffer(<<resp>>, "client", c, k.got["client"])
          /\ Len(<<resp>>) = 1
      BY <1>9, OneUnitBuffer
    <3> QED BY <3>1, <3>2
  <2>2. CASE "client" \notin k.open BY <2>2, <1>11, EmptyBuffer
  <2> QED BY <2>1, <2>2
<1>13. Traffic(k2, c)
  <2>1. Web!Ahead(k1.to["client"]) = 0 /\ Len(k1.to["client"]) = 0 /\ k.got["client"] \in Nat
    <3>1. k1.to["client"] = <<>> BY <1>6, <1>10
    <3>2. Web!Ahead(<<>>) = 0 /\ Len(<<>>) = 0 BY EmptyBuffer
    <3>3. k.got["client"] \in Nat BY <1>2, ConnFields
    <3> QED BY <3>1, <3>2, <3>3
  <2>2. /\ Buffer(k1.to["server"], "server", c, k1.got["server"])
        /\ k1.got["server"] + Len(k1.to["server"]) - Web!Ahead(k1.to["server"]) <= k1.sent["client"]
        /\ k1.open = Web!Ends =>
             /\ k1.got["server"] + Len(k1.to["server"]) - Web!Ahead(k1.to["server"])
                  = k1.sent["client"]
             /\ k1.got["client"] = k1.sent["server"]
        /\ k1.got["client"] <= k1.sent["server"]
    BY <2>1, <1>6, <1>8, TrafficOfEnds
  <2>3. k2.got["client"] + Len(k2.to["client"]) - Web!Ahead(k2.to["client"]) = k.got["client"]
    BY <2>1, <1>11, <1>12
  <2> QED BY <2>2, <2>3, <1>6, <1>11, <1>12, TrafficOfEnds
<1>14. ServerSide(k2, u.done) BY <1>4, <1>8, <1>11 DEF ServerSide, Fits
<1>15. ASSUME NEW v \in Web!State, "client" \in k.open, ClientSide(secure, v, k),
              Pair(secure, v, ws[s].done, k)
       PROVE  ClientSide(secure, v, k2) /\ Pair(secure, v, u.done, k2)
  <2>1. /\ secure => v.asked
        /\ ~v.done /\ v.done = FALSE
    BY <1>1, <1>8, <1>15, StateFields DEF ClientSide, Pair
  <2> QED BY <2>1, <1>4, <1>11, <1>12, <1>15 DEF ClientSide, Pair, Fits
<1>16. WebOK(secure, [ws EXCEPT ![s] = u], [wire EXCEPT ![c] = k2], backlog)
  <2>1. c = ws[s].conn /\ k = wire[c] BY DEF c, k
  <2> QED BY <2>1, <1>1, <1>3, <1>4, <1>11, <1>13, <1>14, <1>15, ServerStep
<1> QED BY <1>5, <1>7, <1>16 DEF WebInv

(* End e of k, open, writes the frame f after what it has sent before. *)
LEMMA FrameSent ==
  ASSUME NEW k \in Web!Conn, NEW c, Traffic(k, c), NEW e \in Web!Ends, e \in k.open,
         k.sent[e] < MaxCalls, NEW o, o = Web!Other(e),
         NEW f \in Web!Unit, f.what = "frame", f.n = k.sent[e] + 1,
         f.masked = (e = "client"), NEW k2, k2 = Sends(Reaches(k, e, f), e)
  PROVE  /\ k2 \in Web!Conn /\ k2.open = k.open /\ Traffic(k2, c)
         /\ k2.to[e] = k.to[e] /\ k2.sent[o] = k.sent[o]
         /\ k.to[o] # <<>> => k2.to[o] # <<>>
         /\ Web!Ahead(k2.to[o]) = Web!Ahead(k.to[o])
<1> DEFINE k1 == Reaches(k, e, f)
<1>0. o \in Web!Ends /\ o # e /\ Web!Other(o) = e /\ \A d \in Web!Ends : d = e \/ d = o
  BY OtherEnd
<1>1. /\ k1 \in Web!Conn /\ k1.open = k.open /\ k1.sent = k.sent /\ k1.got = k.got
      /\ k1.to[e] = k.to[e]
      /\ k1.to[o] = IF o \in k.open THEN Append(k.to[o], f) ELSE k.to[o]
  BY ReachesIs
<1>2. /\ k2 \in Web!Conn /\ k2.open = k1.open /\ k2.to = k1.to /\ k2.got = k1.got
      /\ k2.sent[e] = k1.sent[e] + 1
      /\ \A d \in Web!Ends : d # e => k2.sent[d] = k1.sent[d]
  <2>1. k1.sent[e] < MaxCalls BY <1>1
  <2> HIDE DEF k1
  <2>2. k2 = Sends(k1, e) BY DEF k1
  <2> QED BY <2>1, <2>2, <1>1, SendsIs
<1> HIDE DEF k1
<1>3. /\ k.to[o] \in Seq(Web!Unit) /\ Len(k.to[o]) \in Nat /\ k.got[o] \in Nat
      /\ k.sent[e] \in Nat /\ Web!Ahead(k.to[o]) \in {0, 1}
  <2>1. k.to[o] \in Seq(Web!Unit) BY <1>0, ConnFields
  <2> QED BY <2>1, <1>0, ConnFields, AheadIs
<1>4. /\ Buffer(k.to[o], o, c, k.got[o])
      /\ k.got[o] + Len(k.to[o]) - Web!Ahead(k.to[o]) <= k.sent[e]
      /\ k.open = Web!Ends => k.got[o] + Len(k.to[o]) - Web!Ahead(k.to[o]) = k.sent[e]
  BY <1>0 DEF Traffic
<1>5. /\ Buffer(k2.to[o], o, c, k.got[o]) /\ Web!Ahead(k2.to[o]) = Web!Ahead(k.to[o])
      /\ k.got[o] + Len(k2.to[o]) - Web!Ahead(k2.to[o]) <= k2.sent[e]
      /\ k.open = Web!Ends => k.got[o] + Len(k2.to[o]) - Web!Ahead(k2.to[o]) = k2.sent[e]
      /\ k.to[o] # <<>> => k2.to[o] # <<>>
  <2>1. CASE o \in k.open
    <3> DEFINE q == k.to[o]
               g == k.got[o]
    <3>1. k.open = Web!Ends BY <2>1, <1>0, ConnFields
    <3>2. f.n = g + Len(q) - Web!Ahead(q) + 1 /\ f.masked = (o = "server")
      <4>1. f.n = g + Len(q) - Web!Ahead(q) + 1 BY <3>1, <1>4
      <4>2. (e = "client") <=> (o = "server") BY <1>0
      <4> QED BY <4>1, <4>2
    <3>3. q \in Seq(Web!Unit) /\ g \in Nat /\ Buffer(q, o, c, g) BY <1>3, <1>4
    <3> HIDE DEF q, g
    <3>4. /\ Append(q, f) \in Seq(Web!Unit) /\ Append(q, f) # <<>>
          /\ Len(Append(q, f)) = Len(q) + 1
          /\ Web!Ahead(Append(q, f)) = Web!Ahead(q)
          /\ Buffer(Append(q, f), o, c, g)
      BY <3>2, <3>3, <1>0, FrameAppended, Zenon
    <3>5. k2.to[o] = Append(q, f) /\ k2.sent[e] = k.sent[e] + 1 BY <2>1, <1>1, <1>2 DEF q
    <3>6. /\ Buffer(k2.to[o], o, c, k.got[o]) /\ Web!Ahead(k2.to[o]) = Web!Ahead(k.to[o])
          /\ k2.to[o] # <<>>
      BY <3>4, <3>5, Zenon DEF q, g
    <3>7. g + Len(k2.to[o]) - Web!Ahead(k2.to[o]) = k2.sent[e]
      <4> DEFINE a == Len(q)
                 h == Web!Ahead(q)
                 n == k.sent[e]
      <4>1. a \in Nat /\ h \in {0, 1} /\ n \in Nat /\ g \in Nat BY <1>3 DEF q, g
      <4>2. g + a - h = n BY <3>1, <1>4 DEF q, g
      <4>3. Len(k2.to[o]) = a + 1 /\ Web!Ahead(k2.to[o]) = h BY <3>4, <3>5
      <4>4. k2.sent[e] = n + 1 BY <3>5
      <4> HIDE DEF a, h, n
      <4> QED BY <4>1, <4>2, <4>3, <4>4
    <3>8. k2.sent[e] \in Nat BY <3>5, <1>3
    <3> QED BY <3>6, <3>7, <3>8 DEF g
  <2>2. CASE o \notin k.open
    <3>1. k2.to[o] = k.to[o] /\ k2.sent[e] = k.sent[e] + 1 /\ k.open # Web!Ends
      BY <2>2, <1>0, <1>1, <1>2
    <3>2. k.got[o] + Len(k.to[o]) - Web!Ahead(k.to[o]) \in Int
      <4> DEFINE h == Web!Ahead(k.to[o])
      <4>1. h \in Int BY <1>3
      <4> HIDE DEF h
      <4>2. k.got[o] + Len(k.to[o]) - h \in Int BY <1>3, <4>1
      <4> QED BY <4>2 DEF h
    <3>3. k.got[o] + Len(k2.to[o]) - Web!Ahead(k2.to[o]) <= k2.sent[e]
      <4> DEFINE m == k.got[o] + Len(k.to[o]) - Web!Ahead(k.to[o])
      <4>1. m \in Int /\ m <= k.sent[e] BY <3>2, <1>4
      <4>2. k.got[o] + Len(k2.to[o]) - Web!Ahead(k2.to[o]) = m BY <3>1
      <4> HIDE DEF m
      <4> QED BY <4>1, <4>2, <3>1, <1>3
    <3> QED BY <3>1, <3>3, <1>4
  <2> QED BY <2>1, <2>2
<1>6. Traffic(k2, c)
  <2> SUFFICES ASSUME NEW d \in Web!Ends
               PROVE  LET sofar == k2.got[d] + Len(k2.to[d]) - Web!Ahead(k2.to[d]) IN
                      /\ Buffer(k2.to[d], d, c, k2.got[d])
                      /\ sofar <= k2.sent[Web!Other(d)]
                      /\ k2.open = Web!Ends => sofar = k2.sent[Web!Other(d)]
    BY DEF Traffic
  <2>1. CASE d = o BY <2>1, <1>0, <1>1, <1>2, <1>5
  <2>2. CASE d = e
    <3>1. k2.to[e] = k.to[e] /\ k2.sent[o] = k.sent[o] /\ k2.got = k.got /\ k2.open = k.open
      BY <1>0, <1>1, <1>2
    <3> QED BY <2>2, <3>1 DEF Traffic
  <2> QED BY <2>1, <2>2, <1>0
<1> QED BY <1>0, <1>1, <1>2, <1>5, <1>6

LEMMA SentWire ==
  ASSUME WebInv, NEW s \in WsSockets, ws[s].conn # 0, NEW f,
         wire[ws[s].conn].sent[ws[s].end] < MaxCalls
  PROVE  [Web!Written(wire, ws[s].conn, ws[s].end, f)
            EXCEPT ![ws[s].conn].sent[ws[s].end] = @ + 1]
         = [wire EXCEPT ![ws[s].conn] =
              Sends(Reaches(wire[ws[s].conn], ws[s].end, f), ws[s].end)]
<1> DEFINE c == ws[s].conn
           e == ws[s].end
           k1 == Reaches(wire[c], e, f)
           w1 == [wire EXCEPT ![c] = k1]
<1>1. wire \in Seq(Web!Conn) /\ c \in 1..Len(wire) /\ e \in Web!Ends BY OwnEnd
<1> HIDE DEF c, e
<1>2. Web!Written(wire, c, e, f) = w1 BY <1>1, WrittenIs
<1> HIDE DEF k1
<1>3. [w1 EXCEPT ![c].sent[e] = @ + 1] = [wire EXCEPT ![c] = Sends(k1, e)]
  BY <1>1 DEF Sends
<1>4. [Web!Written(wire, c, e, f) EXCEPT ![c].sent[e] = @ + 1] = [wire EXCEPT ![c] = Sends(k1, e)]
  BY <1>2, <1>3
<1> QED BY <1>4 DEF c, e, k1

LEMMA WebSendFrame ==
  ASSUME WebInv, NEW s \in WsSockets, Web!SendFrame(s), UNCHANGED secure
  PROVE  WebInv'
<1> DEFINE c == ws[s].conn
           e == ws[s].end
           k == wire[c]
           f == [what |-> "frame", n |-> k.sent[e] + 1, masked |-> Web!Masks(s)]
           k2 == Sends(Reaches(k, e, f), e)
<1>1. /\ c # 0 /\ k.sent[e] < MaxCalls /\ ws' = ws /\ backlog' = backlog
      /\ ws[s].done \/ (ws[s].connected /\ (secure => ws[s].asked))
  BY DEF Web!SendFrame, Web!MaySend
<1>2. /\ wire \in Seq(Web!Conn) /\ c \in 1..Len(wire) /\ k \in Web!Conn /\ ws[s] \in Web!State
      /\ e \in Web!Ends /\ Traffic(k, c) /\ Holds(secure, ws[s], k)
  BY <1>1, OwnEnd
<1>3. wire' = [wire EXCEPT ![c] = k2]
  <2>1. wire' = [Web!Written(wire, c, e, f) EXCEPT ![c].sent[e] = @ + 1]
    BY DEF Web!SendFrame
  <2> HIDE DEF f
  <2> QED BY <2>1, <1>1, SentWire
<1>4. Web!Masks(s) = (e = "client")
  BY <1>2, StateFields DEF Web!Masks, Holds
<1>5. f \in Web!Unit /\ f.what = "frame" /\ f.n = k.sent[e] + 1 /\ f.masked = (e = "client")
  <2>0. k.sent[e] \in 0..MaxCalls BY <1>2, ConnFields
  <2>1. k.sent[e] + 1 \in 1..MaxCalls
    <3> DEFINE n == k.sent[e]
    <3>1. n \in 0..MaxCalls /\ n < MaxCalls BY <2>0, <1>1
    <3> HIDE DEF n
    <3>2. n + 1 \in 1..MaxCalls BY <3>1, WebAssumption
    <3> QED BY <3>2 DEF n
  <2> QED BY <2>1, <1>4 DEF Web!Unit
<1> HIDE DEF f, k, c, e
<1>6. ws = [ws EXCEPT ![s] = ws[s]] BY DEF WebInv, WebOK, Shape
<1>7. e \in k.open BY <1>2 DEF Holds, e
<1>8. c = ws[s].conn /\ k = wire[c] /\ e = ws[s].end BY DEF c, k, e
<1>9. WebOK(secure, [ws EXCEPT ![s] = ws[s]], [wire EXCEPT ![c] = k2], backlog)
  <2>1. CASE e = "client"
    <3>0. Web!Other(e) = "server" BY <2>1, OtherEnd
    <3>1. /\ k2 \in Web!Conn /\ k2.open = k.open /\ Traffic(k2, c)
          /\ k2.to["client"] = k.to["client"] /\ k2.sent["server"] = k.sent["server"]
          /\ k.to["server"] # <<>> => k2.to["server"] # <<>>
          /\ Web!Ahead(k2.to["server"]) = Web!Ahead(k.to["server"])
      BY <2>1, <3>0, <1>1, <1>2, <1>5, <1>7, FrameSent
    <3>2. ClientSide(secure, ws[s], k) /\ ws[s].done \in BOOLEAN
      BY <1>2, <1>8, <2>1, StateFields DEF Holds
    <3>3. secure => ws[s].asked BY <3>2, <1>1 DEF ClientSide
    <3> HIDE DEF k2
    <3>4. ClientSide(secure, ws[s], k2) BY <3>1, <3>2, <3>3 DEF ClientSide, Fits
    <3>5. ASSUME NEW d \in BOOLEAN, "server" \in k.open, ServerSide(k, d),
                 Pair(secure, ws[s], d, k)
          PROVE  ServerSide(k2, d) /\ Pair(secure, ws[s], d, k2)
      <4>1. d = FALSE => k.to["server"] # <<>> BY <3>3, <3>5 DEF Pair
      <4>2. Fits(k2.to["server"], d)
        <5>1. CASE k.to["server"] # <<>> BY <5>1, <3>1, <3>5 DEF Fits, ServerSide
        <5>2. CASE k.to["server"] = <<>>
          <6>1. d = TRUE /\ Web!Ahead(k2.to["server"]) = 0 BY <4>1, <5>2, <3>1, EmptyBuffer
          <6> QED BY <6>1 DEF Fits
        <5> QED BY <5>1, <5>2
      <4> QED BY <4>1, <4>2, <3>1, <3>3, <3>5 DEF ServerSide, Pair
    <3>6. ws[s] \in Web!State BY <1>2
    <3> QED BY <2>1, <3>1, <3>4, <3>5, <3>6, <1>1, <1>8, ClientStep
  <2>2. CASE e = "server"
    <3>0. Web!Other(e) = "client" BY <2>2, OtherEnd
    <3>1. /\ k2 \in Web!Conn /\ k2.open = k.open /\ Traffic(k2, c)
          /\ k2.to["server"] = k.to["server"] /\ k2.sent["client"] = k.sent["client"]
          /\ k.to["client"] # <<>> => k2.to["client"] # <<>>
          /\ Web!Ahead(k2.to["client"]) = Web!Ahead(k.to["client"])
      BY <2>2, <3>0, <1>1, <1>2, <1>5, <1>7, FrameSent
    <3>2. ServerSide(k, ws[s].done) /\ ws[s].done = TRUE
      BY <1>1, <1>2, <1>8, <2>2, StateFields DEF Holds
    <3> HIDE DEF k2
    <3>3. ServerSide(k2, ws[s].done) BY <3>1, <3>2 DEF ServerSide, Fits
    <3>4. ASSUME NEW v \in Web!State, "client" \in k.open, ClientSide(secure, v, k),
                 Pair(secure, v, ws[s].done, k)
          PROVE  ClientSide(secure, v, k2) /\ Pair(secure, v, ws[s].done, k2)
      <4>0. v.done \in BOOLEAN BY <3>4, StateFields
      <4>1. (v.done = FALSE => k.to["client"] # <<>>) /\ (secure => v.asked)
        BY <3>2, <3>4 DEF Pair
      <4>2. Fits(k2.to["client"], v.done)
        <5>1. CASE k.to["client"] # <<>> BY <5>1, <3>1, <3>4 DEF Fits, ClientSide
        <5>2. CASE k.to["client"] = <<>>
          <6>1. v.done = TRUE /\ Web!Ahead(k2.to["client"]) = 0
            BY <4>0, <4>1, <5>2, <3>1, EmptyBuffer
          <6> QED BY <6>1 DEF Fits
        <5> QED BY <5>1, <5>2
      <4> QED BY <4>1, <4>2, <3>1, <3>2, <3>4 DEF ClientSide, Pair
    <3>5. ws[s] \in Web!State BY <1>2
    <3> QED BY <2>2, <3>1, <3>3, <3>4, <3>5, <1>1, <1>8, ServerStep
  <2> QED BY <2>1, <2>2, <1>2
<1> QED BY <1>1, <1>3, <1>6, <1>9 DEF WebInv

(* End e of k reads a frame. *)
LEMMA FrameTaken ==
  ASSUME NEW k \in Web!Conn, NEW c, Traffic(k, c), NEW e \in Web!Ends,
         k.to[e] # <<>>, Head(k.to[e]).what = "frame",
         NEW k2, k2 = Gets(Takes(k, e), e, Head(k.to[e]).n)
  PROVE  /\ k2 \in Web!Conn /\ k2.open = k.open /\ Traffic(k2, c) /\ k2.sent = k.sent
         /\ \A d \in Web!Ends : d # e => k2.to[d] = k.to[d]
         /\ Web!Ahead(k2.to[e]) = 0
<1> DEFINE k1 == Takes(k, e)
           q == k.to[e]
           g == k.got[e]
           n == Head(q).n
<1>1. /\ k1 \in Web!Conn /\ k1.open = k.open /\ k1.sent = k.sent /\ k1.got = k.got
      /\ k1.to[e] = Tail(q) /\ \A d \in Web!Ends : d # e => k1.to[d] = k.to[d]
  BY TakesIs
<1>2. /\ q \in Seq(Web!Unit) /\ g \in Nat /\ Len(q) \in Nat
      /\ Buffer(q, e, c, g) /\ q # <<>>
  BY ConnFields DEF Traffic
<1>3. Web!Ahead(q) = 0 BY <1>2 DEF Web!Ahead
<1>4. n \in 0..MaxCalls
  <2>1. Head(q) \in Web!Unit BY <1>2, SeqEnds
  <2> QED BY <2>1, UnitKinds
<1> HIDE DEF k1, q, g
<1>5. /\ Tail(q) \in Seq(Web!Unit) /\ Len(Tail(q)) = Len(q) - 1
      /\ Web!Ahead(Tail(q)) = 0
      /\ Web!Ahead(q) = 1 => Buffer(Tail(q), e, c, g)
      /\ Web!Ahead(q) = 0 => Head(q).n = g + 1 /\ Buffer(Tail(q), e, c, g + 1)
  BY <1>2, UnitTaken, Zenon
<1>6. n = g + 1 /\ Buffer(Tail(q), e, c, n) BY <1>3, <1>5
<1> HIDE DEF n
<1>7. /\ k2 \in Web!Conn /\ k2.open = k1.open /\ k2.to = k1.to /\ k2.sent = k1.sent
      /\ k2.got[e] = n /\ \A d \in Web!Ends : d # e => k2.got[d] = k1.got[d]
  <2>1. k2 = Gets(k1, e, n) BY DEF k1, n, q
  <2> QED BY <2>1, <1>1, <1>4, GetsIs
<1>8. Traffic(k2, c)
  <2> SUFFICES ASSUME NEW d \in Web!Ends
               PROVE  LET sofar == k2.got[d] + Len(k2.to[d]) - Web!Ahead(k2.to[d]) IN
                      /\ Buffer(k2.to[d], d, c, k2.got[d])
                      /\ sofar <= k2.sent[Web!Other(d)]
                      /\ k2.open = Web!Ends => sofar = k2.sent[Web!Other(d)]
    BY DEF Traffic
  <2>1. CASE d = e
    <3>1. k2.got[d] + Len(k2.to[d]) - Web!Ahead(k2.to[d])
            = k.got[d] + Len(k.to[d]) - Web!Ahead(k.to[d])
      <4>1. /\ k2.got[d] = g + 1 /\ Len(k2.to[d]) = Len(q) - 1 /\ Web!Ahead(k2.to[d]) = 0
            /\ k.got[d] = g /\ k.to[d] = q
        BY <2>1, <1>1, <1>5, <1>6, <1>7 DEF g, q
      <4> DEFINE a == Len(q)
      <4>2. a \in Nat /\ g \in Nat BY <1>2
      <4>3. k2.got[d] + Len(k2.to[d]) - Web!Ahead(k2.to[d]) = (g + 1) + (a - 1) - 0
        BY <4>1
      <4>4. k.got[d] + Len(k.to[d]) - Web!Ahead(k.to[d]) = g + a - 0 BY <4>1, <1>3
      <4> HIDE DEF a
      <4> QED BY <4>2, <4>3, <4>4
    <3> QED BY <2>1, <3>1, <1>1, <1>6, <1>7 DEF Traffic
  <2>2. CASE d # e BY <2>2, <1>1, <1>7 DEF Traffic
  <2> QED BY <2>1, <2>2
<1> QED BY <1>1, <1>5, <1>7, <1>8

LEMMA WebRecvFrame ==
  ASSUME WebInv, NEW s \in WsSockets, Web!RecvFrame(s), UNCHANGED secure
  PROVE  WebInv'
<1> DEFINE c == ws[s].conn
           e == ws[s].end
           k == wire[c]
           n == Head(k.to[e]).n
           k1 == Takes(k, e)
           k2 == Gets(k1, e, n)
<1>1. /\ ws[s].done /\ c # 0 /\ k.to[e] # <<>> /\ Head(k.to[e]).what = "frame"
      /\ ws' = ws /\ backlog' = backlog
  BY DEF Web!RecvFrame, Web!Reads, Web!Here
<1>2. /\ wire \in Seq(Web!Conn) /\ c \in 1..Len(wire) /\ k \in Web!Conn /\ ws[s] \in Web!State
      /\ e \in Web!Ends /\ Traffic(k, c) /\ Holds(secure, ws[s], k)
  BY <1>1, OwnEnd
<1>3. wire' = [wire EXCEPT ![c] = k2]
  <2>1. wire' = [Web!Consumed(s) EXCEPT ![c].got[e] = n]
    BY DEF Web!RecvFrame, Web!Here
  <2>2. Web!Consumed(s) = [wire EXCEPT ![c] = k1] BY <1>1, ConsumedIs
  <2> HIDE DEF c, e, n, k1
  <2>3. wire' = [[wire EXCEPT ![c] = k1] EXCEPT ![c].got[e] = n] BY <2>1, <2>2
  <2> QED BY <2>3, <1>2 DEF Gets
<1> HIDE DEF k, c, e
<1>4. ws = [ws EXCEPT ![s] = ws[s]] BY DEF WebInv, WebOK, Shape
<1>5. c = ws[s].conn /\ k = wire[c] /\ e = ws[s].end BY DEF c, k, e
<1>6. /\ k2 \in Web!Conn /\ k2.open = k.open /\ Traffic(k2, c) /\ k2.sent = k.sent
      /\ \A d \in Web!Ends : d # e => k2.to[d] = k.to[d]
      /\ Web!Ahead(k2.to[e]) = 0
  BY <1>1, <1>2, FrameTaken
<1> HIDE DEF k2
<1>7. ws[s].done = TRUE BY <1>1, <1>2, StateFields
<1>8. WebOK(secure, [ws EXCEPT ![s] = ws[s]], [wire EXCEPT ![c] = k2], backlog)
  <2>1. CASE e = "client"
    <3>1. k2.to["server"] = k.to["server"] BY <2>1, <1>6
    <3>2. ClientSide(secure, ws[s], k) BY <1>2, <1>5, <2>1 DEF Holds
    <3>3. ClientSide(secure, ws[s], k2) BY <2>1, <3>1, <3>2, <1>6, <1>7 DEF ClientSide, Fits
    <3>4. ASSUME NEW d \in BOOLEAN, "server" \in k.open, ServerSide(k, d),
                 Pair(secure, ws[s], d, k)
          PROVE  ServerSide(k2, d) /\ Pair(secure, ws[s], d, k2)
      <4>1. d = TRUE BY <3>4, <1>7 DEF Pair
      <4> QED BY <4>1, <3>1, <3>4, <1>7 DEF ServerSide, Pair
    <3>5. ws[s] \in Web!State BY <1>2
    <3> QED BY <2>1, <3>3, <3>4, <3>5, <1>1, <1>5, <1>6, ClientStep
  <2>2. CASE e = "server"
    <3>1. k2.to["client"] = k.to["client"] BY <2>2, <1>6
    <3>2. ServerSide(k2, ws[s].done) BY <2>2, <1>6, <1>7 DEF ServerSide, Fits
    <3>3. ASSUME NEW v \in Web!State, "client" \in k.open, ClientSide(secure, v, k),
                 Pair(secure, v, ws[s].done, k)
          PROVE  ClientSide(secure, v, k2) /\ Pair(secure, v, ws[s].done, k2)
      <4>1. secure => v.asked BY <3>3, <1>7 DEF Pair
      <4> QED BY <4>1, <3>1, <3>3, <1>7 DEF ClientSide, Pair
    <3>4. ws[s] \in Web!State BY <1>2
    <3> QED BY <2>2, <3>2, <3>3, <3>4, <1>1, <1>5, <1>6, ServerStep
  <2> QED BY <2>1, <2>2, <1>2
<1> QED BY <1>1, <1>3, <1>4, <1>8 DEF WebInv

LEMMA WebNext ==
  ASSUME WebInv, Web!Next \/ UNCHANGED webVars
  PROVE  WebInv'
<1>1. CASE UNCHANGED webVars BY <1>1 DEF webVars, WebInv
<1>2. CASE Web!Next
  BY <1>2, WebBind, WebUnbind, WebDisconnect, WebConnect, WebAccept, WebServerHandshake,
     WebWriteRequest, WebClientHandshake, WebSendFrame, WebRecvFrame DEF Web!Next
<1> QED BY <1>1, <1>2

LEMMA WebInvImplies ==
  ASSUME WebInv
  PROVE  Web!TypeOK /\ Web!StreamAligned /\ Web!RolesMatchEnds /\ Web!NothingMissing
<1>0. /\ Shape(ws, wire, backlog) /\ secure \in BOOLEAN
      /\ Len(wire) \in Nat /\ DOMAIN wire = 1..Len(wire)
      /\ \A c \in 1..Len(wire) : wire[c] \in Web!Conn /\ Traffic(wire[c], c)
  BY Places DEF WebInv, WebOK
<1>1. Web!TypeOK
  <2>1. Len(wire) <= MaxConns /\ wire \in Seq(Web!Conn) /\ ws \in [WsSockets -> Web!State]
    BY <1>0 DEF Shape
  <2>2. 1..Len(wire) \subseteq 1..MaxConns BY <2>1, <1>0, WebAssumption
  <2>3. \A s \in WsSockets : backlog[s] \in Seq(1..Len(wire)) BY <1>0, Places
  <2>4. \A s \in WsSockets : backlog[s] \in Seq(1..MaxConns) BY <2>2, <2>3, SeqOfMore
  <2>5. backlog \in [WsSockets -> Seq(1..MaxConns)] BY <2>4, <1>0 DEF Shape
  <2> QED BY <2>1, <2>5, <1>0 DEF Web!TypeOK
<1>2. ASSUME NEW c \in 1..Len(wire), NEW e \in Web!Ends
      PROVE  LET q == wire[c].to[e] IN
             /\ q \in Seq(Web!Unit) /\ Len(q) \in Nat /\ wire[c].got[e] \in Nat
             /\ Web!Ahead(q) \in {0, 1} /\ Web!Ahead(q) <= Len(q)
             /\ Buffer(q, e, c, wire[c].got[e])
  <2>1. wire[c].to[e] \in Seq(Web!Unit) /\ wire[c].got[e] \in Nat BY <1>0, <1>2, ConnFields
  <2>2. Buffer(wire[c].to[e], e, c, wire[c].got[e]) BY <1>0, <1>2 DEF Traffic
  <2> QED BY <2>1, <2>2, AheadIs
<1>3. Web!StreamAligned
  <2> SUFFICES ASSUME NEW s \in WsSockets, ws[s].conn # 0, Web!Here(s) # <<>>
               PROVE  LET u == Head(Web!Here(s)) IN
                      IF ws[s].done THEN u.what = "frame"
                      ELSE IF ws[s].bound THEN u.what = "req"
                      ELSE u.what = "resp" /\ u.key = ws[s].key
    BY DEF Web!StreamAligned
  <2> DEFINE c == ws[s].conn
             e == ws[s].end
             k == wire[c]
             q == k.to[e]
  <2>1. /\ c \in 1..Len(wire) /\ ws[s] \in Web!State /\ e \in Web!Ends
        /\ Holds(secure, ws[s], k) /\ q # <<>>
    BY OwnEnd DEF Web!Here
  <2>2. Buffer(q, e, c, k.got[e]) BY <2>1, <1>2
  <2>3. Fits(q, ws[s].done) /\ (e = "client" => ws[s].key = c)
        /\ (ws[s].bound <=> e = "server")
    BY <2>1 DEF Holds, ClientSide, ServerSide
  <2>4. Web!Here(s) = q BY DEF Web!Here
  <2> HIDE DEF q, c, e, k
  <2>5. CASE ws[s].done
    <3>1. Web!Ahead(q) = 0 BY <2>1, <2>3, <2>5 DEF Fits
    <3> QED BY <3>1, <2>1, <2>4, <2>5 DEF Web!Ahead
  <2>6. CASE ~ws[s].done
    <3>1. Web!Ahead(q) = 1 BY <2>1, <2>3, <2>6 DEF Fits
    <3>2. Head(q).what = (IF e = "server" THEN "req" ELSE "resp") /\ Head(q).key = c
      BY <3>1, <2>2 DEF Buffer
    <3> QED BY <3>2, <2>1, <2>3, <2>4, <2>6
  <2> QED BY <2>5, <2>6
<1>4. Web!RolesMatchEnds
  <2>1. ASSUME NEW s \in WsSockets, ws[s].conn # 0
        PROVE  /\ ws[s].bound = (ws[s].end = "server")
               /\ ws[s].connected = (ws[s].end = "client")
    BY <2>1, OwnEnd, StateFields DEF Holds
  <2>2. ASSUME NEW c \in 1..Len(wire), NEW e \in Web!Ends,
               NEW u \in Web!Range(wire[c].to[e]), u.what = "frame"
        PROVE  u.masked = (e = "server")
    <3> DEFINE q == wire[c].to[e]
               h == Web!Ahead(q)
    <3>1. /\ q \in Seq(Web!Unit) /\ Len(q) \in Nat /\ h \in {0, 1} /\ h <= Len(q)
          /\ Buffer(q, e, c, wire[c].got[e])
      BY <2>2, <1>2
    <3>2. PICK i \in 1..Len(q) : u = q[i] BY <3>1 DEF Web!Range
    <3> HIDE DEF q
    <3>3. i # h
      <4> SUFFICES ASSUME i = h PROVE FALSE OBVIOUS
      <4>1. i = 1 /\ h = 1 BY <3>1, <3>2
      <4>2. q # <<>> /\ Head(q) = q[1] /\ Head(q).what # "frame" BY <4>1, <3>1, SeqEnds DEF Web!Ahead
      <4> QED BY <4>1, <4>2, <3>2, <2>2
    <3>4. i - h \in 1..Len(q) - h /\ h + (i - h) = i
      <4> HIDE DEF h
      <4> QED BY <3>1, <3>2, <3>3
    <3>5. q[h + (i - h)].masked = (e = "server") BY <3>1, <3>4 DEF Buffer
    <3> QED BY <3>2, <3>4, <3>5
  <2> QED BY <2>1, <2>2, <1>0 DEF Web!RolesMatchEnds
<1>5. Web!NothingMissing
  <2> SUFFICES ASSUME NEW c \in 1..Len(wire), NEW e \in Web!Ends
               PROVE  LET q == wire[c].to[e]
                          coming == Len(q) - Web!Ahead(q) IN
                      /\ \A i \in 1 .. coming :
                           /\ q[Web!Ahead(q) + i].what = "frame"
                           /\ q[Web!Ahead(q) + i].n = wire[c].got[e] + i
                      /\ wire[c].open = Web!Ends =>
                           wire[c].got[e] + coming = wire[c].sent[Web!Other(e)]
    BY <1>0 DEF Web!NothingMissing
  <2> DEFINE q == wire[c].to[e]
             h == Web!Ahead(q)
             g == wire[c].got[e]
  <2>1. Len(q) \in Nat /\ h \in {0, 1} /\ g \in Nat /\ Buffer(q, e, c, g) BY <1>2
  <2>2. wire[c].open = Web!Ends => g + Len(q) - h = wire[c].sent[Web!Other(e)]
    BY <1>0 DEF Traffic
  <2>3. g + (Len(q) - h) = g + Len(q) - h
    <3> DEFINE a == Len(q)
    <3> HIDE DEF a, g, h
    <3>1. g + (a - h) = g + a - h BY <2>1 DEF a
    <3> QED BY <3>1 DEF a
  <2>4. \A i \in 1 .. Len(q) - h : q[h + i].what = "frame" /\ q[h + i].n = g + i
    BY <2>1 DEF Buffer
  <2> HIDE DEF q, h, g
  <2>5. wire[c].open = Web!Ends => g + (Len(q) - h) = wire[c].sent[Web!Other(e)]
    BY <2>2, <2>3
  <2> QED BY <2>4, <2>5 DEF q, h, g
<1> QED BY <1>1, <1>3, <1>4, <1>5

LEMMA WebKeepsStream ==
  ASSUME WebInv, Web!Next
  PROVE  \A s \in WsSockets :
           ws[s].conn # 0 /\ ws'[s].conn \notin {0, ws[s].conn} => ~ws'[s].bound
<1> SUFFICES ASSUME NEW s \in WsSockets, ws[s].conn # 0, ws'[s].conn \notin {0, ws[s].conn}
             PROVE  ~ws'[s].bound
  OBVIOUS
<1>0. ws \in [WsSockets -> Web!State] BY DEF WebInv, WebOK, Shape
<1>1. PICK r \in WsSockets :
        \/ Web!Bind(r) \/ Web!Unbind(r) \/ Web!Disconnect(r)
        \/ \E t \in WsSockets : Web!Connect(r, t)
        \/ Web!Accept(r) \/ Web!ServerHandshake(r) \/ Web!WriteRequest(r)
        \/ Web!ClientHandshake(r) \/ Web!SendFrame(r) \/ Web!RecvFrame(r)
  BY DEF Web!Next
<1>2. CASE Web!Bind(r) \/ Web!Unbind(r) \/ Web!Disconnect(r)
  BY <1>0, <1>2 DEF Web!Bind, Web!Unbind, Web!AfterUnbind, Web!Disconnect, Web!Unused
<1>3. ASSUME NEW t \in WsSockets, Web!Connect(r, t) PROVE ~ws'[s].bound
  BY <1>0, <1>3 DEF Web!Connect, Web!Unused
<1>4. CASE Web!Accept(r) BY <1>0, <1>4 DEF Web!Accept, Web!MayAccept, Web!State
<1>5. CASE Web!ServerHandshake(r) BY <1>0, <1>5 DEF Web!ServerHandshake, Web!State
<1>6. CASE Web!WriteRequest(r) BY <1>0, <1>6 DEF Web!WriteRequest, Web!State
<1>7. CASE Web!ClientHandshake(r) BY <1>0, <1>7 DEF Web!ClientHandshake, Web!State
<1>8. CASE Web!SendFrame(r) \/ Web!RecvFrame(r)
  BY <1>0, <1>8 DEF Web!SendFrame, Web!RecvFrame
<1> QED BY <1>1, <1>2, <1>3, <1>4, <1>5, <1>6, <1>7, <1>8

(* WebSocket streams stay in step, for any number of sockets, connections and *)
(* frames: whatever was bound, connected and given up before, what a side     *)
(* reads next is what its flags make it expect, exactly the connecting end    *)
(* masks, frames arrive once and in order, none missing while both ends are   *)
(* open, and a listening socket keeps its stream until it is bound anew       *)
(* (ensure_ws_ready, websocket_server_handshake, websocket_client_handshake,  *)
(* send_ws_frame, recv_ws_frame).                                             *)
THEOREM WebStreamAlwaysSound == AllSpec => WebStreamSound
<1> DEFINE allvars == <<part, optionVars, monitorVars, yvars, webVars, udpVars,
                        normVars, codecVars>>
           Aligned == part = "web" =>
                        /\ Web!TypeOK
                        /\ Web!StreamAligned /\ Web!RolesMatchEnds /\ Web!NothingMissing
           OneStream == \A s \in WsSockets :
                      ws[s].conn # 0 /\ ws'[s].conn \notin {0, ws[s].conn} => ~ws'[s].bound
<1>1. AllInit => WebInv BY WebInit DEF AllInit
<1>2. WebInv /\ [AllNext]_allvars => WebInv' BY WebNext DEF AllNext
<1>3. WebInv => Aligned BY WebInvImplies
<1>4. WebInv /\ [AllNext]_allvars => [OneStream]_Web!wvars
  <2> SUFFICES ASSUME WebInv, [AllNext]_allvars PROVE OneStream \/ UNCHANGED Web!wvars
    OBVIOUS
  <2>1. Web!Next \/ UNCHANGED webVars BY DEF AllNext
  <2>2. CASE Web!Next BY <2>2, WebKeepsStream
  <2>3. CASE UNCHANGED webVars BY <2>3 DEF webVars, Web!wvars
  <2> QED BY <2>1, <2>2, <2>3
<1> QED BY <1>1, <1>2, <1>3, <1>4, PTL DEF AllSpec, WebStreamSound, Web!OneStreamPerBind
=============================================================================
