-------------------------- MODULE SyscallRunProofs --------------------------
(***************************************************************************)
(* What the order attach, maps, perf buffer, poll loop guarantees, for any *)
(* options, tasks, calls, CPUs and rings: first about the perf buffer and  *)
(* its reader, whatever runs around them, then about the whole run.        *)
(***************************************************************************)
EXTENDS SyscallRun, TLAPS

(* What the reader has in hand is in an open ring, and the reader works    *)
(* only while all rings are open; nothing is counted before a ring opens.  *)
ReaderInv ==
  /\ reading.cpu = Closed => reading = Idle
  /\ reading.cpu # Closed =>
       /\ loop = "read"
       /\ reading.done <= reading.upto
       /\ reading.upto <= Len(ring[reading.cpu])
  /\ loop \in {"wait", "read"} => AllOpen
  /\ \A c \in Cpu : ring[c] = Closed /\ loop = "check" =>
       sent[c] = 0 /\ missed[c] = 0 /\ shown[c] = 0

RingInv == RingTypeOK /\ ReaderInv /\ GapsAnnounced

(* A ring is open or closed, and never both.                               *)
LEMMA OpenRings ==
  ASSUME RingTypeOK, NEW c \in Cpu
  PROVE  ring[c] # Closed <=> ring[c] \in Seq(Record)
  BY PerfRingAssumption DEF RingTypeOK, PerfRingAssumption

(* The records that an event adds.                                         *)
LEMMA NewsAreRecords ==
  ASSUME RingTypeOK, NEW c \in Cpu, NEW e \in Event
  PROVE  /\ News(c, e) \in Seq(Record)
         /\ missed[c] = 0 => News(c, e) = << [no |-> sent[c] + 1, lost |-> 0, event |-> e] >>
         /\ missed[c] # 0 =>
              News(c, e) = << [no |-> sent[c], lost |-> missed[c], event |-> Closed],
                              [no |-> sent[c] + 1, lost |-> 0, event |-> e] >>
<1> DEFINE new == [no |-> sent[c] + 1, lost |-> 0, event |-> e]
           gap == [no |-> sent[c], lost |-> missed[c], event |-> Closed]
<1>1. new \in Record /\ gap \in Record
  BY DEF RingTypeOK, Record
<1>2. News(c, e) = IF missed[c] = 0 THEN <<new>> ELSE <<gap, new>>
  BY Zenon DEF News
<1>3. <<new>> \in Seq(Record) /\ <<gap, new>> \in Seq(Record)
  BY <1>1
<1> QED
  BY <1>2, <1>3

(* Two sequences, one after the other.                                     *)
LEMMA Joined ==
  ASSUME NEW S, NEW s \in Seq(S), NEW t \in Seq(S)
  PROVE  /\ s \o t \in Seq(S)
         /\ Len(s \o t) = Len(s) + Len(t)
         /\ \A i \in 1..(Len(s) + Len(t)) :
              (s \o t)[i] = IF i <= Len(s) THEN s[i] ELSE t[i - Len(s)]
  OBVIOUS

(* A sequence without its first elements.                                  *)
LEMMA Dropped ==
  ASSUME NEW S, NEW s \in Seq(S), NEW h \in Nat, h <= Len(s)
  PROVE  /\ Len(SubSeq(s, h + 1, Len(s))) = Len(s) - h
         /\ \A i \in 1..(Len(s) - h) : SubSeq(s, h + 1, Len(s))[i] = s[i + h]
  OBVIOUS

LEMMA NoLineIsRecord == NoLine \in Record
  BY DEF NoLine, Record

(* Initially.                                                              *)
LEMMA RingInvInit == RingInit => RingInv
  BY PerfRingAssumption
     DEF RingInit, RingInv, RingTypeOK, ReaderInv, GapsAnnounced, Gapless, AllOpen, Idle, NoLine,
         Record, PerfRingAssumption
-----------------------------------------------------------------------------
(* Every step keeps the types.                                             *)
LEMMA TypesKept ==
  ASSUME RingInv, [RingNext]_ringVars
  PROVE  RingTypeOK'
<1> USE PerfRingAssumption, NoLineIsRecord DEF PerfRingAssumption, RingInv, RingTypeOK
<1>1. ASSUME NEW c \in Cpu, Open(c) PROVE RingTypeOK'
  BY <1>1 DEF Open, reader
<1>2. ASSUME NEW c \in Cpu, NEW e \in Event, Submit(c, e) PROVE RingTypeOK'
  <2>1. ring[c] \in Seq(Record)
    BY <1>2, OpenRings DEF Submit
  <2>2. News(c, e) \in Seq(Record)
    BY NewsAreRecords
  <2>3. (ring[c] \o News(c, e)) \in Seq(Record)
    BY <2>1, <2>2
  <2>4. UNCHANGED <<loop, batch, reading, shown, signal>> /\ line' = NoLine
    BY <1>2 DEF Submit, reader
  <2>5. sent' \in [Cpu -> Nat]
    BY <1>2 DEF Submit
  <2>6. CASE Len(ring[c]) + Len(News(c, e)) <= Room
    <3>1. /\ ring' = [ring EXCEPT ![c] = @ \o News(c, e)]
          /\ missed' = [missed EXCEPT ![c] = 0]
          /\ ready' = ready \cup {c}
      BY <1>2, <2>6 DEF Submit
    <3> QED
      BY <2>3, <2>4, <2>5, <3>1
  <2>7. CASE ~(Len(ring[c]) + Len(News(c, e)) <= Room)
    <3>1. /\ missed' = [missed EXCEPT ![c] = @ + 1]
          /\ UNCHANGED <<ring, ready>>
      BY <1>2, <2>7 DEF Submit
    <3> QED
      BY <2>4, <2>5, <3>1
  <2> QED
    BY <2>6, <2>7
<1>3. CASE NoOutput
  BY <1>3 DEF NoOutput, rings, reader
<1>4. CASE NotBuilt
  BY <1>4 DEF NotBuilt
<1>5. CASE Check \/ Timeout \/ Wake \/ BatchDone
  BY <1>5 DEF Check, Timeout, Wake, BatchDone, rings
<1>6. ASSUME NEW c \in Cpu, Snapshot(c) PROVE RingTypeOK'
  <2>1. ring[c] \in Seq(Record)
    BY <1>6, OpenRings DEF Snapshot, ReaderInv, AllOpen
  <2> QED
    BY <1>6, <2>1 DEF Snapshot, rings
<1>7. CASE HandleEvent \/ HandleLost
  <2>1. /\ reading.cpu \in Cpu
        /\ ring[reading.cpu] \in Seq(Record)
        /\ reading.done + 1 \in 1..Len(ring[reading.cpu])
    BY <1>7, OpenRings DEF HandleEvent, HandleLost, InBatch, ReaderInv, AllOpen, Idle
  <2>2. Current \in Record
    BY <2>1 DEF Current
  <2>3. line' \in Record /\ UNCHANGED <<rings, loop, batch, signal>>
    BY <1>7, <2>2 DEF HandleEvent, HandleLost
  <2>4. reading' \in [cpu : Cpu \cup {Closed}, upto : Nat, done : Nat]
    <3>1. reading' = [reading EXCEPT !.done = @ + 1]
      BY <1>7 DEF HandleEvent, HandleLost
    <3>2. reading \in [cpu : Cpu \cup {Closed}, upto : Nat, done : Nat] /\ reading.done + 1 \in Nat
      OBVIOUS
    <3>3. reading' = [cpu |-> reading.cpu, upto |-> reading.upto, done |-> reading.done + 1]
      BY <3>1, <3>2
    <3> QED
      BY <3>2, <3>3
  <2>5. Current.lost \in Nat
    BY <2>2 DEF Record
  <2>6. shown' \in [Cpu -> Nat]
    <3>1. \E n \in {1, Current.lost} : shown' = [shown EXCEPT ![reading.cpu] = @ + n]
      BY <1>7 DEF HandleEvent, HandleLost
    <3> QED
      BY <2>1, <2>5, <3>1
  <2> QED
    BY <2>3, <2>4, <2>6 DEF rings
<1>8. CASE Release
  <2>1. /\ reading.cpu \in Cpu
        /\ ring[reading.cpu] \in Seq(Record)
    BY <1>8, OpenRings DEF Release, ReaderInv, AllOpen, Idle
  <2>2. SubSeq(ring[reading.cpu], reading.upto + 1, Len(ring[reading.cpu])) \in Seq(Record)
    BY <2>1
  <2>3. ring' \in [Cpu -> Seq(Record) \cup {Closed}]
    BY <1>8, <2>1, <2>2 DEF Release
  <2> QED
    BY <1>8, <2>3 DEF Release, Idle
<1>9. CASE PollFails \/ Signal
  BY <1>9 DEF PollFails, Signal, rings, reader
<1>11. CASE Close
  BY <1>11 DEF Close, reader
<1>10. CASE UNCHANGED ringVars
  BY <1>10 DEF ringVars, rings, reader
<1> QED
  BY <1>1, <1>2, <1>3, <1>4, <1>5, <1>6, <1>7, <1>8, <1>9, <1>10, <1>11
     DEF RingNext, Read, SubmitNowhere

-----------------------------------------------------------------------------
(* The reader's own invariant.                                             *)
LEMMA ReaderKept ==
  ASSUME RingInv, [RingNext]_ringVars
  PROVE  ReaderInv'
<1> USE PerfRingAssumption DEF PerfRingAssumption, RingInv, ReaderInv, AllOpen
<1>0. RingTypeOK
  OBVIOUS
<1>1. ASSUME NEW c \in Cpu, Open(c) PROVE ReaderInv'
  BY <1>0, <1>1 DEF Open, RingTypeOK, reader
<1>2. ASSUME NEW c \in Cpu, NEW e \in Event, Submit(c, e) PROVE ReaderInv'
  <2> DEFINE longer == ring[c] \o News(c, e)
  <2>1. /\ ring[c] # Closed /\ longer # Closed
        /\ Len(ring[c]) \in Nat /\ Len(longer) \in Nat /\ Len(longer) >= Len(ring[c])
    <3>1. ring[c] # Closed /\ ring[c] \in Seq(Record) /\ News(c, e) \in Seq(Record)
      BY <1>0, <1>2, OpenRings, NewsAreRecords DEF Submit
    <3>2. longer \in Seq(Record) /\ Len(longer) = Len(ring[c]) + Len(News(c, e))
      BY <3>1, Joined
    <3>3. Len(ring[c]) \in Nat /\ Len(News(c, e)) \in Nat /\ Len(longer) \in Nat
      BY <3>1, <3>2
    <3> HIDE DEF longer
    <3> QED
      BY <3>1, <3>2, <3>3
  <2>2. UNCHANGED <<loop, batch, reading, shown>>
    BY <1>2 DEF Submit, reader
  <2>3. ring' = ring \/ ring' = [ring EXCEPT ![c] = longer]
    BY <1>2 DEF Submit
  <2>4. \A k \in Cpu : k # c => sent'[k] = sent[k] /\ missed'[k] = missed[k]
    BY <1>0, <1>2 DEF Submit, RingTypeOK
  <2> HIDE DEF longer
  <2>5. \A k \in Cpu : /\ ring'[k] = Closed <=> ring[k] = Closed
                       /\ k # c => ring'[k] = ring[k]
    BY <1>0, <2>1, <2>3 DEF RingTypeOK
  <2>6. Len(ring'[c]) >= Len(ring[c]) /\ Len(ring'[c]) \in Nat
    BY <1>0, <2>1, <2>3 DEF RingTypeOK
  <2>7. reading.cpu # Closed => reading.upto <= Len(ring'[reading.cpu])
    <3>1. CASE reading.cpu = c
      BY <1>0, <2>1, <2>6, <3>1 DEF RingTypeOK
    <3>2. CASE reading.cpu \in Cpu /\ reading.cpu # c
      BY <1>0, <2>5, <3>2 DEF RingTypeOK
    <3> QED
      BY <1>0, <3>1, <3>2 DEF RingTypeOK
  <2>8. \A k \in Cpu : ring'[k] = Closed /\ loop' = "check" =>
          sent'[k] = 0 /\ missed'[k] = 0 /\ shown'[k] = 0
    BY <2>1, <2>2, <2>4, <2>5
  <2> QED
    BY <2>2, <2>5, <2>7, <2>8
<1>3. CASE NoOutput \/ UNCHANGED ringVars
  BY <1>0, <1>3 DEF NoOutput, ringVars, rings, reader, RingTypeOK
<1>4. CASE NotBuilt \/ Close
  BY <1>0, <1>4 DEF NotBuilt, Close, reader, RingTypeOK
<1>5. CASE Check \/ Timeout
  BY <1>0, <1>5 DEF Check, Timeout, rings, RingTypeOK
<1>10. CASE Wake \/ BatchDone
  BY <1>0, <1>10 DEF Wake, BatchDone, rings, RingTypeOK, Idle
<1>6. ASSUME NEW c \in Cpu, Snapshot(c) PROVE ReaderInv'
  <2>1. Len(ring[c]) \in Nat
    BY <1>0, <1>6, OpenRings DEF Snapshot
  <2> QED
    BY <1>0, <1>6, <2>1 DEF Snapshot, rings, RingTypeOK
<1>7. CASE HandleEvent \/ HandleLost
  <2>1. reading' = [reading EXCEPT !.done = @ + 1] /\ UNCHANGED <<rings, loop, batch>>
    BY <1>7 DEF HandleEvent, HandleLost
  <2> QED
    BY <1>0, <1>7, <2>1 DEF HandleEvent, HandleLost, InBatch, rings, RingTypeOK, Idle
<1>8. CASE Release
  <2>1. ring[reading.cpu] \in Seq(Record)
    BY <1>0, <1>8, OpenRings DEF Release, Idle, RingTypeOK
  <2>2. SubSeq(ring[reading.cpu], reading.upto + 1, Len(ring[reading.cpu])) \in Seq(Record)
    BY <1>0, <2>1 DEF RingTypeOK
  <2> QED
    BY <1>0, <1>8, <2>1, <2>2 DEF Release, Idle, RingTypeOK
<1>9. CASE PollFails \/ Signal
  BY <1>0, <1>9 DEF PollFails, Signal, rings, reader, RingTypeOK
<1> QED
  BY <1>1, <1>2, <1>3, <1>4, <1>5, <1>6, <1>7, <1>8, <1>9, <1>10 DEF RingNext, Read, SubmitNowhere

-----------------------------------------------------------------------------
(* A CPU that a step leaves alone stays without a gap.                     *)
LEMMA Untouched ==
  ASSUME NEW k \in Cpu, Gapless(k), Handled(k)' = Handled(k), ring'[k] = ring[k],
         sent'[k] = sent[k], missed'[k] = missed[k], shown'[k] = shown[k]
  PROVE  Gapless(k)'
  BY DEF Gapless

(* What a callback has seen of an open ring is in the ring.                *)
LEMMA HandledBound ==
  ASSUME RingInv, NEW k \in Cpu, ring[k] # Closed
  PROVE  /\ Handled(k) \in Nat /\ Len(ring[k]) \in Nat /\ Handled(k) <= Len(ring[k])
         /\ \A i \in 1..Len(ring[k]) : ring[k][i] \in Record
<1>1. ring[k] \in Seq(Record)
  BY OpenRings DEF RingInv
<1>2. Len(ring[k]) \in Nat /\ \A i \in 1..Len(ring[k]) : ring[k][i] \in Record
  BY <1>1
<1> QED
  BY <1>2, PerfRingAssumption DEF RingInv, RingTypeOK, ReaderInv, Handled, PerfRingAssumption

(* An event closes up with what the ring has, or is counted.               *)
LEMMA GapsKeptBySubmit ==
  ASSUME RingInv, NEW c \in Cpu, NEW e \in Event, Submit(c, e)
  PROVE  Gapless(c)'
<1> DEFINE h == Handled(c)
           n == Len(ring[c])
           longer == ring[c] \o News(c, e)
           gap == [no |-> sent[c], lost |-> missed[c], event |-> Closed]
           new == [no |-> sent[c] + 1, lost |-> 0, event |-> e]
<1>1. ring[c] # Closed /\ ring[c] \in Seq(Record) /\ News(c, e) \in Seq(Record)
  BY OpenRings, NewsAreRecords DEF Submit, RingInv
<1>2. /\ h \in Nat /\ n \in Nat /\ h <= n
      /\ \A i \in 1..n : ring[c][i].no \in Nat
  BY <1>1, HandledBound DEF Record
<1>3. /\ \A i \in (h + 1)..n :
           First(ring[c][i]) = 1 + (IF i = h + 1 THEN shown[c] ELSE ring[c][i - 1].no)
      /\ sent[c] = missed[c] + (IF n = h THEN shown[c] ELSE ring[c][n].no)
  BY <1>1 DEF RingInv, GapsAnnounced, Gapless
<1>4. Handled(c)' = h /\ shown'[c] = shown[c]
  BY DEF Submit, reader, Handled
<1>5. sent[c] \in Nat /\ missed[c] \in Nat /\ shown[c] \in Nat /\ sent'[c] = sent[c] + 1
  BY DEF RingInv, RingTypeOK, Submit
<1>6. CASE ~(n + Len(News(c, e)) <= Room)
  <2>1. ring' = ring /\ missed'[c] = missed[c] + 1
    BY <1>6 DEF Submit, RingInv, RingTypeOK
  <2>3. (IF n = h THEN shown[c] ELSE ring[c][n].no) \in Nat
    BY <1>2, <1>5
  <2>2. sent'[c] = missed'[c] + (IF n = h THEN shown[c] ELSE ring[c][n].no)
    BY <1>3, <1>5, <2>1, <2>3
  <2> HIDE DEF h, n
  <2> QED
    BY <1>3, <1>4, <2>1, <2>2 DEF Gapless, h, n
<1>7. CASE n + Len(News(c, e)) <= Room
  <2>1. ring'[c] = longer /\ missed'[c] = 0
    BY <1>7 DEF Submit, RingInv, RingTypeOK
  <2>2. /\ Len(longer) = n + Len(News(c, e))
        /\ \A i \in 1..(n + Len(News(c, e))) :
             longer[i] = IF i <= n THEN ring[c][i] ELSE News(c, e)[i - n]
    BY <1>1, Joined
  <2>3. First(new) = sent[c] + 1 /\ First(gap) = IF missed[c] = 0 THEN sent[c] ELSE sent[c] - missed[c] + 1
    BY DEF First
  <2>4. new.no = sent[c] + 1 /\ gap.no = sent[c]
    OBVIOUS
  <2>5. CASE missed[c] = 0
    <3>1. News(c, e) = <<new>> /\ Len(News(c, e)) = 1 /\ News(c, e)[1] = new
      BY <2>5, NewsAreRecords DEF RingInv
    <3>2. Len(longer) = n + 1 /\ longer[n + 1] = new /\ \A i \in 1..n : longer[i] = ring[c][i]
      BY <1>2, <2>2, <3>1
    <3>3. sent[c] = (IF n = h THEN shown[c] ELSE ring[c][n].no)
      BY <1>2, <1>3, <1>5, <2>5
    <3> HIDE DEF h, n, longer, new, gap
    <3>4. ASSUME NEW i \in (h + 1)..(n + 1)
          PROVE  First(longer[i]) = 1 + (IF i = h + 1 THEN shown[c] ELSE longer[i - 1].no)
      <4>1. CASE i = n + 1
        BY <1>2, <1>5, <2>3, <3>2, <3>3, <4>1
      <4>2. CASE i \in (h + 1)..n
        BY <1>2, <1>3, <3>2, <4>2
      <4> QED
        BY <1>2, <4>1, <4>2
    <3>5. sent'[c] = 0 + (IF n + 1 = h THEN shown[c] ELSE longer[n + 1].no)
      BY <1>2, <1>5, <2>4, <3>2
    <3> QED
      BY <1>4, <2>1, <3>2, <3>4, <3>5 DEF Gapless
  <2>6. CASE missed[c] # 0
    <3>1. News(c, e) = <<gap, new>> /\ Len(News(c, e)) = 2 /\ News(c, e)[1] = gap /\ News(c, e)[2] = new
      BY <2>6, NewsAreRecords DEF RingInv
    <3>2. /\ Len(longer) = n + 2 /\ longer[n + 1] = gap /\ longer[n + 2] = new
          /\ \A i \in 1..n : longer[i] = ring[c][i]
      BY <1>2, <2>2, <3>1
    <3>3. sent[c] = missed[c] + (IF n = h THEN shown[c] ELSE ring[c][n].no)
      BY <1>3
    <3> HIDE DEF h, n, longer, new, gap
    <3>4. ASSUME NEW i \in (h + 1)..(n + 2)
          PROVE  First(longer[i]) = 1 + (IF i = h + 1 THEN shown[c] ELSE longer[i - 1].no)
      <4>1. CASE i = n + 1
        <5>1. (IF n = h THEN shown[c] ELSE ring[c][n].no) \in Nat
          BY <1>2, <1>5
        <5>2. longer[i] = gap
          BY <3>2, <4>1
        <5>3. First(gap) = sent[c] - missed[c] + 1
          BY <2>3, <2>6
        <5>4. sent[c] - missed[c] + 1 = 1 + (IF n = h THEN shown[c] ELSE ring[c][n].no)
          BY <1>5, <3>3, <5>1
        <5>5. First(longer[i]) = 1 + (IF n = h THEN shown[c] ELSE ring[c][n].no)
          BY <5>2, <5>3, <5>4
        <5> QED
          BY <1>2, <3>2, <4>1, <5>5
      <4>2. CASE i \in (h + 1)..n
        BY <1>2, <1>3, <3>2, <4>2
      <4>3. CASE i = n + 2
        BY <1>2, <1>5, <2>3, <2>4, <3>2, <4>3
      <4> QED
        BY <1>2, <4>1, <4>2, <4>3
    <3>5. sent'[c] = 0 + (IF n + 2 = h THEN shown[c] ELSE longer[n + 2].no)
      BY <1>2, <1>5, <2>4, <3>2
    <3> QED
      BY <1>4, <2>1, <3>2, <3>4, <3>5 DEF Gapless
  <2> QED
    BY <2>5, <2>6
<1> QED
  BY <1>6, <1>7

(* A callback takes the line that is due.                                  *)
LEMMA GapsKeptByCallback ==
  ASSUME RingInv, HandleEvent \/ HandleLost, NEW c \in Cpu, c = reading.cpu
  PROVE  Gapless(c)'
<1> DEFINE h == Handled(c)
           n == Len(ring[c])
<1>1. ring[c] # Closed /\ h = reading.done /\ h + 1 <= n
  BY PerfRingAssumption
     DEF HandleEvent, HandleLost, InBatch, RingInv, RingTypeOK, ReaderInv, AllOpen, Idle, Handled,
         PerfRingAssumption
<1>2. /\ h \in Nat /\ n \in Nat
      /\ \A i \in 1..n : ring[c][i].no \in Nat /\ ring[c][i].lost \in Nat
  BY <1>1, HandledBound DEF Record
<1>3. /\ \A i \in (h + 1)..n :
           First(ring[c][i]) = 1 + (IF i = h + 1 THEN shown[c] ELSE ring[c][i - 1].no)
      /\ sent[c] = missed[c] + (IF n = h THEN shown[c] ELSE ring[c][n].no)
  BY <1>1 DEF RingInv, GapsAnnounced, Gapless
<1>4. sent[c] \in Nat /\ missed[c] \in Nat /\ shown[c] \in Nat
  BY <1>1 DEF RingInv, RingTypeOK
<1>5. Current = ring[c][h + 1] /\ Current.no \in Nat /\ Current.lost \in Nat
  BY <1>1, <1>2 DEF Current
<1>6. First(Current) = 1 + shown[c]
  <2> HIDE DEF h, n
  <2>1. h + 1 \in (h + 1)..n
    BY <1>1, <1>2
  <2> QED
    BY <1>3, <1>5, <2>1
<1>7. /\ ring'[c] = ring[c] /\ sent'[c] = sent[c] /\ missed'[c] = missed[c]
      /\ reading' = [reading EXCEPT !.done = @ + 1]
  BY DEF HandleEvent, HandleLost, rings
<1>8. shown'[c] = Current.no
  <2>1. shown \in [Cpu -> Nat]
    BY DEF RingInv, RingTypeOK
  <2>2. CASE HandleEvent
    BY <1>1, <1>4, <1>5, <1>6, <2>1, <2>2 DEF HandleEvent, First
  <2>3. CASE HandleLost
    <3>1. Current.lost > 0 /\ shown'[c] = shown[c] + Current.lost
      BY <1>1, <2>1, <2>3 DEF HandleLost
    <3>2. Current.no - Current.lost + 1 = 1 + shown[c]
      BY <1>6, <3>1 DEF First
    <3> QED
      BY <1>4, <1>5, <3>1, <3>2
  <2> QED
    BY <2>2, <2>3
<1>9. Handled(c)' = h + 1 /\ reading'.cpu = c
  BY <1>1, <1>7 DEF Handled, RingInv, RingTypeOK
<1> HIDE DEF h, n
<1>10. ASSUME NEW i \in (h + 2)..n
       PROVE  First(ring[c][i]) = 1 + (IF i = h + 2 THEN shown'[c] ELSE ring[c][i - 1].no)
  BY <1>1, <1>2, <1>3, <1>5, <1>8
<1>11. sent[c] = missed[c] + (IF n = h + 1 THEN shown'[c] ELSE ring[c][n].no)
  BY <1>1, <1>2, <1>3, <1>5, <1>8
<1>12. n = Len(ring[c]) /\ (h + 1) + 1 = h + 2
  BY <1>2 DEF n
<1>13. /\ \A i \in (Handled(c)' + 1)..Len(ring'[c]) :
            First(ring'[c][i]) = 1 + (IF i = Handled(c)' + 1 THEN shown'[c] ELSE ring'[c][i - 1].no)
       /\ sent'[c] = missed'[c] + (IF Len(ring'[c]) = Handled(c)' THEN shown'[c] ELSE ring'[c][Len(ring'[c])].no)
  BY <1>7, <1>9, <1>10, <1>11, <1>12
<1> QED
  BY <1>1, <1>9, <1>13 DEF Gapless

(* Released records are handled ones: the next line is still the next.     *)
LEMMA GapsKeptByRelease ==
  ASSUME RingInv, Release, NEW c \in Cpu, c = reading.cpu
  PROVE  Gapless(c)'
<1> DEFINE h == Handled(c)
           n == Len(ring[c])
<1>1. ring[c] # Closed /\ h = reading.upto
  BY PerfRingAssumption
     DEF Release, RingInv, RingTypeOK, ReaderInv, AllOpen, Idle, Handled, PerfRingAssumption
<1>2. h \in Nat /\ n \in Nat /\ h <= n
  BY <1>1, HandledBound
<1>3. /\ \A i \in (h + 1)..n :
           First(ring[c][i]) = 1 + (IF i = h + 1 THEN shown[c] ELSE ring[c][i - 1].no)
      /\ sent[c] = missed[c] + (IF n = h THEN shown[c] ELSE ring[c][n].no)
  BY <1>1 DEF RingInv, GapsAnnounced, Gapless
<1>4. ring[c] \in Seq(Record)
  BY <1>1, OpenRings DEF RingInv
<1>5. /\ ring'[c] = SubSeq(ring[c], h + 1, n)
      /\ sent'[c] = sent[c] /\ missed'[c] = missed[c] /\ shown'[c] = shown[c]
  BY <1>1 DEF Release, RingInv, RingTypeOK
<1>6. Handled(c)' = 0
  BY <1>1, PerfRingAssumption DEF Release, Idle, Handled, PerfRingAssumption
<1>7. Len(ring'[c]) = n - h /\ \A i \in 1..(n - h) : ring'[c][i] = ring[c][i + h]
  <2> HIDE DEF h
  <2>1. /\ Len(SubSeq(ring[c], h + 1, Len(ring[c]))) = Len(ring[c]) - h
        /\ \A i \in 1..(Len(ring[c]) - h) : SubSeq(ring[c], h + 1, Len(ring[c]))[i] = ring[c][i + h]
    BY <1>2, <1>4, Dropped
  <2> QED
    BY <1>5, <2>1
<1> HIDE DEF h, n
<1>8. ASSUME NEW i \in 1..(n - h)
      PROVE  First(ring'[c][i]) = 1 + (IF i = 1 THEN shown[c] ELSE ring'[c][i - 1].no)
  <2>1. CASE i = 1
    BY <1>2, <1>3, <1>7, <2>1
  <2>2. CASE i # 1
    <3>1. /\ i + h \in (h + 1)..n /\ i + h # h + 1
          /\ i - 1 \in 1..(n - h) /\ (i - 1) + h = (i + h) - 1
      BY <1>2, <2>2
    <3> QED
      BY <1>3, <1>7, <2>2, <3>1
  <2> QED
    BY <2>1, <2>2
<1>9. sent[c] = missed[c] + (IF n - h = 0 THEN shown[c] ELSE ring'[c][n - h].no)
  <2>1. CASE n = h
    BY <1>2, <1>3, <2>1
  <2>2. CASE n # h
    <3>1. n - h \in 1..(n - h) /\ n - h # 0 /\ (n - h) + h = n
      BY <1>2, <2>2
    <3> QED
      BY <1>3, <1>7, <2>2, <3>1
  <2> QED
    BY <2>1, <2>2
<1>10. /\ \A i \in (Handled(c)' + 1)..Len(ring'[c]) :
            First(ring'[c][i]) = 1 + (IF i = Handled(c)' + 1 THEN shown'[c] ELSE ring'[c][i - 1].no)
       /\ sent'[c] = missed'[c] + (IF Len(ring'[c]) = Handled(c)' THEN shown'[c] ELSE ring'[c][Len(ring'[c])].no)
  <2>1. Len(ring'[c]) = n - h /\ Handled(c)' = 0 /\ 0 + 1 = 1 /\ n - h \in Nat
    BY <1>2, <1>6, <1>7
  <2>2. ASSUME NEW i \in 1..(n - h)
        PROVE  First(ring'[c][i]) = 1 + (IF i = 1 THEN shown'[c] ELSE ring'[c][i - 1].no)
    BY <1>5, <1>8
  <2>3. sent'[c] = missed'[c] + (IF n - h = 0 THEN shown'[c] ELSE ring'[c][n - h].no)
    BY <1>5, <1>9
  <2> QED
    BY <2>1, <2>2, <2>3
<1> QED
  BY <1>10 DEF Gapless

-----------------------------------------------------------------------------
(* No step makes a gap that is not announced.                              *)
LEMMA GapsKept ==
  ASSUME RingInv, [RingNext]_ringVars
  PROVE  GapsAnnounced'
<1> SUFFICES ASSUME NEW k \in Cpu, ring'[k] # Closed
             PROVE  Gapless(k)'
  BY DEF GapsAnnounced
<1>0. ring[k] # Closed => Gapless(k)
  BY DEF RingInv, GapsAnnounced
<1>1. ASSUME NEW c \in Cpu, Open(c) PROVE Gapless(k)'
  <2>1. ring' = [ring EXCEPT ![c] = <<>>] /\ UNCHANGED <<sent, missed, loop, reading, shown>>
    BY <1>1 DEF Open, reader
  <2>2. loop = "check" /\ ring[c] = Closed
    BY <1>1 DEF Open
  <2>3. CASE k = c
    <3>1. ring'[k] = <<>> /\ sent'[k] = 0 /\ missed'[k] = 0 /\ shown'[k] = 0
      BY <2>1, <2>2, <2>3 DEF RingInv, RingTypeOK, ReaderInv
    <3>2. Handled(k)' = 0
      BY <2>1, <2>2, PerfRingAssumption DEF RingInv, ReaderInv, Handled, PerfRingAssumption
    <3> QED
      BY <3>1, <3>2 DEF Gapless
  <2>4. CASE k # c
    <3>1. ring'[k] = ring[k]
      BY <2>1, <2>4 DEF RingInv, RingTypeOK
    <3> QED
      BY <1>0, <2>1, <3>1, Untouched DEF Handled
  <2> QED
    BY <2>3, <2>4
<1>2. ASSUME NEW c \in Cpu, NEW e \in Event, Submit(c, e) PROVE Gapless(k)'
  <2>1. CASE k = c
    BY <1>2, <2>1, GapsKeptBySubmit
  <2>2. CASE k # c
    <3>1. ring'[k] = ring[k] /\ sent'[k] = sent[k] /\ missed'[k] = missed[k]
      BY <1>2, <2>2 DEF Submit, RingInv, RingTypeOK
    <3>2. shown' = shown /\ reading' = reading
      BY <1>2 DEF Submit, reader
    <3> QED
      BY <1>0, <3>1, <3>2, Untouched DEF Handled
  <2> QED
    BY <2>1, <2>2
<1>3. CASE NoOutput \/ Check \/ Timeout \/ Wake \/ BatchDone \/ PollFails \/ Signal \/ UNCHANGED ringVars
  <2>1. UNCHANGED <<ring, sent, missed, reading, shown>>
    BY <1>3 DEF NoOutput, Check, Timeout, Wake, BatchDone, PollFails, Signal, ringVars, rings, reader
  <2> QED
    BY <1>0, <2>1, Untouched DEF Handled
<1>4. CASE NotBuilt \/ Close
  BY <1>4 DEF NotBuilt, Close
<1>5. ASSUME NEW c \in Cpu, Snapshot(c) PROVE Gapless(k)'
  <2>1. /\ UNCHANGED <<ring, sent, missed, shown>> /\ reading = Idle
        /\ reading' = [cpu |-> c, upto |-> Len(ring[c]), done |-> 0]
    BY <1>5 DEF Snapshot, rings
  <2>2. Handled(k)' = Handled(k)
    BY <2>1 DEF Handled, Idle
  <2> QED
    BY <1>0, <2>1, <2>2, Untouched
<1>6. CASE HandleEvent \/ HandleLost
  <2>1. k = reading.cpu => Gapless(k)'
    BY <1>6, GapsKeptByCallback
  <2>2. /\ UNCHANGED <<ring, sent, missed>> /\ reading' = [reading EXCEPT !.done = @ + 1]
        /\ \E n \in {1, Current.lost} : shown' = [shown EXCEPT ![reading.cpu] = @ + n]
    BY <1>6 DEF HandleEvent, HandleLost, rings
  <2>3. CASE k # reading.cpu
    <3>1. shown'[k] = shown[k]
      BY <2>1, <2>2, <2>3 DEF RingInv, RingTypeOK
    <3>2. Handled(k)' = Handled(k)
      BY <2>2, <2>3 DEF Handled, RingInv, RingTypeOK
    <3> QED
      BY <1>0, <2>2, <3>1, <3>2, Untouched
  <2> QED
    BY <2>1, <2>3
<1>7. CASE Release
  <2>1. k = reading.cpu => Gapless(k)'
    BY <1>7, GapsKeptByRelease
  <2>2. CASE k # reading.cpu
    <3>1. ring'[k] = ring[k] /\ UNCHANGED <<sent, missed, shown>>
      BY <1>7, <2>1, <2>2 DEF Release, RingInv, RingTypeOK
    <3>2. Handled(k)' = 0 /\ Handled(k) = 0
      BY <1>7, <2>2, PerfRingAssumption DEF Release, Idle, Handled, PerfRingAssumption
    <3> QED
      BY <1>0, <3>1, <3>2, Untouched
  <2> QED
    BY <2>1, <2>2
<1> QED
  BY <1>1, <1>2, <1>3, <1>4, <1>5, <1>6, <1>7 DEF RingNext, Read, SubmitNowhere

-----------------------------------------------------------------------------
LEMMA RingInvariant == RingSpec => []RingInv
<1>1. RingInv /\ [RingNext]_ringVars => RingInv'
  BY TypesKept, ReaderKept, GapsKept DEF RingInv
<1> QED
  BY <1>1, RingInvInit, PTL DEF RingSpec

(* Rings, counters and the reader's position stay what they are declared   *)
(* to be: in particular no callback gets a record from outside a ring.     *)
THEOREM TypeCorrect == RingSpec => []RingTypeOK
<1>1. RingInv => RingTypeOK
  BY DEF RingInv
<1> QED
  BY <1>1, RingInvariant, PTL

(* However many CPUs there are and however small their rings: no event of  *)
(* an open ring is missing from the output without a line before the next  *)
(* one of its CPU that counts it.                                          *)
THEOREM LossesAreAnnounced == RingSpec => []GapsAnnounced
<1>1. RingInv => GapsAnnounced
  BY DEF RingInv
<1> QED
  BY <1>1, RingInvariant, PTL

-----------------------------------------------------------------------------
(* A run is a behaviour of its perf buffer.                                *)
LEMMA RunStepsAreRingSteps == [RunNext]_runVars => [RingNext]_ringVars
<1> SUFFICES ASSUME [RunNext]_runVars PROVE [RingNext]_ringVars
  OBVIOUS
<1>1. CASE \E c \in Cpu : OpenRing(c)
  BY <1>1 DEF OpenRing, RingNext
<1>2. CASE BuildFails \/ CloseRings \/ ReadRings \/ SignalRun
  BY <1>2 DEF BuildFails, CloseRings, ReadRings, SignalRun, RingNext
<1>3. ASSUME NEW c \in Processor, Submits(c)
      PROVE  RingNext
  <2>1. Asked(calls[c]) \in Event /\ c \in Cpu \cup LateCpu
    BY SyscallRunAssumption DEF SyscallRunAssumption, Asked
  <2> QED
    BY <1>3, <2>1 DEF Submits, RingNext
<1>4. CASE NoOutput
  BY <1>4 DEF RingNext
<1>5. CASE UNCHANGED runVars
  BY <1>5 DEF runVars
<1> QED
  BY <1>1, <1>2, <1>3, <1>4, <1>5 DEF RunNext, PollRings, Detach

THEOREM RunImplementsRing == RunSpec => RingSpec
<1>1. RunInit => RingInit
  BY DEF RunInit
<1> QED
  BY <1>1, RunStepsAreRingSteps, PTL DEF RunSpec, RingSpec

(* In a run, too, no loss of an open ring is silent.                       *)
THEOREM RunAnnouncesLosses == RunSpec => []GapsAnnounced
  BY RunImplementsRing, LossesAreAnnounced, PTL
-----------------------------------------------------------------------------
Names == {Writes[i] : i \in 1..17}

TaskType == [tid : Tid, pid : Tid, uid : Uid, comm : Comm]

(* What is not pending is complete; the rings come after the maps.  The    *)
(* entry that a running process has been given stays: a child gets an id   *)
(* that is free.                                                           *)
SetupInv ==
  /\ opts \in Options
  /\ todo \in Seq(Names)
  /\ born \subseteq TaskType
  /\ Lists \cup {"traceAll"} \subseteq DOMAIN maps
  /\ roots \in [Tid -> Tid \cup {NoPid}]
  /\ \A list \in Lists : Pending(list) \/ maps[list] = Final[list]
  /\ Pending("op_list") \/ op_list = Points
  /\ Pending("common_filter") \/ maps["traceAll"] = Final["traceAll"]
  /\ Pending("child_parent_map") \/ seeded = opts.pidWhite
  /\ \A task \in Tasks : task.tid \in seeded => roots[task.tid] = task.tid
  /\ (\E c \in Cpu : ring[c] # Closed) => todo = <<>>
  /\ result = "polling" => attached = Len(AttachNames) /\ todo = <<>>

LEMMA IsSeq ==
  ASSUME NEW S, NEW n \in Nat, NEW s \in [1..n -> S]
  PROVE  s \in Seq(S)
  OBVIOUS

LEMMA WritesIsSeq ==
  /\ Writes \in Seq(Names)
  /\ \A list \in Lists \cup {"op_list", "common_filter", "child_parent_map"} :
       \E i \in 1..Len(Writes) : Writes[i] = list
<1>1. Writes \in Seq(Names) /\ Len(Writes) = 17
  <2>1. Writes \in Seq(Names)
    <3>1. DOMAIN Writes = 1..17
      BY DEF Writes
    <3>2. Writes = [i \in 1..17 |-> Writes[i]]
      BY <3>1 DEF Writes
    <3>3. \A i \in 1..17 : Writes[i] \in Names
      BY DEF Names
    <3>4. Writes \in [1..17 -> Names]
      BY <3>2, <3>3
    <3> QED
      BY <3>4, IsSeq
  <2>2. Len(Writes) = 17
    BY DEF Writes
  <2> QED
    BY <2>1, <2>2
<1>2. ASSUME NEW list \in Lists \cup {"op_list", "common_filter", "child_parent_map"}
      PROVE  \E i \in 1..17 : Writes[i] = list
  BY <1>2 DEF Lists, Writes
<1> QED
  BY <1>1, <1>2

LEMMA SetupInvInit == RunInit => SetupInv
<1> SUFFICES ASSUME RunInit PROVE SetupInv
  OBVIOUS
<1>1. \A w \in Lists \cup {"op_list", "common_filter", "child_parent_map"} : Pending(w)
  BY WritesIsSeq DEF RunInit, Init, Pending
<1>2. Lists \cup {"traceAll"} \subseteq DOMAIN maps
  BY DEF RunInit, Init, EmptyMaps, Lists
<1> QED
  BY <1>1, <1>2, WritesIsSeq, SyscallStartupAssumption
     DEF RunInit, Init, RingInit, SetupInv, SyscallStartupAssumption

(* Only the map at the head is finished by taking it off.                  *)
LEMMA OneFinished ==
  ASSUME NEW s \in Seq(Names), s # <<>>, NEW w, \E i \in 1..Len(s) : s[i] = w
  PROVE  w = Head(s) \/ \E i \in 1..Len(Tail(s)) : Tail(s)[i] = w
<1>1. PICK i \in 1..Len(s) : s[i] = w
  OBVIOUS
<1>2. Len(Tail(s)) = Len(s) - 1 /\ \A j \in 1..(Len(s) - 1) : Tail(s)[j] = s[j + 1]
  OBVIOUS
<1>3. CASE i = 1
  BY <1>1, <1>3
<1>4. CASE i # 1
  <2>1. i - 1 \in 1..(Len(s) - 1) /\ (i - 1) + 1 = i
    BY <1>4
  <2> QED
    BY <1>1, <1>2, <2>1
<1> QED
  BY <1>3, <1>4

(* A call in flight changes nothing but itself.                            *)
LEMMA CallStepFrame ==
  ASSUME NEW c, SysEnter(c)
  PROVE  /\ UNCHANGED <<opts, programs, result, attached, todo, written, machine>>
         /\ fired' = NoCall
         /\ \E call : calls' = [calls EXCEPT ![c] = call]
  BY DEF SysEnter, Enter, TakeCheck, LookUpPoint, LookUpWhite, LookUpBlack, ReadArgs, Goes

(* Steps that write no map keep it, if they open no ring too early.        *)
LEMMA SetupFrame ==
  ASSUME SetupInv, UNCHANGED <<opts, todo, maps, roots, seeded, op_list, born>>,
         (\E c \in Cpu : ring'[c] # Closed) => todo = <<>>,
         result' = "polling" => attached' = Len(AttachNames) /\ todo = <<>>
  PROVE  SetupInv'
<1>1. Final' = Final /\ \A w : Pending(w)' <=> Pending(w)
  BY DEF Final, Pending
<1> QED
  BY <1>1 DEF SetupInv

LEMMA SetupKept ==
  ASSUME SetupInv, [RunNext]_runVars
  PROVE  SetupInv'
<1> USE DEF SetupInv
<1>1. CASE WriteMaps /\ NoOutput
  <2>1. /\ result = "starting" /\ todo # <<>> /\ opts' = opts /\ ring' = ring /\ result' # "polling" /\ born' = born
        /\ attached = Len(AttachNames)
    BY <1>1 DEF WriteMaps, WriteEntry, WriteBlackName, WriteWhiteName, WriteOps, WriteRoot, ListWritten,
                WriteValue, WriteFails, Writing, NoOutput, rings, machine
  <2>2. Final' = Final
    BY <2>1 DEF Final
  <2>3. ~\E c \in Cpu : ring'[c] # Closed
    BY <2>1
  <2>4. ASSUME NEW list \in Lists, WriteEntry(list) PROVE SetupInv'
    <3>1. PICK x \in Final[list] : maps' = [maps EXCEPT ![list] = @ \cup {x}]
      BY <2>4 DEF WriteEntry
    <3>2. Head(todo) = list /\ UNCHANGED <<todo, roots, seeded, op_list>>
      BY <2>4 DEF WriteEntry, Writing
    <3>3. \A w : Pending(w)' <=> Pending(w)
      BY <3>2 DEF Pending
    <3>4. Pending(list)
      BY <2>1, <3>2 DEF Pending
    <3>5. \A l \in Lists \cup {"traceAll"} : l # list => maps'[l] = maps[l]
      BY <3>1
    <3>6. "traceAll" \notin Lists
      BY DEF Lists
    <3> QED
      BY <2>1, <2>2, <2>3, <3>1, <3>2, <3>3, <3>4, <3>5, <3>6
  <2>10. CASE WriteBlackName \/ WriteWhiteName
    <3>1. UNCHANGED <<todo, roots, seeded, op_list>>
      BY <2>10 DEF WriteBlackName, WriteWhiteName
    <3>2. DOMAIN maps' = DOMAIN maps /\ \A l \in Lists \cup {"traceAll"} : maps'[l] = maps[l]
      BY <2>10 DEF WriteBlackName, WriteWhiteName, Lists
    <3>3. \A w : Pending(w)' <=> Pending(w)
      BY <3>1 DEF Pending
    <3> QED
      BY <2>1, <2>2, <2>3, <3>1, <3>2, <3>3
  <2>5. CASE WriteOps
    <3>1. Head(todo) = "op_list" /\ UNCHANGED <<todo, maps, roots, seeded>>
      BY <2>5 DEF WriteOps, Writing
    <3>2. \A w : Pending(w)' <=> Pending(w)
      BY <3>1 DEF Pending
    <3>3. Pending("op_list")
      BY <2>1, <3>1 DEF Pending
    <3> QED
      BY <2>1, <2>2, <2>3, <3>1, <3>2, <3>3
  <2>6. CASE WriteRoot
    <3>1. Head(todo) = "child_parent_map" /\ UNCHANGED <<todo, maps, op_list>>
      BY <2>6 DEF WriteRoot, Writing
    <3>2. \A w : Pending(w)' <=> Pending(w)
      BY <3>1 DEF Pending
    <3>3. Pending("child_parent_map")
      BY <2>1, <3>1 DEF Pending
    <3>4. PICK p \in opts.pidWhite : seeded' = seeded \cup {p} /\ roots' = [roots EXCEPT ![p] = p]
      BY <2>6 DEF WriteRoot
    <3>5. p \in Tid /\ \A task \in Tasks : task.tid \in Tid
      BY SyscallStartupAssumption DEF SyscallStartupAssumption, OptionsType
    <3>6. roots' \in [Tid -> Tid \cup {NoPid}]
      BY <3>4, <3>5
    <3>7. \A task \in Tasks : task.tid \in seeded' => roots'[task.tid] = task.tid
      BY <3>4, <3>5
    <3> QED
      BY <2>1, <2>2, <2>3, <3>1, <3>2, <3>3, <3>6, <3>7
  <2>7. ASSUME NEW list \in Entries, ListWritten(list) PROVE SetupInv'
    <3>1. Head(todo) = list /\ todo' = Tail(todo) /\ UNCHANGED <<maps, roots, seeded, op_list>> /\ Written(list)
      BY <2>7 DEF ListWritten, Writing, written
    <3>2. \A w : Pending(w) => w = list \/ Pending(w)'
      BY <2>1, <3>1, OneFinished DEF Pending
    <3>3. /\ list \in Lists => maps[list] = Final[list]
          /\ list = "op_list" => op_list = Points
          /\ list = "child_parent_map" => seeded = opts.pidWhite
          /\ list # "common_filter"
      BY <3>1 DEF Written, Entries, Lists
    <3>4. todo' \in Seq(Names)
      BY <2>1, <3>1
    <3> QED
      BY <2>1, <2>2, <2>3, <3>1, <3>2, <3>3, <3>4
  <2>8. ASSUME NEW w \in Range(Writes) \ Entries, WriteValue(w) PROVE SetupInv'
    <3>1. Head(todo) = w /\ todo' = Tail(todo) /\ UNCHANGED <<roots, seeded, op_list>>
      BY <2>8 DEF WriteValue, Writing
    <3>2. \A v : Pending(v) => v = w \/ Pending(v)'
      BY <2>1, <3>1, OneFinished DEF Pending
    <3>3. todo' \in Seq(Names)
      BY <2>1, <3>1
    <3>4. maps' = [f \in DOMAIN maps |-> IF f \in Values(w) THEN Final[f] ELSE maps[f]]
      BY <2>8 DEF WriteValue
    <3>5. w \notin Lists /\ w # "op_list" /\ w # "child_parent_map"
      BY DEF Entries
    <3>6. \A l \in Lists : maps'[l] = maps[l] \/ maps'[l] = Final[l]
      BY <3>4
    <3>7. /\ maps'["traceAll"] = maps["traceAll"] \/ maps'["traceAll"] = Final["traceAll"]
          /\ w = "common_filter" => maps'["traceAll"] = Final["traceAll"]
      BY <3>4 DEF Values
    <3> QED
      BY <2>1, <2>2, <2>3, <3>1, <3>2, <3>3, <3>4, <3>5, <3>6, <3>7
  <2>9. CASE WriteFails
    BY <2>1, <2>3, <2>9, SetupFrame DEF WriteFails, written
  <2> QED
    BY <1>1, <2>4, <2>5, <2>6, <2>7, <2>8, <2>9, <2>10 DEF WriteMaps
<1>2. CASE (Attach \/ ProgramNotFound) /\ NoOutput
  BY <1>2, SetupFrame DEF Attach, ProgramNotFound, NoOutput, rings, written, machine
<1>3. ASSUME NEW c \in Cpu, OpenRing(c) PROVE SetupInv'
  BY <1>3, SetupFrame DEF OpenRing, OnlyRing, written, machine
<1>4. CASE BuildFails \/ CloseRings
  BY <1>4, SetupFrame DEF BuildFails, CloseRings, NotBuilt, Close, written, machine
<1>5. CASE PollRings \/ Detach
  BY <1>5, SetupFrame DEF PollRings, Poll, Detach, NoOutput, rings, written, machine
<1>6. CASE ReadRings \/ SignalRun
  <2>1. UNCHANGED <<opts, todo, attached, result, maps, roots, seeded, op_list, born>>
    BY <1>6 DEF ReadRings, SignalRun, OnlyRing, written, machine
  <2>2. result = "polling" \/ ring' = ring
    BY <1>6 DEF ReadRings, SignalRun, Signal, rings
  <2> QED
    BY <2>1, <2>2, SetupFrame
<1>10. ASSUME NEW c \in Processor, SysEnter(c), NoOutput PROVE SetupInv'
  <2>1. UNCHANGED <<opts, todo, attached, result, maps, roots, seeded, op_list, born>>
    BY <1>10, CallStepFrame DEF written, machine
  <2>2. ring' = ring
    BY <1>10 DEF NoOutput, rings
  <2> QED
    BY <2>1, <2>2, SetupFrame
<1>7. ASSUME NEW c \in Processor, Submits(c) PROVE SetupInv'
  <2>1. UNCHANGED <<opts, todo, attached, result, maps, roots, seeded, op_list, born>>
    BY <1>7 DEF Submits, SubmitCall, Goes, written, machine
  <2>2. ring' = ring \/ \E k \in Cpu : ring[k] # Closed
    BY <1>7 DEF Submits, Submit, SubmitNowhere, NoOutput, rings
  <2> QED
    BY <2>1, <2>2, SetupFrame
<1>8. ASSUME NEW parent \in Alive, NEW child \in Children, Fork(parent, child), NoOutput PROVE SetupInv'
  <2>1. UNCHANGED <<opts, todo, attached, result, maps, seeded, op_list, ring>>
    BY <1>8 DEF Fork, NoOutput, rings
  <2>2. child \in Tid /\ parent.tid \in Tid /\ parent \in TaskType
    BY SyscallStartupAssumption DEF SyscallStartupAssumption, Alive, TaskType
  <2>3. roots' = roots \/ roots' = [roots EXCEPT ![child] = parent.tid]
    BY <1>8 DEF Fork
  <2>4. \A task \in Tasks : task.tid # child /\ task.tid \in Tid
    BY <1>8, SyscallStartupAssumption DEF Fork, Alive, SyscallStartupAssumption
  <2>5. /\ roots' \in [Tid -> Tid \cup {NoPid}]
        /\ \A task \in Tasks : roots'[task.tid] = roots[task.tid]
    BY <2>2, <2>3, <2>4
  <2>6. born' \subseteq TaskType
    BY <1>8, <2>2 DEF Fork, TaskType
  <2>7. Final' = Final /\ \A w : Pending(w)' <=> Pending(w)
    BY <2>1 DEF Final, Pending
  <2> QED
    BY <2>1, <2>5, <2>6, <2>7
<1>9. CASE UNCHANGED runVars
  BY <1>9, SetupFrame DEF runVars, vars, written, machine, ringVars, rings
<1> QED
  BY <1>1, <1>2, <1>3, <1>4, <1>5, <1>6, <1>7, <1>8, <1>9, <1>10 DEF RunNext

-----------------------------------------------------------------------------
(* A followed process is listed, and nobody is ever taken off the list.    *)
FollowInv == \A child \in followed : child \in Tid /\ roots[child] # NoPid

LEMMA FollowKept ==
  ASSUME SetupInv, FollowInv, [RunNext]_runVars
  PROVE  FollowInv'
<1>1. CASE UNCHANGED <<followed, roots>>
  BY <1>1 DEF FollowInv
<1>2. CASE WriteMaps
  <2>1. followed' = followed
    BY <1>2 DEF WriteMaps, WriteEntry, WriteBlackName, WriteWhiteName, WriteOps, WriteRoot, ListWritten,
                WriteValue, WriteFails, Writing, machine
  <2>2. roots' = roots \/ WriteRoot
    BY <1>2 DEF WriteMaps, WriteEntry, WriteBlackName, WriteWhiteName, WriteOps, ListWritten, WriteValue,
                WriteFails, written
  <2>3. CASE WriteRoot
    <3>1. PICK p \in opts.pidWhite : roots' = [roots EXCEPT ![p] = p]
      BY <2>3 DEF WriteRoot
    <3>2. p \in Tid /\ p # NoPid
      BY SyscallStartupAssumption, FilteringAssumption
         DEF SyscallStartupAssumption, FilteringAssumption, SetupInv, OptionsType
    <3> QED
      BY <2>1, <3>1, <3>2 DEF FollowInv, SetupInv
  <2> QED
    BY <1>1, <2>1, <2>2, <2>3
<1>3. ASSUME NEW parent \in Alive, NEW child \in Children, Fork(parent, child) PROVE FollowInv'
  <2>1. parent.tid \in Tid /\ child \in Tid
    BY SyscallStartupAssumption DEF SyscallStartupAssumption, Alive, SetupInv, TaskType
  <2>2. parent.tid # NoPid
    BY <2>1, FilteringAssumption DEF FilteringAssumption
  <2>3. roots' = roots \/ roots' = [roots EXCEPT ![child] = parent.tid]
    BY <1>3 DEF Fork
  <2>4. \A p \in Tid : roots[p] # NoPid => roots'[p] # NoPid
    BY <2>1, <2>2, <2>3 DEF SetupInv
  <2>5. CASE followed' = followed
    BY <2>4, <2>5 DEF FollowInv
  <2>6. CASE followed' # followed
    <3>1. /\ followed' = followed \cup {child} /\ result = "polling" /\ parent \in Tasks
          /\ parent.tid = parent.pid /\ parent.pid \in opts.pidWhite
      BY <1>3, <2>6 DEF Fork
    <3>2. todo = <<>> /\ attached = Len(AttachNames)
      BY <3>1 DEF SetupInv
    <3>3. roots[parent.tid] = parent.tid
      BY <3>1, <3>2 DEF SetupInv, Pending
    <3>4. roots' = [roots EXCEPT ![child] = parent.tid]
      BY <1>3, <3>2, <3>3 DEF Fork
    <3>5. roots'[child] # NoPid
      BY <2>1, <2>2, <3>4 DEF SetupInv
    <3> QED
      BY <2>1, <2>4, <3>1, <3>5 DEF FollowInv
  <2> QED
    BY <2>5, <2>6
<1>4. CASE Attach \/ ProgramNotFound \/ PollRings \/ Detach
  BY <1>1, <1>4 DEF Attach, ProgramNotFound, PollRings, Poll, Detach, written, machine
<1>5. CASE (\E c \in Cpu : OpenRing(c)) \/ BuildFails \/ CloseRings \/ ReadRings \/ SignalRun
  BY <1>1, <1>5 DEF OpenRing, BuildFails, CloseRings, ReadRings, SignalRun, OnlyRing, written, machine
<1>6. ASSUME NEW c \in Processor, SysEnter(c) \/ Submits(c) PROVE FollowInv'
  BY <1>1, <1>6, CallStepFrame DEF Submits, SubmitCall, Goes, written, machine
<1>7. CASE UNCHANGED runVars
  BY <1>1, <1>7 DEF runVars, vars, written, machine
<1> QED
  BY <1>2, <1>3, <1>4, <1>5, <1>6, <1>7 DEF RunNext

(* Once run() polls, no child of a process named and running at the start  *)
(* is missed, whatever was forked between the attach and the seeding of    *)
(* child_parent_map, and though other named pids may be forked themselves. *)
THEOREM ChildrenAreFollowed == RunSpec => []ChildrenFollowed
<1>1. RunInit => SetupInv /\ FollowInv
  <2>1. RunInit => FollowInv
    BY DEF RunInit, Init, FollowInv
  <2> QED
    BY <2>1, SetupInvInit
<1>2. SetupInv /\ FollowInv /\ [RunNext]_runVars => (SetupInv /\ FollowInv)'
  BY SetupKept, FollowKept
<1>3. FollowInv => ChildrenFollowed
  BY DEF FollowInv, ChildrenFollowed
<1> QED
  BY <1>1, <1>2, <1>3, PTL DEF RunSpec

-----------------------------------------------------------------------------
(* The writes are done in their order.                                     *)
InOrder ==
  /\ Len(todo) <= 17
  /\ \A i \in 1..Len(todo) : todo[i] = Writes[i + (17 - Len(todo))]

TaskLists == {"uidWhite", "uidBlack", "pidWhite", "pidBlack", "tidWhite", "tidBlack"}
CommonFields == {"filterSet", "uidGroups", "noFilterAllow"}
ThreadFields == {"commWhite", "commBlack"}
TaskFields == TaskLists \cup CommonFields \cup ThreadFields \cup {"threadWhitelist"}
TaskWrites == TaskLists \cup {"base_config", "common_filter", "commBlack", "commWhite"}

(* Before a call has a point, the task filter is complete.                 *)
OrderInv ==
  /\ InOrder
  /\ TaskFields \cup {"enterPoints"} \subseteq DOMAIN maps
  /\ Pending("base_config") \/ maps["threadWhitelist"] = Final["threadWhitelist"]
  /\ \A f \in CommonFields : Pending("common_filter") \/ maps[f] = Final[f]
  /\ Pending("commBlack") => maps["commWhite"] = {}
  /\ Pending("commBlack") \/ maps["commBlack"] = BlackNames \ maps["commWhite"]
  /\ Pending("commWhite") \/ maps["commWhite"] = opts.commWhite
  /\ (\E w \in TaskWrites : Pending(w)) => maps["enterPoints"] = {}

LEMMA WritesDiffer == \A i, j \in 1..17 : Writes[i] = Writes[j] => i = j
  BY DEF Writes

(* What comes before the map being written is written.                     *)
LEMMA EarlierIsWritten ==
  ASSUME todo \in Seq(Names), InOrder, todo # <<>>,
         NEW k \in 1..17, Head(todo) = Writes[k], NEW j \in 1..17, j < k
  PROVE  ~Pending(Writes[j])
<1> DEFINE n == Len(todo)
<1>1. n \in Nat /\ n # 0 /\ todo[1] = Writes[k]
  OBVIOUS
<1>2. n <= 17 /\ \A i \in 1..n : todo[i] = Writes[i + (17 - n)]
  BY DEF InOrder
<1> HIDE DEF n
<1>3. 1 + (17 - n) = k
  <2>1. Writes[1 + (17 - n)] = Writes[k] /\ 1 + (17 - n) \in 1..17
    BY <1>1, <1>2
  <2> QED
    BY <2>1, WritesDiffer
<1>4. ASSUME NEW i \in 1..n, todo[i] = Writes[j] PROVE FALSE
  <2>1. i + (17 - n) \in 1..17 /\ i + (17 - n) > j
    BY <1>1, <1>2, <1>3
  <2>2. Writes[i + (17 - n)] = Writes[j]
    BY <1>2, <1>4
  <2>3. ASSUME NEW e \in 1..17, e > j PROVE Writes[e] # Writes[j]
    <3>1. e # j
      BY <2>3
    <3> QED
      BY <3>1, WritesDiffer
  <2> QED
    BY <2>1, <2>2, <2>3
<1> QED
  BY <1>4 DEF Pending, n

LEMMA PointsComeLast ==
  ASSUME todo \in Seq(Names), InOrder, todo # <<>>, Head(todo) = "enterPoints", NEW w \in TaskWrites
  PROVE  ~Pending(w)
<1>1. Head(todo) = Writes[13]
  BY DEF Writes
<1>2. \E j \in 1..11 : w = Writes[j]
  BY DEF Writes, TaskWrites, TaskLists
<1> QED
  BY <1>1, <1>2, EarlierIsWritten

LEMMA PendingOfTail ==
  ASSUME todo \in Seq(Names), todo # <<>>, todo' = Tail(todo), InOrder
  PROVE  /\ InOrder'
         /\ \A w : Pending(w)' => Pending(w)
<1> DEFINE n == Len(todo)
<1>1. n \in Nat /\ n # 0 /\ Len(todo') = n - 1 /\ \A i \in 1..(n - 1) : todo'[i] = todo[i + 1]
  OBVIOUS
<1>2. n <= 17 /\ \A i \in 1..n : todo[i] = Writes[i + (17 - n)]
  BY DEF InOrder
<1> HIDE DEF n
<1>3. ASSUME NEW i \in 1..(n - 1) PROVE todo'[i] = Writes[i + (17 - (n - 1))]
  <2>1. i + 1 \in 1..n /\ (i + 1) + (17 - n) = i + (17 - (n - 1))
    BY <1>1
  <2> QED
    BY <1>1, <1>2, <2>1
<1>4. InOrder'
  BY <1>1, <1>2, <1>3 DEF InOrder
<1>5. ASSUME NEW w, NEW i \in 1..(n - 1), todo'[i] = w PROVE Pending(w)
  BY <1>1, <1>5 DEF Pending, n
<1> QED
  BY <1>1, <1>4, <1>5 DEF Pending

LEMMA OrderFrame ==
  ASSUME OrderInv, UNCHANGED <<opts, todo, maps>>
  PROVE  OrderInv'
<1>1. Final' = Final /\ \A w : Pending(w)' <=> Pending(w)
  BY DEF Final, Pending
<1>2. BlackNames' = BlackNames
  BY DEF BlackNames
<1> QED
  BY <1>1, <1>2 DEF OrderInv, InOrder

LEMMA OrderKept ==
  ASSUME SetupInv, OrderInv, [RunNext]_runVars
  PROVE  OrderInv'
<1>1. CASE WriteMaps
  <2>1. todo \in Seq(Names) /\ todo # <<>> /\ opts' = opts
    BY <1>1 DEF SetupInv, WriteMaps, WriteEntry, WriteBlackName, WriteWhiteName, WriteOps, WriteRoot,
                ListWritten, WriteValue, WriteFails, Writing
  <2>2. Final' = Final /\ BlackNames' = BlackNames
    BY <2>1 DEF Final, BlackNames
  <2>8. ASSUME maps' # maps, todo' = todo,
               \A f \in DOMAIN maps : f \notin ThreadFields => maps'[f] = maps[f],
               DOMAIN maps' = DOMAIN maps
        PROVE  /\ InOrder' /\ \A w : Pending(w)' <=> Pending(w)
               /\ TaskFields \cup {"enterPoints"} \subseteq DOMAIN maps'
               /\ Pending("base_config")' \/ maps'["threadWhitelist"] = Final'["threadWhitelist"]
               /\ \A f \in CommonFields : Pending("common_filter")' \/ maps'[f] = Final'[f]
               /\ (\E w \in TaskWrites : Pending(w)') => maps'["enterPoints"] = {}
    <3>1. InOrder' /\ \A w : Pending(w)' <=> Pending(w)
      BY <2>8 DEF OrderInv, InOrder, Pending
    <3>2. \A f \in CommonFields \cup {"threadWhitelist", "enterPoints"} : maps'[f] = maps[f]
      BY <2>8 DEF OrderInv, TaskFields, CommonFields, ThreadFields
    <3> QED
      BY <2>2, <2>8, <3>1, <3>2 DEF OrderInv
  <2>9. CASE WriteBlackName
    <3>1. PICK n \in BlackNames : maps' = [maps EXCEPT !.commBlack = @ \cup {n}]
      BY <2>9 DEF WriteBlackName
    <3>2. Head(todo) = "commBlack" /\ todo' = todo
      BY <2>9 DEF WriteBlackName, Writing
    <3>3. Pending("commBlack") /\ Pending("commWhite")
      <4>1. Head(todo) = Writes[10] /\ Writes[11] = "commWhite"
        BY <3>2 DEF Writes
      <4>2. todo[1] = Head(todo) /\ Len(todo) \in Nat /\ Len(todo) # 0
        BY <2>1
      <4>3. Len(todo) <= 17 /\ \A i \in 1..Len(todo) : todo[i] = Writes[i + (17 - Len(todo))]
        BY DEF OrderInv, InOrder
      <4>4. 1 + (17 - Len(todo)) = 10
        <5>1. Writes[1 + (17 - Len(todo))] = Writes[10] /\ 1 + (17 - Len(todo)) \in 1..17
          BY <4>1, <4>2, <4>3
        <5>2. \A e \in 1..17 : Writes[e] = Writes[10] => e = 10
          BY WritesDiffer
        <5> QED
          BY <5>1, <5>2
      <4>5. Len(todo) = 8
        <5> DEFINE len == Len(todo)
        <5>1. len \in Nat /\ 1 + (17 - len) = 10
          BY <4>2, <4>4
        <5> HIDE DEF len
        <5>2. len = 8
          BY <5>1
        <5> QED
          BY <5>2 DEF len
      <4>6. todo[2] = Writes[11]
        BY <4>3, <4>5
      <4> QED
        BY <3>2, <4>1, <4>2, <4>5, <4>6 DEF Pending
    <3>4. maps'["commWhite"] = maps["commWhite"] /\ DOMAIN maps' = DOMAIN maps
      BY <3>1 DEF OrderInv, TaskFields, ThreadFields
    <3>5. \A f \in DOMAIN maps : f \notin ThreadFields => maps'[f] = maps[f]
      BY <3>1 DEF ThreadFields
    <3>6. CASE maps' = maps
      BY <2>1, <3>2, <3>6, OrderFrame
    <3> QED
      BY <2>2, <2>8, <3>2, <3>3, <3>4, <3>5, <3>6 DEF OrderInv
  <2>10. CASE WriteWhiteName
    <3>1. PICK n \in opts.commWhite :
            maps' = [maps EXCEPT !.commWhite = @ \cup {n}, !.commBlack = @ \ {n}]
      BY <2>10 DEF WriteWhiteName
    <3>2. Head(todo) = "commWhite" /\ todo' = todo
      BY <2>10 DEF WriteWhiteName, Writing
    <3>3. Pending("commWhite") /\ ~Pending("commBlack")
      <4>1. Writes[11] = "commWhite" /\ Writes[10] = "commBlack"
        BY DEF Writes
      <4>2. Pending("commWhite")
        BY <2>1, <3>2 DEF Pending
      <4> QED
        BY <2>1, <3>2, <4>1, <4>2, EarlierIsWritten DEF OrderInv
    <3>4. "commWhite" \in DOMAIN maps /\ "commBlack" \in DOMAIN maps
      BY DEF OrderInv, TaskFields, ThreadFields
    <3>5. /\ maps'["commWhite"] = maps["commWhite"] \cup {n}
          /\ maps'["commBlack"] = maps["commBlack"] \ {n}
          /\ DOMAIN maps' = DOMAIN maps
      BY <3>1, <3>4
    <3>6. \A f \in DOMAIN maps : f \notin ThreadFields => maps'[f] = maps[f]
      BY <3>1 DEF ThreadFields
    <3>7. CASE maps' = maps
      BY <2>1, <3>2, <3>7, OrderFrame
    <3>8. maps'["commBlack"] = BlackNames \ maps'["commWhite"]
      BY <3>3, <3>5 DEF OrderInv
    <3> QED
      BY <2>2, <2>8, <3>2, <3>3, <3>5, <3>6, <3>7, <3>8 DEF OrderInv
  <2>3. ASSUME NEW list \in Lists, WriteEntry(list) PROVE OrderInv'
    <3>1. PICK x \in Final[list] : maps' = [maps EXCEPT ![list] = @ \cup {x}]
      BY <2>3 DEF WriteEntry
    <3>2. Head(todo) = list /\ todo' = todo
      BY <2>3 DEF WriteEntry, Writing
    <3>3. InOrder' /\ \A w : Pending(w)' <=> Pending(w)
      BY <3>2 DEF Pending, OrderInv, InOrder
    <3>4. \A f \in DOMAIN maps : f # list => maps'[f] = maps[f]
      BY <3>1
    <3>5. list \notin CommonFields \cup ThreadFields \cup {"threadWhitelist"}
      BY DEF Lists, CommonFields, ThreadFields
    <3>6. (\E w \in TaskWrites : Pending(w)) => maps'["enterPoints"] = {}
      <4>1. CASE list = "enterPoints"
        BY <2>1, <3>2, <4>1, PointsComeLast DEF OrderInv
      <4>2. CASE list # "enterPoints"
        BY <3>4, <4>2 DEF OrderInv
      <4> QED
        BY <4>1, <4>2
    <3>7. DOMAIN maps' = DOMAIN maps
      BY <3>1
    <3>8. \A f \in CommonFields \cup ThreadFields \cup {"threadWhitelist"} : maps'[f] = maps[f]
      BY <3>4, <3>5 DEF OrderInv, TaskFields
    <3>9. "commBlack" \in ThreadFields /\ "commWhite" \in ThreadFields
      BY DEF ThreadFields
    <3> QED
      BY <2>1, <2>2, <3>9, <3>3, <3>6, <3>7, <3>8 DEF OrderInv
  <2>4. CASE WriteOps \/ WriteRoot \/ WriteFails
    BY <2>1, <2>4, OrderFrame DEF WriteOps, WriteRoot, WriteFails, written
  <2>5. ASSUME NEW list \in Entries, ListWritten(list) PROVE OrderInv'
    <3>1. Head(todo) = list /\ todo' = Tail(todo) /\ maps' = maps
      BY <2>5 DEF ListWritten, Writing, written
    <3>2. InOrder' /\ \A w : Pending(w)' => Pending(w)
      BY <2>1, <3>1, PendingOfTail DEF OrderInv
    <3>3. \A w : Pending(w) => w = list \/ Pending(w)'
      BY <2>1, <3>1, OneFinished DEF Pending
    <3>4. list \notin {"base_config", "common_filter"}
      BY DEF Entries, Lists
    <3>5. /\ list = "commBlack" => maps["commBlack"] = BlackNames /\ maps["commWhite"] = {}
          /\ list = "commWhite" => maps["commWhite"] = opts.commWhite
      <4>1. Pending(list)
        BY <2>1, <3>1 DEF Pending
      <4>2. Written(list)
        BY <2>5 DEF ListWritten
      <4>3. Final["commWhite"] = opts.commWhite
        BY DEF Final, MapsOf
      <4> QED
        BY <4>1, <4>2, <4>3 DEF Written, OrderInv
    <3>6. BlackNames = BlackNames \ {}
      OBVIOUS
    <3> QED
      BY <2>1, <2>2, <3>1, <3>2, <3>3, <3>4, <3>5, <3>6 DEF OrderInv
  <2>6. ASSUME NEW w \in Range(Writes) \ Entries, WriteValue(w) PROVE OrderInv'
    <3>1. Head(todo) = w /\ todo' = Tail(todo)
      BY <2>6 DEF WriteValue, Writing
    <3>2. InOrder' /\ \A v : Pending(v)' => Pending(v)
      BY <2>1, <3>1, PendingOfTail DEF OrderInv
    <3>3. \A v : Pending(v) => v = w \/ Pending(v)'
      BY <2>1, <3>1, OneFinished DEF Pending
    <3>4. maps' = [f \in DOMAIN maps |-> IF f \in Values(w) THEN Final[f] ELSE maps[f]]
      BY <2>6 DEF WriteValue
    <3>5. DOMAIN maps' = DOMAIN maps /\ TaskFields \cup {"enterPoints"} \subseteq DOMAIN maps
      BY <3>4 DEF OrderInv
    <3>6. \A f \in TaskFields : maps'[f] = Final[f] \/ maps'[f] = maps[f]
      BY <3>4, <3>5
    <3>7. /\ w = "base_config" => maps'["threadWhitelist"] = Final["threadWhitelist"]
          /\ w = "common_filter" => \A f \in CommonFields : maps'[f] = Final[f]
      BY <3>4, <3>5 DEF Values, CommonFields, TaskFields
    <3>8. maps'["enterPoints"] = maps["enterPoints"]
      BY <3>4, <3>5 DEF Values
    <3>9. /\ Pending("base_config")' \/ maps'["threadWhitelist"] = Final["threadWhitelist"]
          /\ \A f \in CommonFields : Pending("common_filter")' \/ maps'[f] = Final[f]
      BY <3>3, <3>6, <3>7 DEF OrderInv, TaskFields
    <3>10. maps'["commBlack"] = maps["commBlack"] /\ maps'["commWhite"] = maps["commWhite"]
      BY <3>4, <3>5 DEF Values, TaskFields, ThreadFields
    <3>11. w # "commBlack" /\ w # "commWhite"
      BY DEF Entries
    <3> QED
      BY <2>1, <2>2, <3>2, <3>3, <3>5, <3>8, <3>9, <3>10, <3>11 DEF OrderInv
  <2> QED
    BY <1>1, <2>3, <2>4, <2>5, <2>6, <2>9, <2>10 DEF WriteMaps
<1>2. CASE UNCHANGED <<opts, todo, maps>>
  BY <1>2, OrderFrame
<1>3. CASE Attach \/ ProgramNotFound \/ PollRings \/ Detach
  BY <1>2, <1>3 DEF Attach, ProgramNotFound, PollRings, Poll, Detach, written
<1>4. CASE (\E c \in Cpu : OpenRing(c)) \/ BuildFails \/ CloseRings \/ ReadRings \/ SignalRun
  BY <1>2, <1>4 DEF OpenRing, BuildFails, CloseRings, ReadRings, SignalRun, OnlyRing, written
<1>5. ASSUME NEW c \in Processor, SysEnter(c) \/ Submits(c) PROVE OrderInv'
  BY <1>2, <1>5, CallStepFrame DEF Submits, SubmitCall, Goes, written
<1>6. ASSUME NEW parent, NEW child, Fork(parent, child) PROVE OrderInv'
  BY <1>2, <1>6 DEF Fork
<1>7. CASE UNCHANGED runVars
  BY <1>2, <1>7 DEF runVars, vars, written
<1> QED
  BY <1>1, <1>3, <1>4, <1>5, <1>6, <1>7 DEF RunNext

LEMMA OrderInvInit == RunInit => OrderInv
<1> SUFFICES ASSUME RunInit PROVE OrderInv
  OBVIOUS
<1>1. todo = Writes /\ maps = EmptyMaps
  BY DEF RunInit, Init
<1>2. Len(Writes) = 17
  BY DEF Writes
<1>3. InOrder
  BY <1>1, <1>2 DEF InOrder
<1>4. \A i \in {1, 8, 10, 11} : Pending(Writes[i])
  BY <1>1, <1>2 DEF Pending
<1>5. Writes[1] = "base_config" /\ Writes[8] = "common_filter" /\ Writes[10] = "commBlack"
      /\ Writes[11] = "commWhite"
  BY DEF Writes
<1>6. TaskFields \cup {"enterPoints"} \subseteq DOMAIN maps /\ maps["enterPoints"] = {}
      /\ maps["commWhite"] = {}
  BY <1>1 DEF EmptyMaps, TaskFields, TaskLists, CommonFields, ThreadFields
<1> QED
  BY <1>3, <1>4, <1>5, <1>6 DEF OrderInv

-----------------------------------------------------------------------------
(* Before a call is on the whitelist, the filter operations are complete.  *)
FireInv ==
  /\ {"enterPoints", "sysWhite", "traceAll"} \subseteq DOMAIN maps
  /\ maps["enterPoints"] \subseteq Points
  /\ maps["sysWhite"] \subseteq Final["sysWhite"]
  /\ maps["traceAll"] = FALSE \/ maps["traceAll"] = Final["traceAll"]
  /\ Pending("op_list") => maps["sysWhite"] = {}

LEMMA OpsComeFirst ==
  ASSUME todo \in Seq(Names), InOrder, todo # <<>>, Head(todo) = "sysWhite"
  PROVE  ~Pending("op_list")
<1>1. Head(todo) = Writes[16] /\ Writes[15] = "op_list"
  BY DEF Writes
<1> QED
  BY <1>1, EarlierIsWritten

LEMMA FireFrame ==
  ASSUME FireInv, UNCHANGED <<opts, todo, maps>>
  PROVE  FireInv'
<1>1. Final' = Final /\ \A w : Pending(w)' <=> Pending(w)
  BY DEF Final, Pending
<1> QED
  BY <1>1 DEF FireInv

LEMMA FireKept ==
  ASSUME SetupInv, OrderInv, FireInv, [RunNext]_runVars
  PROVE  FireInv'
<1>1. CASE WriteMaps
  <2>1. todo \in Seq(Names) /\ todo # <<>> /\ opts' = opts
    BY <1>1 DEF SetupInv, WriteMaps, WriteEntry, WriteBlackName, WriteWhiteName, WriteOps, WriteRoot,
                ListWritten, WriteValue, WriteFails, Writing
  <2>2. Final' = Final
    BY <2>1 DEF Final
  <2>3. ASSUME NEW list \in Lists, WriteEntry(list) PROVE FireInv'
    <3>1. PICK x \in Final[list] : maps' = [maps EXCEPT ![list] = @ \cup {x}]
      BY <2>3 DEF WriteEntry
    <3>2. Head(todo) = list /\ todo' = todo
      BY <2>3 DEF WriteEntry, Writing
    <3>3. \A w : Pending(w)' <=> Pending(w)
      BY <3>2 DEF Pending
    <3>4. DOMAIN maps' = DOMAIN maps /\ list # "traceAll"
      BY <3>1 DEF Lists
    <3>5. maps'["traceAll"] = maps["traceAll"]
      BY <3>1, <3>4 DEF FireInv
    <3>6. maps'["enterPoints"] \subseteq Points
      <4>1. Final["enterPoints"] = Points
        BY DEF Final, MapsOf
      <4> QED
        BY <3>1, <4>1 DEF FireInv
    <3>7. maps'["sysWhite"] \subseteq Final["sysWhite"]
      BY <3>1 DEF FireInv
    <3>8. Pending("op_list") => maps'["sysWhite"] = {}
      <4>1. CASE list = "sysWhite"
        BY <2>1, <3>2, <4>1, OpsComeFirst DEF OrderInv
      <4>2. CASE list # "sysWhite"
        BY <3>1, <4>2 DEF FireInv
      <4> QED
        BY <4>1, <4>2
    <3> QED
      BY <2>1, <2>2, <3>2, <3>3, <3>4, <3>5, <3>6, <3>7, <3>8 DEF FireInv
  <2>7. CASE WriteBlackName \/ WriteWhiteName
    <3>1. todo' = todo
      BY <2>7 DEF WriteBlackName, WriteWhiteName
    <3>2. /\ DOMAIN maps' = DOMAIN maps
          /\ \A g \in {"enterPoints", "sysWhite", "traceAll"} : maps'[g] = maps[g]
      BY <2>7 DEF WriteBlackName, WriteWhiteName, FireInv
    <3>3. \A w : Pending(w)' <=> Pending(w)
      BY <3>1 DEF Pending
    <3> QED
      BY <2>1, <2>2, <3>1, <3>2, <3>3 DEF FireInv
  <2>4. CASE WriteOps \/ WriteRoot \/ WriteFails
    BY <2>1, <2>4, FireFrame DEF WriteOps, WriteRoot, WriteFails, Writing, written
  <2>5. ASSUME NEW list \in Entries, ListWritten(list) PROVE FireInv'
    <3>1. todo' = Tail(todo) /\ maps' = maps
      BY <2>5 DEF ListWritten, Writing, written
    <3>2. \A w : Pending(w)' => Pending(w)
      BY <2>1, <3>1, PendingOfTail DEF OrderInv
    <3> QED
      BY <2>1, <2>2, <3>1, <3>2 DEF FireInv
  <2>6. ASSUME NEW w \in Range(Writes) \ Entries, WriteValue(w) PROVE FireInv'
    <3>1. todo' = Tail(todo)
      BY <2>6 DEF WriteValue, Writing
    <3>2. \A v : Pending(v)' => Pending(v)
      BY <2>1, <3>1, PendingOfTail DEF OrderInv
    <3>3. maps' = [f \in DOMAIN maps |-> IF f \in Values(w) THEN Final[f] ELSE maps[f]]
      BY <2>6 DEF WriteValue
    <3>4. "enterPoints" \notin Values(w) /\ "sysWhite" \notin Values(w)
      BY DEF Values
    <3>5. /\ DOMAIN maps' = DOMAIN maps
          /\ maps'["enterPoints"] = maps["enterPoints"] /\ maps'["sysWhite"] = maps["sysWhite"]
      BY <3>3, <3>4 DEF FireInv
    <3>6. maps'["traceAll"] = maps["traceAll"] \/ maps'["traceAll"] = Final["traceAll"]
      BY <3>3 DEF FireInv
    <3>7. maps'["traceAll"] = FALSE \/ maps'["traceAll"] = Final["traceAll"]
      BY <3>6 DEF FireInv
    <3> QED
      BY <2>1, <2>2, <3>1, <3>2, <3>5, <3>7 DEF FireInv
  <2> QED
    BY <1>1, <2>3, <2>4, <2>5, <2>6, <2>7 DEF WriteMaps
<1>2. CASE UNCHANGED <<opts, todo, maps>>
  BY <1>2, FireFrame
<1>3. CASE Attach \/ ProgramNotFound \/ PollRings
  BY <1>3, FireFrame DEF Attach, ProgramNotFound, PollRings, Poll, written
<1>4. CASE Detach \/ BuildFails \/ CloseRings
  BY <1>4, FireFrame DEF Detach, BuildFails, CloseRings, written
<1>5. CASE (\E c \in Cpu : OpenRing(c)) \/ ReadRings \/ SignalRun
  BY <1>2, <1>5 DEF OpenRing, ReadRings, SignalRun, OnlyRing, written
<1>6. ASSUME NEW c \in Processor, SysEnter(c) \/ Submits(c) PROVE FireInv'
  BY <1>2, <1>6, CallStepFrame DEF Submits, SubmitCall, Goes, written
<1>7. ASSUME NEW parent, NEW child, Fork(parent, child) PROVE FireInv'
  BY <1>2, <1>7 DEF Fork
<1>8. CASE UNCHANGED runVars
  BY <1>2, <1>8 DEF runVars, vars, written
<1> QED
  BY <1>1, <1>3, <1>4, <1>5, <1>6, <1>7, <1>8 DEF RunNext

LEMMA FireInvInit == RunInit => FireInv
  BY DEF RunInit, Init, FireInv, EmptyMaps

-----------------------------------------------------------------------------
(* What a call in flight has read stays true of the complete maps, if it   *)
(* began when the task filter was complete.                                *)
CallType ==
  [task : TaskType \cup {NoPid}, at : 0..15, no : Sysno \cup {NoPid}, rejected : BOOLEAN,
   since : {"never", "blind", "points", "complete"}]

(* The checks before the k-th do not reject the task.                      *)
Kept(task, k) ==
  /\ k > 1 => task.pid # Self
  /\ k > 2 => /\ task.comm \notin Final["commBlack"]
              /\ Final["threadWhitelist"] => task.comm \in Final["commWhite"]
  /\ k > 3 => task.tid \notin Final["tidBlack"]
  /\ k > 5 => task.pid \notin Final["pidBlack"]
  /\ k > 8 => task.uid \notin Final["uidBlack"]

CallOK(call) ==
  /\ call.task \in TaskType
  /\ call.since # "never"
  /\ call.since = "complete" => todo = <<>>
  /\ call.since # "blind" => \A w \in TaskWrites : ~Pending(w)
  /\ call.since # "blind" /\ call.at <= 10 => Kept(call.task, call.at)
  /\ call.since # "blind" /\ call.at > 10 => Traced(call.task)
  /\ call.at > 11 => call.no \in Points
  /\ call.at > 12 /\ ~opts.traceAll => call.no \in maps["sysWhite"]
  /\ call.at > 13 /\ call.since = "complete" => call.no \notin Final["sysBlack"]
  /\ call.at > 14 /\ (opts.traceAll => call.since = "complete") => ~call.rejected

CallInv ==
  /\ calls \in [Processor -> CallType]
  /\ \A c \in Processor, call \in CallType : calls[c] = call => call = NoCall \/ CallOK(call)

LEMMA NoCallIsCall == NoCall \in CallType /\ NoCall.at = 0
  BY DEF NoCall, CallType

LEMMA CallInvInit == RunInit => CallInv
  BY NoCallIsCall DEF RunInit, Init, CallInv

(* The fork list only grows.                                               *)
LEMMA TracedStays ==
  ASSUME NEW task \in TaskType, opts' = opts, Traced(task),
         \A p \in Tid : roots[p] # NoPid => roots'[p] # NoPid
  PROVE  Traced(task)'
<1>1. Final' = Final
  BY DEF Final
<1>2. task.pid \in Tid
  BY DEF TaskType
<1>3. Rooted[task.pid] # NoPid => Rooted'[task.pid] # NoPid
  BY <1>2 DEF Rooted
<1>4. ShouldTrace(Final, Rooted, task)
  BY DEF Traced
<1>5. ShouldTrace(Final, Rooted', task)
  BY <1>3, <1>4 DEF ShouldTrace
<1> QED
  BY <1>1, <1>5 DEF Traced

LEMMA CallStays ==
  ASSUME NEW call, CallOK(call), opts' = opts, todo = <<>> => todo' = <<>>,
         \A w : Pending(w)' => Pending(w), maps["sysWhite"] \subseteq maps'["sysWhite"],
         \A p \in Tid : roots[p] # NoPid => roots'[p] # NoPid
  PROVE  CallOK(call)'
<1>1. Final' = Final
  BY DEF Final
<1>2. Kept(call.task, call.at) => Kept(call.task, call.at)'
  BY <1>1 DEF Kept
<1>3. Traced(call.task) => Traced(call.task)'
  BY TracedStays DEF CallOK
<1> QED
  BY <1>1, <1>2, <1>3 DEF CallOK

(* Nothing that is written makes less of what a call relies on.            *)
LEMMA MapsGrow ==
  ASSUME SetupInv, OrderInv, FireInv, WriteMaps
  PROVE  /\ opts' = opts /\ calls' = calls /\ todo # <<>>
         /\ \A w : Pending(w)' => Pending(w)
         /\ maps["sysWhite"] \subseteq maps'["sysWhite"]
         /\ \A p \in Tid : roots[p] # NoPid => roots'[p] # NoPid
<1>1. opts' = opts /\ calls' = calls /\ todo # <<>> /\ todo \in Seq(Names)
  BY DEF SetupInv, WriteMaps, WriteEntry, WriteBlackName, WriteWhiteName, WriteOps, WriteRoot,
         ListWritten, WriteValue, WriteFails, Writing
<1>2. todo' = todo \/ todo' = Tail(todo)
  BY DEF WriteMaps, WriteEntry, WriteBlackName, WriteWhiteName, WriteOps, WriteRoot,
         ListWritten, WriteValue, WriteFails
<1>3. \A w : Pending(w)' => Pending(w)
  BY <1>1, <1>2, PendingOfTail DEF OrderInv, Pending
<1>4. maps["sysWhite"] \subseteq maps'["sysWhite"]
  <2>1. ASSUME NEW list \in Lists, WriteEntry(list) PROVE maps["sysWhite"] \subseteq maps'["sysWhite"]
    BY <2>1 DEF WriteEntry, FireInv
  <2>2. CASE WriteBlackName \/ WriteWhiteName
    BY <2>2 DEF WriteBlackName, WriteWhiteName, FireInv
  <2>3. ASSUME NEW w, WriteValue(w) PROVE maps["sysWhite"] \subseteq maps'["sysWhite"]
    <3>1. "sysWhite" \notin Values(w)
      BY DEF Values
    <3> QED
      BY <2>3, <3>1 DEF WriteValue, FireInv
  <2>4. CASE maps' = maps
    BY <2>4
  <2> QED
    BY <2>1, <2>2, <2>3, <2>4 DEF WriteMaps, WriteOps, WriteRoot, ListWritten, WriteFails, written
<1>5. \A p \in Tid : roots[p] # NoPid => roots'[p] # NoPid
  <2>1. CASE roots' = roots
    BY <2>1
  <2>2. CASE WriteRoot
    <3>1. PICK p \in opts.pidWhite : roots' = [roots EXCEPT ![p] = p]
      BY <2>2 DEF WriteRoot
    <3>2. p \in Tid /\ p # NoPid
      BY SyscallStartupAssumption, FilteringAssumption
         DEF SyscallStartupAssumption, FilteringAssumption, SetupInv, OptionsType
    <3> QED
      BY <3>1, <3>2 DEF SetupInv
  <2> QED
    BY <2>1, <2>2 DEF WriteMaps, WriteEntry, WriteBlackName, WriteWhiteName, WriteOps, ListWritten,
                      WriteValue, WriteFails, written
<1> QED
  BY <1>1, <1>3, <1>4, <1>5

(* With no map of the task filter pending, should_trace() reads the        *)
(* complete one.                                                           *)
LEMMA FilterComplete ==
  ASSUME SetupInv, OrderInv, \A w \in TaskWrites : ~Pending(w)
  PROVE  \A f \in TaskFields : maps[f] = Final[f]
<1>1. \A f \in TaskLists : maps[f] = Final[f]
  BY DEF SetupInv, TaskLists, TaskWrites, Lists
<1>2. \A f \in CommonFields \cup {"threadWhitelist"} : maps[f] = Final[f]
  BY DEF OrderInv, TaskWrites
<1>3. maps["commWhite"] = opts.commWhite /\ maps["commBlack"] = BlackNames \ opts.commWhite
  BY DEF OrderInv, TaskWrites
<1>4. Final["commWhite"] = opts.commWhite /\ Final["commBlack"] = BlackNames \ opts.commWhite
  BY DEF Final, MapsOf, ThreadFilterBlack, BlackNames
<1> QED
  BY <1>1, <1>2, <1>3, <1>4 DEF TaskFields, ThreadFields

-----------------------------------------------------------------------------
LEMMA StepNumbers ==
  /\ \A i \in 1..10 : Steps[i] = Checks[i]
  /\ Steps[11] = "point" /\ Steps[12] = "sysWhite" /\ Steps[13] = "sysBlack"
  /\ Steps[14] = "args" /\ Steps[15] = "submit"
  BY DEF Steps, Checks

LEMMA CheckNumbers ==
  /\ Checks[1] = "config" /\ Checks[2] = "names" /\ Checks[3] = "tidBlack" /\ Checks[4] = "tidWhite"
  /\ Checks[5] = "pidBlack" /\ Checks[6] = "pidWhite" /\ Checks[7] = "forks"
  /\ Checks[8] = "uidBlack" /\ Checks[9] = "uidWhite" /\ Checks[10] = "groups"
  /\ Len(Checks) = 10
  BY DEF Checks

(* Where a call in flight is.                                              *)
LEMMA CallAt ==
  ASSUME CallInv, NEW c \in Processor, NEW step, At(c, step)
  PROVE  /\ CallOK(calls[c]) /\ calls[c] \in CallType /\ calls[c].at \in 1..15
         /\ Steps[calls[c].at] = step
  BY NoCallIsCall DEF At, CallInv, CallType

LEMMA CheckAt ==
  ASSUME CallInv, NEW c \in Processor, NEW check \in Range(Checks), At(c, check)
  PROVE  calls[c].at \in 1..10 /\ Checks[calls[c].at] = check
<1>1. PICK k \in 1..10 : check = Checks[k]
  BY CheckNumbers DEF Range, Checks
<1>2. calls[c].at \in 1..15 /\ Steps[calls[c].at] = check
  BY CallAt
<1>3. \A i \in 11..15 : Steps[i] # Checks[k]
  <2>1. Checks[k] \in {"config", "names", "tidBlack", "tidWhite", "pidBlack", "pidWhite",
                       "forks", "uidBlack", "uidWhite", "groups"}
    BY <1>1, CheckNumbers
  <2> QED
    BY <2>1, StepNumbers
<1>4. calls[c].at \in 1..10
  BY <1>1, <1>2, <1>3
<1> QED
  BY <1>2, <1>4, StepNumbers

(* A check that does not reject leaves one reason less to; one that admits *)
(* settles it.                                                             *)
LEMMA CheckKeeps ==
  ASSUME SetupInv, OrderInv, NEW task \in TaskType, NEW k \in 1..10,
         \A w \in TaskWrites : ~Pending(w),
         Kept(task, k), ~Rejects(Checks[k], task)
  PROVE  /\ Admits(Checks[k], task) => Traced(task)
         /\ ~Admits(Checks[k], task) => k < 10 /\ Kept(task, k + 1)
<1>1. \A f \in TaskFields : maps[f] = Final[f]
  BY FilterComplete
<1>2. /\ maps.tidWhite = Final.tidWhite /\ maps.tidBlack = Final.tidBlack
      /\ maps.pidWhite = Final.pidWhite /\ maps.pidBlack = Final.pidBlack
      /\ maps.uidWhite = Final.uidWhite /\ maps.uidBlack = Final.uidBlack
      /\ maps.commWhite = Final.commWhite /\ maps.commBlack = Final.commBlack
      /\ maps.threadWhitelist = Final.threadWhitelist /\ maps.filterSet = Final.filterSet
      /\ maps.uidGroups = Final.uidGroups /\ maps.noFilterAllow = Final.noFilterAllow
  BY <1>1 DEF TaskFields, TaskLists, CommonFields, ThreadFields
<1>3. ~Pending("base_config")
  BY DEF TaskWrites
<1>4. task.pid \in Tid
  BY DEF TaskType
<1>5. roots[task.pid] # NoPid => Rooted[task.pid] # NoPid
  BY <1>4, FilteringAssumption DEF Rooted, FilteringAssumption
<1>6. CASE k = 1
  BY <1>3, <1>6, CheckNumbers DEF Rejects, Admits, Kept
<1>7. CASE k = 2
  BY <1>2, <1>7, CheckNumbers DEF Rejects, Admits, Kept, Traced, ShouldTrace
<1>8. CASE k = 3
  BY <1>2, <1>8, CheckNumbers DEF Rejects, Admits, Kept
<1>9. CASE k = 4
  BY <1>2, <1>9, CheckNumbers DEF Rejects, Admits, Kept, Traced, ShouldTrace
<1>10. CASE k = 5
  BY <1>2, <1>10, CheckNumbers DEF Rejects, Admits, Kept
<1>11. CASE k = 6
  BY <1>2, <1>11, CheckNumbers DEF Rejects, Admits, Kept, Traced, ShouldTrace
<1>12. CASE k = 7
  BY <1>2, <1>5, <1>12, CheckNumbers DEF Rejects, Admits, Kept, Traced, ShouldTrace
<1>13. CASE k = 8
  BY <1>2, <1>13, CheckNumbers DEF Rejects, Admits, Kept
<1>14. CASE k = 9
  BY <1>2, <1>14, CheckNumbers DEF Rejects, Admits, Kept, Traced, ShouldTrace
<1>15. CASE k = 10
  BY <1>2, <1>15, CheckNumbers DEF Rejects, Admits, Kept, Traced, ShouldTrace
<1> QED
  BY <1>6, <1>7, <1>8, <1>9, <1>10, <1>11, <1>12, <1>13, <1>14, <1>15

-----------------------------------------------------------------------------
(* Each step of a call, as the maps are in this moment.                    *)
LEMMA EnterKeeps ==
  ASSUME SetupInv, OrderInv, CallInv, NEW c \in Processor, NEW task \in Alive, Enter(c, task)
  PROVE  \E call \in CallType : calls' = [calls EXCEPT ![c] = call] /\ CallOK(call)
<1> DEFINE call == [task |-> task, at |-> 1, no |-> NoPid, rejected |-> FALSE, since |-> Since]
<1>1. calls' = [calls EXCEPT ![c] = call]
  BY DEF Enter, Goes
<1>2. task \in TaskType
  BY SyscallStartupAssumption DEF SyscallStartupAssumption, Alive, SetupInv, TaskType
<1>3. Since \in {"blind", "points", "complete"}
  BY DEF Since
<1>4. /\ call \in CallType
      /\ call.task = task /\ call.at = 1 /\ call.since = Since
  BY <1>2, <1>3 DEF CallType
<1>6. Since = "complete" => todo = <<>>
  BY DEF Since
<1>7. Since # "blind" => \A w \in TaskWrites : ~Pending(w)
  <2>1. todo = <<>> => \A w : ~Pending(w)
    BY DEF Pending
  <2>2. Since # "blind" => todo = <<>> \/ maps["enterPoints"] # {}
    BY DEF Since
  <2> QED
    BY <2>1, <2>2 DEF OrderInv
<1>8. Kept(task, 1)
  BY DEF Kept
<1> HIDE DEF call
<1>9. CallOK(call)
  BY <1>2, <1>3, <1>4, <1>6, <1>7, <1>8 DEF CallOK
<1> QED
  BY <1>1, <1>4, <1>9

LEMMA CheckStepKeeps ==
  ASSUME SetupInv, OrderInv, CallInv, NEW c \in Processor, NEW check \in Range(Checks), TakeCheck(c, check)
  PROVE  \E call \in CallType : calls' = [calls EXCEPT ![c] = call] /\ (call = NoCall \/ CallOK(call))
<1> DEFINE old == calls[c]
<1>1. At(c, check)
  BY DEF TakeCheck
<1>2. /\ CallOK(old) /\ old \in CallType /\ old.at \in 1..10 /\ check = Checks[old.at]
  BY <1>1, CallAt, CheckAt
<1>3. CASE Rejects(check, old.task)
  BY <1>3, NoCallIsCall DEF TakeCheck, Goes
<1>4. CASE ~Rejects(check, old.task)
  <2>1. old.since # "blind" => /\ Admits(check, old.task) => Traced(old.task)
                               /\ ~Admits(check, old.task) => old.at < 10 /\ Kept(old.task, old.at + 1)
    BY <1>2, <1>4, CheckKeeps DEF CallOK
  <2>2. CASE Admits(check, old.task)
    <3> DEFINE call == [old EXCEPT !.at = 11]
    <3>1. calls' = [calls EXCEPT ![c] = call]
      BY <1>4, <2>2, CheckNumbers DEF TakeCheck, Goes
    <3>2. /\ call \in CallType /\ call.at = 11
          /\ call.task = old.task /\ call.since = old.since
      BY <1>2 DEF CallType
    <3> HIDE DEF call
    <3>3. CallOK(call)
      BY <1>2, <2>1, <2>2, <3>2 DEF CallOK
    <3> QED
      BY <3>1, <3>2, <3>3
  <2>3. CASE ~Admits(check, old.task)
    <3> DEFINE call == Passes(c)
    <3>1. calls' = [calls EXCEPT ![c] = call]
      BY <1>4, <2>3 DEF TakeCheck, Goes
    <3>2. /\ call \in CallType /\ call.at = old.at + 1
          /\ call.task = old.task /\ call.since = old.since
      BY <1>2 DEF CallType, Passes
    <3> HIDE DEF call
    <3>3. old.at # 10
      BY <1>2, <2>3, CheckNumbers DEF Admits
    <3>4. call.at <= 10
      BY <1>2, <3>2, <3>3
    <3>6. call.since # "blind" => Kept(call.task, call.at)
      BY <2>1, <2>3, <3>2
    <3>5. CallOK(call)
      BY <1>2, <3>2, <3>4, <3>6 DEF CallOK
    <3> QED
      BY <3>1, <3>2, <3>5
  <2> QED
    BY <2>2, <2>3
<1> QED
  BY <1>3, <1>4

LEMMA NextStep ==
  ASSUME NEW c, calls[c] \in CallType, calls[c].at < 15
  PROVE  /\ Passes(c) \in CallType /\ Passes(c).at = calls[c].at + 1
         /\ Passes(c).task = calls[c].task /\ Passes(c).since = calls[c].since
         /\ Passes(c).no = calls[c].no
  BY DEF CallType, Passes

(* The whitelist of system calls is written after op_list.                 *)
LEMMA WhiteMeansOps ==
  ASSUME SetupInv, FireInv, maps["sysWhite"] # {}
  PROVE  op_list = Points
  BY DEF SetupInv, FireInv

LEMMA LookUpsKeep ==
  ASSUME SetupInv, FireInv, CallInv, NEW c \in Processor,
         \/ \E s \in Sysno : LookUpPoint(c, s)
         \/ LookUpWhite(c) \/ LookUpBlack(c)
         \/ \E rejected \in BOOLEAN : ReadArgs(c, rejected)
  PROVE  \E call \in CallType : calls' = [calls EXCEPT ![c] = call] /\ (call = NoCall \/ CallOK(call))
<1> DEFINE old == calls[c]
<1>1. CASE calls' = [calls EXCEPT ![c] = NoCall]
  BY <1>1, NoCallIsCall
<1>2. ASSUME NEW s \in Sysno, LookUpPoint(c, s), s \in maps.enterPoints
      PROVE  \E call \in CallType : calls' = [calls EXCEPT ![c] = call] /\ CallOK(call)
  <2> DEFINE call == [Passes(c) EXCEPT !.no = s]
  <2>1. CallOK(old) /\ old \in CallType /\ old.at = 11 /\ calls' = [calls EXCEPT ![c] = call]
    <3>1. At(c, "point") /\ calls' = [calls EXCEPT ![c] = call]
      BY <1>2 DEF LookUpPoint, Goes
    <3>2. \A i \in 1..15 : Steps[i] = "point" => i = 11
      BY StepNumbers, CheckNumbers
    <3> QED
      BY <3>1, <3>2, CallAt
  <2>2. /\ call \in CallType /\ call.at = 12 /\ call.no = s
        /\ call.task = old.task /\ call.since = old.since
    BY <2>1, NextStep DEF CallType
  <2> HIDE DEF call
  <2>3. s \in Points
    BY <1>2 DEF FireInv
  <2>4. CallOK(call)
    BY <2>1, <2>2, <2>3 DEF CallOK
  <2> QED
    BY <2>1, <2>2, <2>4
<1>3. ASSUME LookUpWhite(c), maps.filterSet /\ (maps.traceAll \/ old.no \in maps.sysWhite)
      PROVE  \E call \in CallType : calls' = [calls EXCEPT ![c] = call] /\ CallOK(call)
  <2> DEFINE call == Passes(c)
  <2>1. CallOK(old) /\ old \in CallType /\ old.at = 12 /\ calls' = [calls EXCEPT ![c] = call]
    <3>1. At(c, "sysWhite") /\ calls' = [calls EXCEPT ![c] = call]
      BY <1>3 DEF LookUpWhite, Goes
    <3>2. \A i \in 1..15 : Steps[i] = "sysWhite" => i = 12
      BY StepNumbers, CheckNumbers
    <3> QED
      BY <3>1, <3>2, CallAt
  <2>2. /\ call \in CallType /\ call.at = 13 /\ call.no = old.no
        /\ call.task = old.task /\ call.since = old.since
    BY <2>1 DEF CallType, Passes
  <2> HIDE DEF call
  <2>3. ~opts.traceAll => old.no \in maps["sysWhite"]
    BY <1>3 DEF FireInv, Final, MapsOf
  <2>4. CallOK(call)
    BY <2>1, <2>2, <2>3 DEF CallOK
  <2> QED
    BY <2>1, <2>2, <2>4
<1>4. ASSUME LookUpBlack(c), old.no \notin maps.sysBlack
      PROVE  \E call \in CallType : calls' = [calls EXCEPT ![c] = call] /\ CallOK(call)
  <2> DEFINE call == Passes(c)
  <2>1. CallOK(old) /\ old \in CallType /\ old.at = 13 /\ calls' = [calls EXCEPT ![c] = call]
    <3>1. At(c, "sysBlack") /\ calls' = [calls EXCEPT ![c] = call]
      BY <1>4 DEF LookUpBlack, Goes
    <3>2. \A i \in 1..15 : Steps[i] = "sysBlack" => i = 13
      BY StepNumbers, CheckNumbers
    <3> QED
      BY <3>1, <3>2, CallAt
  <2>2. /\ call \in CallType /\ call.at = 14 /\ call.no = old.no
        /\ call.task = old.task /\ call.since = old.since
    BY <2>1 DEF CallType, Passes
  <2> HIDE DEF call
  <2>3. todo = <<>> => maps["sysBlack"] = Final["sysBlack"]
    BY DEF SetupInv, Pending, Lists
  <2>4. CallOK(call)
    BY <1>4, <2>1, <2>2, <2>3 DEF CallOK
  <2> QED
    BY <2>1, <2>2, <2>4
<1>5. ASSUME NEW rejected \in BOOLEAN, At(c, "args"), rejected => old.no \notin op_list,
             calls' = [calls EXCEPT ![c] = [Passes(c) EXCEPT !.rejected = rejected]]
      PROVE  \E call \in CallType : calls' = [calls EXCEPT ![c] = call] /\ CallOK(call)
  <2> DEFINE call == [Passes(c) EXCEPT !.rejected = rejected]
  <2>1. CallOK(old) /\ old \in CallType /\ old.at = 14
    <3>2. \A i \in 1..15 : Steps[i] = "args" => i = 14
      BY StepNumbers, CheckNumbers
    <3> QED
      BY <1>5, <3>2, CallAt
  <2>2. /\ call \in CallType /\ call.at = 15 /\ call.no = old.no /\ call.rejected = rejected
        /\ call.task = old.task /\ call.since = old.since
    BY <2>1, NextStep DEF CallType
  <2>5. calls' = [calls EXCEPT ![c] = call]
    BY <1>5
  <2> HIDE DEF call
  <2>3. (opts.traceAll => old.since = "complete") => op_list = Points
    <3>1. CASE opts.traceAll /\ old.since = "complete"
      BY <2>1, <3>1 DEF CallOK, SetupInv, Pending
    <3>2. CASE ~opts.traceAll
      BY <2>1, <3>2, WhiteMeansOps DEF CallOK
    <3> QED
      BY <3>1, <3>2
  <2>4. CallOK(call)
    BY <1>5, <2>1, <2>2, <2>3 DEF CallOK
  <2> QED
    BY <2>2, <2>4, <2>5
<1> QED
  BY <1>1, <1>2, <1>3, <1>4, <1>5 DEF LookUpPoint, LookUpWhite, LookUpBlack, ReadArgs, Goes

LEMMA CallKept ==
  ASSUME SetupInv, OrderInv, FireInv, CallInv, [RunNext]_runVars
  PROVE  CallInv'
<1>1. ASSUME opts' = opts, calls' = calls, todo = <<>> => todo' = <<>>,
             \A w : Pending(w)' => Pending(w), maps["sysWhite"] \subseteq maps'["sysWhite"],
             \A p \in Tid : roots[p] # NoPid => roots'[p] # NoPid
      PROVE  CallInv'
  <2>1. ASSUME NEW call, CallOK(call) PROVE CallOK(call)'
    BY <1>1, <2>1, CallStays
  <2> QED
    BY <1>1, <2>1 DEF CallInv
<1>2. ASSUME UNCHANGED <<opts, calls, todo, maps, roots>> PROVE CallInv'
  BY <1>1, <1>2 DEF Pending
<1>3. CASE WriteMaps
  BY <1>1, <1>3, MapsGrow
<1>4. ASSUME NEW parent \in Alive, NEW child \in Children, Fork(parent, child) PROVE CallInv'
  <2>1. parent.tid \in Tid /\ child \in Tid /\ parent.tid # NoPid
    BY SyscallStartupAssumption, FilteringAssumption
       DEF SyscallStartupAssumption, FilteringAssumption, Alive, SetupInv, TaskType
  <2>2. roots' = roots \/ roots' = [roots EXCEPT ![child] = parent.tid]
    BY <1>4 DEF Fork
  <2>3. \A p \in Tid : roots[p] # NoPid => roots'[p] # NoPid
    BY <2>1, <2>2 DEF SetupInv
  <2>4. UNCHANGED <<opts, calls, todo, maps>>
    BY <1>4 DEF Fork
  <2> QED
    BY <1>1, <2>3, <2>4 DEF Pending
<1>5. ASSUME NEW c \in Processor, NEW call \in CallType, call = NoCall \/ CallOK(call),
             calls' = [calls EXCEPT ![c] = call], UNCHANGED <<opts, todo, maps, roots>>
      PROVE  CallInv'
  <2>1. ASSUME NEW old, CallOK(old) PROVE CallOK(old)'
    BY <1>5, <2>1, CallStays DEF Pending
  <2>2. calls' \in [Processor -> CallType]
    BY <1>5 DEF CallInv
  <2>3. ASSUME NEW d \in Processor, NEW new \in CallType, calls'[d] = new, new # NoCall
        PROVE  CallOK(new)'
    <3>1. CallOK(new)
      BY <1>5, <2>3 DEF CallInv
    <3> QED
      BY <2>1, <3>1
  <2> QED
    BY <2>2, <2>3 DEF CallInv
<1>6. ASSUME NEW c \in Processor, SysEnter(c) PROVE CallInv'
  <2>1. UNCHANGED <<opts, todo, maps, roots>>
    BY <1>6, CallStepFrame DEF written
  <2>2. \E call \in CallType : calls' = [calls EXCEPT ![c] = call] /\ (call = NoCall \/ CallOK(call))
    BY <1>6, EnterKeeps, CheckStepKeeps, LookUpsKeep DEF SysEnter
  <2> QED
    BY <1>5, <2>1, <2>2
<1>7. ASSUME NEW c \in Processor, Submits(c) PROVE CallInv'
  BY <1>5, <1>7, NoCallIsCall DEF Submits, SubmitCall, Goes, written
<1>8. CASE Attach \/ ProgramNotFound \/ PollRings \/ Detach
  BY <1>2, <1>8 DEF Attach, ProgramNotFound, PollRings, Poll, Detach, written
<1>9. CASE (\E c \in Cpu : OpenRing(c)) \/ BuildFails \/ CloseRings \/ ReadRings \/ SignalRun
  BY <1>2, <1>9 DEF OpenRing, BuildFails, CloseRings, ReadRings, SignalRun, OnlyRing, written
<1>10. CASE UNCHANGED runVars
  BY <1>2, <1>10 DEF runVars, vars, written
<1> QED
  BY <1>3, <1>4, <1>6, <1>7, <1>8, <1>9, <1>10 DEF RunNext

FilterInv == SetupInv /\ OrderInv /\ FireInv /\ CallInv

LEMMA FilterInvariant == RunSpec => []FilterInv
<1>1. RunInit => FilterInv
  BY SetupInvInit, OrderInvInit, FireInvInit, CallInvInit DEF FilterInv
<1>2. FilterInv /\ [RunNext]_runVars => FilterInv'
  BY SetupKept, OrderKept, FireKept, CallKept DEF FilterInv
<1> QED
  BY <1>1, <1>2, PTL DEF RunSpec

-----------------------------------------------------------------------------
(* A call that gets as far as the submission.                              *)
LEMMA Submitted ==
  ASSUME FilterInv, NEW c \in Processor, At(c, "submit")
  PROVE  /\ calls[c].since # "blind" => Traced(calls[c].task)
         /\ (opts.traceAll => calls[c].since = "complete") => Wanted(calls[c].no, calls[c].rejected)
<1> DEFINE call == calls[c]
<1>1. CallOK(call) /\ call \in CallType /\ call.at = 15
  <2>1. \A i \in 1..15 : Steps[i] = "submit" => i = 15
    BY StepNumbers, CheckNumbers
  <2> QED
    BY <2>1, CallAt DEF FilterInv
<1>2. Final["traceAll"] = opts.traceAll /\ Final["sysWhite"] = opts.sysWhite /\ Final["sysBlack"] = opts.sysBlack
  BY DEF Final, MapsOf
<1>3. ~opts.traceAll => call.no \in opts.sysWhite /\ call.no \notin opts.sysBlack
  BY <1>1, <1>2, SyscallStartupAssumption DEF CallOK, FilterInv, FireInv, SetupInv, SyscallStartupAssumption
<1>4. opts.traceAll /\ call.since = "complete" => call.no \notin opts.sysBlack
  BY <1>1, <1>2 DEF CallOK
<1>5. (opts.traceAll => call.since = "complete") => SysnoAdmitted(Final, call.no)
  BY <1>2, <1>3, <1>4 DEF SysnoAdmitted
<1> QED
  BY <1>1, <1>5 DEF CallOK, Wanted

(* No step but the submission fires.                                       *)
LEMMA OnlySubmissionsFire ==
  ASSUME [RunNext]_runVars
  PROVE  \/ fired' = NoCall
         \/ \E c \in Processor : SubmitCall(c)
         \/ UNCHANGED runVars
<1>1. CASE WriteMaps \/ Attach \/ ProgramNotFound \/ PollRings \/ Detach
  BY <1>1
     DEF WriteMaps, WriteEntry, WriteBlackName, WriteWhiteName, WriteOps, WriteRoot, ListWritten,
         WriteValue, WriteFails, Writing, Attach, ProgramNotFound, PollRings, Poll, Detach
<1>2. CASE (\E c \in Cpu : OpenRing(c)) \/ BuildFails \/ CloseRings \/ ReadRings \/ SignalRun
  BY <1>2 DEF OpenRing, BuildFails, CloseRings, ReadRings, SignalRun, OnlyRing
<1>3. ASSUME NEW c \in Processor, SysEnter(c) PROVE fired' = NoCall
  BY <1>3, CallStepFrame
<1>4. ASSUME NEW parent, NEW child, Fork(parent, child) PROVE fired' = NoCall
  BY <1>4 DEF Fork
<1> QED
  BY <1>1, <1>2, <1>3, <1>4 DEF RunNext, Submits

FiredInv == OnlyFilteredTasksFire /\ FiresWanted

LEMMA FiredKept ==
  ASSUME FilterInv, FiredInv, [RunNext]_runVars
  PROVE  FiredInv'
<1>1. CASE fired' = NoCall
  BY <1>1 DEF FiredInv, OnlyFilteredTasksFire, FiresWanted, Fired, NoCall
<1>2. ASSUME NEW c \in Processor, SubmitCall(c) PROVE FiredInv'
  <2>1. At(c, "submit") /\ fired' = calls[c] /\ UNCHANGED <<opts, roots>>
    BY <1>2 DEF SubmitCall, Goes, written
  <2>2. Final' = Final /\ Rooted' = Rooted
    BY <2>1 DEF Final, Rooted
  <2>3. calls[c].since # "blind" => ShouldTrace(Final, Rooted, calls[c].task)
    BY <2>1, Submitted DEF Traced
  <2>4. (opts.traceAll => calls[c].since = "complete") =>
          SysnoAdmitted(Final, calls[c].no) /\ ~calls[c].rejected
    BY <2>1, Submitted DEF Wanted
  <2>5. fired'.since # "blind" => ShouldTrace(Final', Rooted', fired'.task)
    BY <2>1, <2>2, <2>3
  <2>6. (opts'.traceAll => fired'.since = "complete") =>
          SysnoAdmitted(Final', fired'.no) /\ ~fired'.rejected
    BY <2>1, <2>2, <2>4
  <2> QED
    BY <2>5, <2>6 DEF FiredInv, OnlyFilteredTasksFire, FiresWanted, Traced, Wanted
<1>3. CASE UNCHANGED runVars
  <2>1. UNCHANGED <<opts, roots, fired>>
    BY <1>3 DEF runVars, vars, written
  <2>2. Final' = Final /\ Rooted' = Rooted
    BY <2>1 DEF Final, Rooted
  <2> QED
    BY <2>1, <2>2 DEF FiredInv, OnlyFilteredTasksFire, FiresWanted, Fired, Traced, Wanted
<1> QED
  BY <1>1, <1>2, <1>3, OnlySubmissionsFire

LEMMA FiredInvariant == RunSpec => []FiredInv
<1>1. RunInit => FiredInv
  BY DEF RunInit, Init, FiredInv, OnlyFilteredTasksFire, FiresWanted, Fired
<1>2. FilterInv /\ FiredInv /\ [RunNext]_runVars => FiredInv'
  BY FiredKept
<1> QED
  BY <1>1, <1>2, FilterInvariant, PTL DEF RunSpec

(* However a call in flight and the writes to the maps interleave, map     *)
(* lookup by map lookup: of the calls that begin once there is a point,    *)
(* none is submitted or signalled for a task that the complete filters,    *)
(* with the children followed up to then, leave out.                       *)
THEOREM FilteredTasksOnly == RunSpec => []OnlyFilteredTasksFire
<1>1. FiredInv => OnlyFilteredTasksFire
  BY DEF FiredInv
<1> QED
  BY <1>1, FiredInvariant, PTL

(* No call that the numbers of the user leave out is submitted or          *)
(* signalled: with -s <names> whenever it began, on half-written maps too; *)
(* with -s all if it began once all maps were written.                     *)
THEOREM WantedCallsOnly == RunSpec => []FiresWanted
<1>1. FiredInv => FiresWanted
  BY DEF FiredInv
<1> QED
  BY <1>1, FiredInvariant, PTL

-----------------------------------------------------------------------------
(* What the rings hold, and what is printed, is wanted.                    *)
AllWanted(records) ==
  \A i \in 1..Len(records) : records[i].lost = 0 /\ records[i].no > 1 => records[i].event = TRUE

EventsWanted ==
  /\ \A c \in Cpu : ring[c] # Closed => AllWanted(ring[c])
  /\ line.no > 1 /\ line.lost = 0 => line.event = TRUE

(* An event that the user asked for, or the first of its ring, keeps it.   *)
LEMMA NewsWanted ==
  ASSUME RingInv, NEW c \in Cpu, NEW e \in Event, ring[c] # Closed, AllWanted(ring[c]),
         sent[c] # 0 => e = TRUE
  PROVE  AllWanted(ring[c] \o News(c, e))
<1> DEFINE longer == ring[c] \o News(c, e)
<1>1. e \in Event
  OBVIOUS
<1>2. ring[c] \in Seq(Record) /\ News(c, e) \in Seq(Record)
  BY <1>1, OpenRings, NewsAreRecords DEF RingInv
<1>3. \A i \in 1..Len(News(c, e)) :
        News(c, e)[i].lost = 0 => News(c, e)[i].event = e /\ News(c, e)[i].no = sent[c] + 1
  <2>1. CASE missed[c] = 0
    BY <1>1, <2>1, NewsAreRecords DEF RingInv
  <2>2. CASE missed[c] # 0
    BY <1>1, <2>2, NewsAreRecords DEF RingInv
  <2> QED
    BY <2>1, <2>2
<1>7. \A i \in 1..Len(News(c, e)) :
        News(c, e)[i].lost = 0 /\ News(c, e)[i].no > 1 => News(c, e)[i].event = TRUE
  <2>1. sent[c] \in Nat
    BY DEF RingInv, RingTypeOK
  <2> QED
    BY <1>3, <2>1
<1>4. /\ Len(longer) = Len(ring[c]) + Len(News(c, e))
      /\ \A i \in 1..(Len(ring[c]) + Len(News(c, e))) :
           longer[i] = IF i <= Len(ring[c]) THEN ring[c][i] ELSE News(c, e)[i - Len(ring[c])]
  BY <1>2, Joined
<1>5. Len(ring[c]) \in Nat /\ Len(News(c, e)) \in Nat
  BY <1>2
<1> HIDE DEF longer
<1>6. ASSUME NEW i \in 1..Len(longer), longer[i].lost = 0, longer[i].no > 1
      PROVE  longer[i].event = TRUE
  <2>1. CASE i <= Len(ring[c])
    BY <1>4, <1>5, <1>6, <2>1 DEF AllWanted
  <2>2. CASE ~(i <= Len(ring[c]))
    <3>1. i - Len(ring[c]) \in 1..Len(News(c, e))
      BY <1>4, <1>5, <2>2
    <3> QED
      BY <1>4, <1>5, <1>6, <1>7, <2>2, <3>1
  <2> QED
    BY <2>1, <2>2
<1> QED
  BY <1>6 DEF AllWanted, longer

(* Only a call that begins says how far the maps are.                      *)
LEMMA SinceStays ==
  ASSUME CallInv, NEW c \in Processor, SysEnter(c), ~\E task \in Alive : Enter(c, task)
  PROVE  calls[c] # NoCall /\ (calls'[c] = NoCall \/ calls'[c].since = calls[c].since)
<1>1. calls \in [Processor -> CallType]
  BY DEF CallInv
<1>2. ASSUME NEW call, calls' = [calls EXCEPT ![c] = call] PROVE calls'[c] = call
  BY <1>1, <1>2
<1>3. ASSUME NEW step, At(c, step) PROVE calls[c] # NoCall /\ calls[c] \in CallType
  BY <1>1, <1>3, NoCallIsCall DEF At
<1>4. ASSUME calls[c] \in CallType PROVE Passes(c).since = calls[c].since
  BY <1>4 DEF CallType, Passes
<1>5. ASSUME NEW check \in Range(Checks), TakeCheck(c, check)
      PROVE  calls[c] # NoCall /\ (calls'[c] = NoCall \/ calls'[c].since = calls[c].since)
  <2> DEFINE admitted == [calls[c] EXCEPT !.at = Len(Checks) + 1]
  <2>1. calls[c] # NoCall /\ calls[c] \in CallType
    BY <1>3, <1>5 DEF TakeCheck
  <2>2. admitted.since = calls[c].since
    BY <2>1 DEF CallType
  <2>3. calls'[c] \in {NoCall, admitted, Passes(c)}
    <3>1. \/ calls' = [calls EXCEPT ![c] = NoCall]
          \/ calls' = [calls EXCEPT ![c] = admitted]
          \/ calls' = [calls EXCEPT ![c] = Passes(c)]
      BY <1>5 DEF TakeCheck, Goes
    <3> HIDE DEF admitted
    <3> QED
      BY <1>2, <3>1
  <2> HIDE DEF admitted
  <2> QED
    BY <1>4, <2>1, <2>2, <2>3
<1>6. ASSUME NEW s \in Sysno, LookUpPoint(c, s)
      PROVE  calls[c] # NoCall /\ (calls'[c] = NoCall \/ calls'[c].since = calls[c].since)
  <2> DEFINE found == [Passes(c) EXCEPT !.no = s]
  <2>1. calls[c] # NoCall /\ calls[c] \in CallType /\ At(c, "point")
    BY <1>3, <1>6 DEF LookUpPoint
  <2>2. found.since = calls[c].since
    BY <2>1 DEF CallType, Passes
  <2>3. calls' = [calls EXCEPT ![c] = NoCall] \/ calls' = [calls EXCEPT ![c] = found]
    BY <1>6 DEF LookUpPoint, Goes
  <2> HIDE DEF found
  <2> QED
    BY <1>2, <2>1, <2>2, <2>3
<1>7. ASSUME LookUpWhite(c) \/ LookUpBlack(c)
      PROVE  calls[c] # NoCall /\ (calls'[c] = NoCall \/ calls'[c].since = calls[c].since)
  <2>1. calls[c] # NoCall /\ calls[c] \in CallType
    BY <1>3, <1>7 DEF LookUpWhite, LookUpBlack
  <2>2. calls' = [calls EXCEPT ![c] = NoCall] \/ calls' = [calls EXCEPT ![c] = Passes(c)]
    BY <1>7 DEF LookUpWhite, LookUpBlack, Goes
  <2> QED
    BY <1>2, <1>4, <2>1, <2>2
<1>8. ASSUME NEW rejected \in BOOLEAN, ReadArgs(c, rejected)
      PROVE  calls[c] # NoCall /\ (calls'[c] = NoCall \/ calls'[c].since = calls[c].since)
  <2> DEFINE read == [Passes(c) EXCEPT !.rejected = rejected]
  <2>1. calls[c] # NoCall /\ calls[c] \in CallType
    BY <1>3, <1>8 DEF ReadArgs
  <2>2. read.since = calls[c].since
    BY <2>1 DEF CallType, Passes
  <2>3. calls' = [calls EXCEPT ![c] = NoCall] \/ calls' = [calls EXCEPT ![c] = read]
    BY <1>8 DEF ReadArgs, Goes
  <2> HIDE DEF read
  <2> QED
    BY <1>2, <2>1, <2>2, <2>3
<1> QED
  BY <1>5, <1>6, <1>7, <1>8 DEF SysEnter

(* An event that follows another of its CPU comes from a call that began   *)
(* after all maps were written: while one of before is in flight there,    *)
(* nothing has been submitted to the ring.                                 *)
EarlyCalls == \A c \in Cpu : ring[c] # Closed /\ calls[c] # NoCall /\ calls[c].since # "complete" => sent[c] = 0

LEMMA EarlyCallsKept ==
  ASSUME RingInv, FilterInv, EarlyCalls, [RunNext]_runVars
  PROVE  EarlyCalls'
<1>1. CASE UNCHANGED <<calls, ring, sent>>
  BY <1>1 DEF EarlyCalls
<1>2. ASSUME NEW c \in Cpu, OpenRing(c) PROVE EarlyCalls'
  <2>1. /\ ring[c] = Closed /\ loop = "check" /\ ring' = [ring EXCEPT ![c] = <<>>]
        /\ UNCHANGED <<sent, calls>>
    BY <1>2 DEF OpenRing, OnlyRing, Open
  <2>2. sent[c] = 0
    BY <2>1 DEF RingInv, ReaderInv
  <2> QED
    BY <2>1, <2>2 DEF EarlyCalls, RingInv, RingTypeOK
<1>3. CASE BuildFails \/ CloseRings
  BY <1>3 DEF BuildFails, CloseRings, NotBuilt, Close, EarlyCalls
<1>4. CASE ReadRings
  <2>1. CASE Release
    <3>1. ring' = [ring EXCEPT ![reading.cpu] = SubSeq(@, reading.upto + 1, Len(@))] /\ UNCHANGED sent
      BY <2>1 DEF Release
    <3>2. calls' = calls
      BY <1>4 DEF ReadRings, OnlyRing
    <3>3. reading.cpu \in Cpu /\ ring[reading.cpu] # Closed
      BY <2>1, PerfRingAssumption
         DEF Release, RingInv, RingTypeOK, ReaderInv, AllOpen, Idle, PerfRingAssumption
    <3> QED
      BY <3>1, <3>2, <3>3 DEF EarlyCalls, RingInv, RingTypeOK
  <2>2. CASE Check \/ Timeout \/ Wake \/ BatchDone \/ HandleEvent \/ HandleLost \/ \E c \in Cpu : Snapshot(c)
    BY <1>1, <1>4, <2>2 DEF ReadRings, OnlyRing, Check, Timeout, Wake, BatchDone, HandleEvent, HandleLost,
                            Snapshot, rings
  <2> QED
    BY <1>4, <2>1, <2>2 DEF ReadRings, Read
<1>5. ASSUME NEW c \in Processor, SysEnter(c), NoOutput PROVE EarlyCalls'
  <2>1. UNCHANGED <<ring, sent>>
    BY <1>5 DEF NoOutput, rings
  <2>2. calls \in [Processor -> CallType] /\ Cpu \subseteq Processor
    BY SyscallRunAssumption DEF SyscallRunAssumption, FilterInv, CallInv
  <2>3. CASE \E task \in Alive : Enter(c, task)
    <3>1. PICK task \in Alive : Enter(c, task)
      BY <2>3
    <3>2. calls'[c].since = Since /\ \A k \in Cpu : k # c => calls'[k] = calls[k]
      BY <2>2, <3>1 DEF Enter, Goes
    <3>3. ASSUME NEW k \in Cpu, ring[k] # Closed PROVE Since = "complete"
      BY <3>3 DEF FilterInv, SetupInv, Since
    <3> QED
      BY <2>1, <3>2, <3>3 DEF EarlyCalls
  <2>4. CASE ~\E task \in Alive : Enter(c, task)
    <3>1. calls[c] # NoCall /\ (calls'[c] = NoCall \/ calls'[c].since = calls[c].since)
      BY <1>5, <2>4, SinceStays DEF FilterInv
    <3>2. \A k \in Cpu : k # c => calls'[k] = calls[k]
      BY <1>5, <2>2, CallStepFrame
    <3> QED
      BY <2>1, <3>1, <3>2 DEF EarlyCalls
  <2> QED
    BY <2>3, <2>4
<1>6. ASSUME NEW c \in Processor, Submits(c) PROVE EarlyCalls'
  <2>1. calls \in [Processor -> CallType] /\ Cpu \subseteq Processor
    BY SyscallRunAssumption DEF SyscallRunAssumption, FilterInv, CallInv
  <2>2. calls'[c] = NoCall /\ \A k \in Cpu : k # c => calls'[k] = calls[k]
    BY <1>6, <2>1 DEF Submits, SubmitCall, Goes
  <2>3. \A k \in Cpu : k # c => ring'[k] = ring[k] /\ sent'[k] = sent[k]
    BY <1>6 DEF Submits, Submit, SubmitNowhere, NoOutput, rings, RingInv, RingTypeOK
  <2> QED
    BY <2>2, <2>3 DEF EarlyCalls
<1>7. CASE (WriteMaps \/ Attach \/ ProgramNotFound \/ \E parent \in Alive, child \in Children : Fork(parent, child))
           /\ NoOutput
  BY <1>1, <1>7
     DEF WriteMaps, WriteEntry, WriteBlackName, WriteWhiteName, WriteOps, WriteRoot, ListWritten, WriteValue,
         WriteFails, Writing, Attach, ProgramNotFound, Fork, NoOutput, rings
<1>8. CASE PollRings \/ Detach \/ SignalRun
  BY <1>1, <1>8 DEF PollRings, Poll, Detach, SignalRun, Signal, PollFails, OnlyRing, NoOutput, rings
<1>9. CASE UNCHANGED runVars
  BY <1>1, <1>9 DEF runVars, vars, ringVars, rings
<1> QED
  BY <1>2, <1>3, <1>4, <1>5, <1>6, <1>7, <1>8, <1>9 DEF RunNext

RunInv == RingInv /\ FilterInv /\ EarlyCalls /\ EventsWanted

LEMMA EventsWantedKept ==
  ASSUME RunInv, [RunNext]_runVars
  PROVE  EventsWanted'
<1> USE DEF RunInv
<1>0. ~(NoLine.no > 1)
  BY DEF NoLine
<1>1. ASSUME ring' = ring, line' = NoLine PROVE EventsWanted'
  BY <1>0, <1>1 DEF EventsWanted
<1>2. ASSUME NEW c \in Cpu, OpenRing(c) PROVE EventsWanted'
  <2>1. ring' = [ring EXCEPT ![c] = <<>>] /\ line' = NoLine
    BY <1>2 DEF OpenRing, Open
  <2>2. AllWanted(<<>>)
    BY DEF AllWanted
  <2> QED
    BY <1>0, <2>1, <2>2 DEF EventsWanted, RingInv, RingTypeOK
<1>3. CASE BuildFails \/ CloseRings
  BY <1>0, <1>3 DEF BuildFails, CloseRings, NotBuilt, Close, EventsWanted
<1>4. CASE ReadRings
  <2>1. CASE Check \/ Timeout \/ Wake \/ BatchDone \/ \E c \in Cpu : Snapshot(c)
    BY <1>1, <2>1 DEF Check, Timeout, Wake, BatchDone, Snapshot, rings
  <2>2. CASE HandleEvent \/ HandleLost
    <3>1. ring' = ring /\ line' = Current
      BY <2>2 DEF HandleEvent, HandleLost, rings
    <3>2. /\ reading.cpu \in Cpu /\ ring[reading.cpu] # Closed
          /\ reading.done + 1 \in 1..Len(ring[reading.cpu])
      <4>1. reading.cpu \in Cpu /\ ring[reading.cpu] # Closed
        BY <2>2, PerfRingAssumption
           DEF HandleEvent, HandleLost, InBatch, RingInv, RingTypeOK, ReaderInv, AllOpen, Idle, PerfRingAssumption
      <4>2. Len(ring[reading.cpu]) \in Nat
        BY <4>1, HandledBound
      <4> QED
        BY <2>2, <4>1, <4>2, PerfRingAssumption
           DEF HandleEvent, HandleLost, InBatch, RingInv, RingTypeOK, ReaderInv, PerfRingAssumption
    <3>3. Current.no > 1 /\ Current.lost = 0 => Current.event = TRUE
      BY <3>2 DEF EventsWanted, AllWanted, Current
    <3> QED
      BY <3>1, <3>3 DEF EventsWanted
  <2>3. CASE Release
    <3>1. line' = NoLine /\ ring' = [ring EXCEPT ![reading.cpu] = SubSeq(@, reading.upto + 1, Len(@))]
      BY <2>3 DEF Release
    <3>2. /\ reading.cpu \in Cpu /\ ring[reading.cpu] # Closed
          /\ reading.upto \in Nat /\ reading.upto <= Len(ring[reading.cpu])
      BY <2>3, PerfRingAssumption
         DEF Release, RingInv, RingTypeOK, ReaderInv, AllOpen, Idle, PerfRingAssumption
    <3>3. ring[reading.cpu] \in Seq(Record)
      BY <3>2, OpenRings DEF RingInv
    <3>4. AllWanted(SubSeq(ring[reading.cpu], reading.upto + 1, Len(ring[reading.cpu])))
      <4> DEFINE r == ring[reading.cpu]
                 u == reading.upto
      <4>1. r \in Seq(Record) /\ u \in Nat /\ u <= Len(r) /\ Len(r) \in Nat /\ AllWanted(r)
        <5>1. AllWanted(ring[reading.cpu])
          BY <3>2 DEF EventsWanted
        <5>2. Len(ring[reading.cpu]) \in Nat
          BY <3>3
        <5> QED
          BY <3>2, <3>3, <5>1, <5>2
      <4> HIDE DEF r, u
      <4>2. /\ Len(SubSeq(r, u + 1, Len(r))) = Len(r) - u
            /\ \A i \in 1..(Len(r) - u) : SubSeq(r, u + 1, Len(r))[i] = r[i + u]
        BY <4>1, Dropped
      <4>3. AllWanted(SubSeq(r, u + 1, Len(r)))
        BY <4>1, <4>2 DEF AllWanted
      <4> QED
        BY <4>3 DEF r, u
    <3> QED
      BY <1>0, <3>1, <3>2, <3>4 DEF EventsWanted, RingInv, RingTypeOK
  <2> QED
    BY <1>4, <2>1, <2>2, <2>3 DEF ReadRings, Read
<1>5. ASSUME NEW c \in Processor, Submits(c) PROVE EventsWanted'
  <2>1. CASE ring' = ring
    <3>1. line' = NoLine
      BY <1>5 DEF Submits, Submit, SubmitNowhere, NoOutput
    <3> QED
      BY <1>1, <2>1, <3>1
  <2>2. CASE c \in Cpu /\ Submit(c, Asked(calls[c])) /\ ring' # ring
    <3> DEFINE e == Asked(calls[c])
    <3>1. ring[c] # Closed /\ line' = NoLine /\ ring' = [ring EXCEPT ![c] = @ \o News(c, e)]
      BY <2>2 DEF Submit
    <3>2. e \in Event
      BY SyscallRunAssumption DEF SyscallRunAssumption, Asked
    <3>3. sent[c] # 0 => e = TRUE
      <4>1. At(c, "submit") /\ calls[c] # NoCall
        BY <1>5, NoCallIsCall DEF Submits, SubmitCall, At
      <4>2. sent[c] # 0 => calls[c].since = "complete"
        BY <2>2, <3>1, <4>1 DEF EarlyCalls
      <4> QED
        BY <4>1, <4>2, Submitted DEF Asked
    <3> HIDE DEF e
    <3>4. AllWanted(ring[c] \o News(c, e))
      BY <2>2, <3>1, <3>2, <3>3, NewsWanted DEF EventsWanted
    <3> QED
      BY <1>0, <2>2, <3>1, <3>4 DEF EventsWanted, RingInv, RingTypeOK
  <2>3. CASE SubmitNowhere(c)
    BY <1>1, <2>3 DEF SubmitNowhere, NoOutput, rings
  <2> QED
    BY <1>5, <2>1, <2>2, <2>3 DEF Submits
<1>6. CASE NoOutput
  BY <1>1, <1>6 DEF NoOutput, rings
<1>7. CASE SignalRun
  BY <1>1, <1>7 DEF SignalRun, Signal, PollFails, rings
<1>8. CASE UNCHANGED runVars
  BY <1>8 DEF runVars, ringVars, rings, EventsWanted
<1> QED
  BY <1>2, <1>3, <1>4, <1>5, <1>6, <1>7, <1>8 DEF RunNext, PollRings, Detach

LEMMA RunInvariant == RunSpec => []RunInv
<1>1. RunInit => RunInv
  <2>1. RunInit => EventsWanted /\ EarlyCalls
    BY DEF RunInit, RingInit, EventsWanted, EarlyCalls, NoLine
  <2> QED
    BY <2>1, RingInvInit, SetupInvInit, OrderInvInit, FireInvInit, CallInvInit DEF RunInv, FilterInv, RunInit
<1>2. RunInv /\ [RunNext]_runVars => RunInv'
  <2>1. FilterInv /\ [RunNext]_runVars => FilterInv'
    BY SetupKept, OrderKept, FireKept, CallKept DEF FilterInv
  <2>2. RingInv /\ [RunNext]_runVars => RingInv'
    BY TypesKept, ReaderKept, GapsKept, RunStepsAreRingSteps DEF RingInv
  <2> QED
    BY <2>1, <2>2, EarlyCallsKept, EventsWantedKept DEF RunInv
<1> QED
  BY <1>1, <1>2, PTL DEF RunSpec

(* A line about a task or a call that the user did not ask for can only be *)
(* the first of its CPU: the programs run on half-written maps before, but *)
(* have no ring then, and what is in flight when a ring is opened is one   *)
(* call on its CPU.                                                        *)
THEOREM OnlyWantedIsPrinted == RunSpec => []PrintedIsWanted
<1>1. RunInv => PrintedIsWanted
  BY DEF RunInv, EventsWanted, PrintedIsWanted
<1> QED
  BY <1>1, RunInvariant, PTL
=============================================================================
