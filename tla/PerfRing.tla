------------------------------ MODULE PerfRing ------------------------------
(***************************************************************************)
(* The perf buffer "events": one ring per CPU, which the programs fill     *)
(* through events_perf_submit() and the poll loop of poll_events() in      *)
(* src/module/syscall_tracepoint.rs empties.  (The loop of the stack       *)
(* module is the same but for a failing poll.)                             *)
(*                                                                         *)
(* The ring itself belongs to the kernel and the poll to libbpf: what      *)
(* their callers see of them is modelled.  A full ring loses the event and *)
(* counts it; the count is written as a record of its own in front of the  *)
(* next event for which there is room.  A poll hands every record that is  *)
(* there to its callback and releases them all at the end.                 *)
(*                                                                         *)
(* Events are numbered per CPU; an event is what its submitter says of it. *)
(***************************************************************************)
EXTENDS Naturals, Sequences

CONSTANTS Cpu,        \* the CPUs online when the buffer is opened
          LateCpu,    \* the CPUs that come online later
          Room,       \* how many records a ring holds
          MaxEvents,  \* bound, per CPU: events submitted
          Event,      \* what is said of an event
          Closed      \* a ring that is not open

(* A record stands for the event no, or for lost events up to that number. *)
Record == [no : Nat, lost : Nat, event : Event \cup {Closed}]

ASSUME PerfRingAssumption ==
  /\ Cpu \cap LateCpu = {}
  /\ MaxEvents \in [Cpu -> Nat]
  /\ Closed \notin Cpu
  /\ Closed \notin Seq(Record)

VARIABLES ring,         \* per CPU: the records written and not yet released
          sent,         \* per CPU: events submitted since the ring is open
          missed,       \* per CPU: events lost since the last record
          ready,        \* the CPUs whose ring has woken the reader
          loop,         \* the reader: "check", "wait", "read", "ended"
          batch,        \* the CPUs of this poll still to be read
          reading,      \* the CPU being read, how far and how far already
          shown,        \* per CPU: events printed or announced as lost
          line,         \* the line printed in this step, if any
          signal        \* the one that has come: "none", "int" (INTERRUPTED), "cont"

rings == <<ring, sent, missed, ready>>
reader == <<loop, batch, reading, shown>>
ringVars == <<rings, reader, line, signal>>

Idle == [cpu |-> Closed, upto |-> 0, done |-> 0]

NoLine == [no |-> 0, lost |-> 0, event |-> Closed]

RingTypeOK ==
  /\ ring \in [Cpu -> Seq(Record) \cup {Closed}]
  /\ sent \in [Cpu -> Nat] /\ missed \in [Cpu -> Nat] /\ shown \in [Cpu -> Nat]
  /\ ready \subseteq Cpu /\ batch \subseteq Cpu
  /\ loop \in {"check", "wait", "read", "ended"}
  /\ reading \in [cpu : Cpu \cup {Closed}, upto : Nat, done : Nat]
  /\ line \in Record
  /\ signal \in {"none", "int", "cont"}

RingInit ==
  /\ ring = [c \in Cpu |-> Closed]
  /\ sent = [c \in Cpu |-> 0]
  /\ missed = [c \in Cpu |-> 0]
  /\ ready = {}
  /\ loop = "check"
  /\ batch = {}
  /\ reading = Idle
  /\ shown = [c \in Cpu |-> 0]
  /\ line = NoLine
  /\ signal = "none"

-----------------------------------------------------------------------------
(* PerfBufferBuilder::build(): one CPU after the other.                    *)
Open(c) ==
  /\ ring[c] = Closed
  /\ loop = "check"
  /\ ring' = [ring EXCEPT ![c] = <<>>]
  /\ line' = NoLine
  /\ UNCHANGED <<sent, missed, ready, reader, signal>>

(* build() fails: the rings opened so far are closed.                      *)
NotBuilt ==
  /\ loop = "check"
  /\ \E c \in Cpu : ring[c] = Closed
  /\ loop' = "ended"
  /\ ring' = [c \in Cpu |-> Closed]
  /\ ready' = {}
  /\ line' = NoLine
  /\ UNCHANGED <<sent, missed, batch, reading, shown, signal>>

AllOpen == \A c \in Cpu : ring[c] # Closed

(* bpf_perf_event_output on a CPU whose ring has room for the event, and   *)
(* for the count of those lost before it, if any.                          *)
News(c, e) ==
  LET new == [no |-> sent[c] + 1, lost |-> 0, event |-> e]
      gap == [no |-> sent[c], lost |-> missed[c], event |-> Closed]
  IN IF missed[c] = 0 THEN <<new>> ELSE <<gap, new>>

Submit(c, e) ==
  /\ ring[c] # Closed
  /\ sent[c] < MaxEvents[c]
  /\ sent' = [sent EXCEPT ![c] = @ + 1]
  /\ IF Len(ring[c]) + Len(News(c, e)) <= Room
     THEN /\ ring' = [ring EXCEPT ![c] = @ \o News(c, e)]
          /\ missed' = [missed EXCEPT ![c] = 0]
          /\ ready' = ready \cup {c}
     ELSE /\ missed' = [missed EXCEPT ![c] = @ + 1]
          /\ UNCHANGED <<ring, ready>>
  /\ line' = NoLine
  /\ UNCHANGED <<reader, signal>>

(* Whatever happens elsewhere.                                             *)
NoOutput == line' = NoLine /\ UNCHANGED <<rings, reader, signal>>

(* Before the ring is open, after it is closed, and on a CPU that has none *)
(* the call fails; its result is used by nobody.                           *)
SubmitNowhere(c) ==
  /\ c \in Cpu => ring[c] = Closed
  /\ NoOutput

-----------------------------------------------------------------------------
Check ==
  /\ AllOpen
  /\ loop = "check"
  /\ loop' = IF signal = "int" THEN "ended" ELSE "wait"
  /\ line' = NoLine
  /\ UNCHANGED <<rings, batch, reading, shown, signal>>

(* Faulty: the loop ends when there was nothing to read for 100 ms.        *)
QuietEnds ==
  /\ loop = "wait"
  /\ ready = {}
  /\ loop' = "ended"
  /\ line' = NoLine
  /\ UNCHANGED <<rings, batch, reading, shown, signal>>

(* 100 ms without a record.                                                *)
Timeout ==
  /\ loop = "wait"
  /\ ready = {}
  /\ loop' = "check"
  /\ line' = NoLine
  /\ UNCHANGED <<rings, batch, reading, shown, signal>>

Wake ==
  /\ loop = "wait"
  /\ ready # {}
  /\ batch' = ready
  /\ ready' = {}
  /\ loop' = "read"
  /\ line' = NoLine
  /\ UNCHANGED <<ring, sent, missed, reading, shown, signal>>

(* A signal comes to this thread in the poll, be it Ctrl-C or the end of a *)
(* Ctrl-Z: any error ends the loop.                                        *)
PollFails ==
  /\ loop = "wait"
  /\ loop' = "ended"
  /\ signal' \in {"int", "cont"}
  /\ line' = NoLine
  /\ UNCHANGED <<rings, batch, reading, shown>>

(* The next ring of the poll, as far as it is filled at this moment.       *)
Snapshot(c) ==
  /\ loop = "read"
  /\ reading = Idle
  /\ c \in batch
  /\ batch' = batch \ {c}
  /\ reading' = [cpu |-> c, upto |-> Len(ring[c]), done |-> 0]
  /\ line' = NoLine
  /\ UNCHANGED <<rings, loop, shown, signal>>

InBatch == reading # Idle /\ reading.done < reading.upto

Current == ring[reading.cpu][reading.done + 1]

(* handle_event: the event is decoded and printed, or the error is.        *)
HandleEvent ==
  /\ InBatch
  /\ Current.lost = 0
  /\ line' = Current
  /\ shown' = [shown EXCEPT ![reading.cpu] = @ + 1]
  /\ reading' = [reading EXCEPT !.done = @ + 1]
  /\ UNCHANGED <<rings, loop, batch, signal>>

(* Faulty: no callback for lost events.                                    *)
HandleNoLost ==
  /\ InBatch
  /\ Current.lost > 0
  /\ reading' = [reading EXCEPT !.done = @ + 1]
  /\ line' = NoLine
  /\ UNCHANGED <<rings, loop, batch, shown, signal>>

(* handle_lost: the count is printed.                                      *)
HandleLost ==
  /\ InBatch
  /\ Current.lost > 0
  /\ line' = Current
  /\ shown' = [shown EXCEPT ![reading.cpu] = @ + Current.lost]
  /\ reading' = [reading EXCEPT !.done = @ + 1]
  /\ UNCHANGED <<rings, loop, batch, signal>>

(* All records of the snapshot are handled: their room is released.        *)
Release ==
  /\ reading # Idle
  /\ reading.done = reading.upto
  /\ ring' = [ring EXCEPT ![reading.cpu] = SubSeq(@, reading.upto + 1, Len(@))]
  /\ reading' = Idle
  /\ line' = NoLine
  /\ UNCHANGED <<sent, missed, ready, loop, batch, shown, signal>>

BatchDone ==
  /\ loop = "read"
  /\ batch = {}
  /\ reading = Idle
  /\ loop' = "check"
  /\ line' = NoLine
  /\ UNCHANGED <<rings, batch, reading, shown, signal>>

(* Ctrl-C sets the flag, which nobody resets.                              *)
Signal ==
  /\ signal # "int"
  /\ signal' = "int"
  /\ line' = NoLine
  /\ UNCHANGED <<rings, reader>>

(* poll_events returns and drops the buffer, with what it still holds.     *)
Close ==
  /\ loop = "ended"
  /\ AllOpen
  /\ ring' = [c \in Cpu |-> Closed]
  /\ ready' = {}
  /\ line' = NoLine
  /\ UNCHANGED <<sent, missed, reader, signal>>

Read ==
  \/ Check \/ Timeout \/ Wake
  \/ \E c \in Cpu : Snapshot(c)
  \/ HandleEvent \/ HandleLost \/ Release \/ BatchDone

RingNext ==
  \/ \E c \in Cpu : Open(c)
  \/ \E c \in Cpu, e \in Event : Submit(c, e)
  \/ \E c \in Cpu \cup LateCpu : SubmitNowhere(c)
  \/ NotBuilt \/ Read \/ PollFails \/ Signal \/ Close \/ NoOutput

RingSpec == RingInit /\ [][RingNext]_ringVars

-----------------------------------------------------------------------------
(* The records of a ring that a callback has seen.                         *)
Handled(c) == IF reading.cpu = c THEN reading.done ELSE 0

Unread(c) == ring[c] # Closed /\ Handled(c) < Len(ring[c])

First(r) == IF r.lost = 0 THEN r.no ELSE r.no - r.lost + 1

(* No gap is silent: on every CPU, what was printed, what was announced as *)
(* lost, what the ring still holds and what it could not take add up to    *)
(* what was submitted, in the order of submission.  So between two lines   *)
(* of a CPU there is a line that says how many are missing, or none is.    *)
(* (Losses after which nothing more is submitted stay in missed: they are  *)
(* never announced.)                                                       *)
Gapless(c) ==
  LET h == Handled(c)
      n == Len(ring[c])
  IN /\ \A i \in (h + 1)..n :
          First(ring[c][i]) = 1 + (IF i = h + 1 THEN shown[c] ELSE ring[c][i - 1].no)
     /\ sent[c] = missed[c] + (IF n = h THEN shown[c] ELSE ring[c][n].no)

GapsAnnounced == \A c \in Cpu : ring[c] # Closed => Gapless(c)
=============================================================================
