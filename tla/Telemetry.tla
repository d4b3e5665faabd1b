----------------------------- MODULE Telemetry -----------------------------
(***************************************************************************)
(* What a server records of the calls it answers, down to the file: the    *)
(* request handlers (src/src/backend/sdk/handlers.ts) run tools, resources *)
(* and prompts through the wrappers that record one event for each         *)
(* (telemetryWrapper.ts, toolProxy.ts), the file collector buffers events  *)
(* and writes them on a timer (JsonFileTelemetry.ts), and stop flushes it  *)
(* (Server.ts).                                                            *)
(*                                                                         *)
(* An event is the call, or the stop, that it is about; the order of the   *)
(* lines is left out.  Other collectors keep nothing, and a composite one  *)
(* hands on each event as it comes.                                        *)
(***************************************************************************)
EXTENDS Naturals, FiniteSets

CONSTANTS
  Calls,        \* calls of capabilities that may overlap
  Stops,        \* calls to stop that reach its flush
  MaxFaults,    \* bound: writes that fail
  None

ASSUME TelemetryAssumption ==
  MaxFaults \in Nat /\ Calls \cap Stops = {} /\ None \notin Calls \cup Stops

VARIABLES
  call,         \* what is called in each call, what it awaits and what it was answered
  recorded,     \* the events recorded so far
  buffer,       \* JsonFileTelemetry: the events not taken by a write
  flushTimer,   \* JsonFileTelemetry: whether the reference holds a timer
  armed,        \* how many timers are armed
  dirEnsured,   \* JsonFileTelemetry: whether the directory was made
  writes,       \* the writes under way
  file,         \* the lines of the file
  lost,         \* history: the events of writes that failed
  stop,         \* what each stop awaits
  owed,         \* history: the calls answered when each stop came to its flush
  alone,        \* history: the stops whose flush began with no write under way
  up,           \* whether the process runs
  faults        \* history: how many writes failed

writer == <<buffer, flushTimer, armed, dirEnsured, writes, file, lost, recorded>>
ends   == <<stop, owed, alone>>
vars   == <<call, writer, ends, up, faults>>

Events == Calls \cup Stops

\* A tool of captureLevel none is not wrapped, and neither is a resource template.
Tools     == {"tool", "uncaptured"}
Loaded    == {"resource", "template", "prompt"}
Wrapped   == {"tool", "resource", "prompt"}
Answers   == {"result", "enriched", "rejection", "bare"}
CallSteps == {"idle", "validate", "running", "late", "done"}

ASSUME NoneAssumption == None \notin Answers

NoCall == [kind |-> None, step |-> "idle", answer |-> None]

Init ==
  /\ call = [c \in Calls |-> NoCall]
  /\ recorded = {}
  /\ buffer = {}
  /\ flushTimer = FALSE
  /\ armed = 0
  /\ dirEnsured = FALSE
  /\ writes = {}
  /\ file = [e \in Events |-> 0]
  /\ lost = {}
  /\ stop = [s \in Stops |-> "idle"]
  /\ owed = [s \in Stops |-> {}]
  /\ alone = {}
  /\ up = TRUE
  /\ faults = 0

-----------------------------------------------------------------------------
(* The file collector.                                                     *)

\* scheduleFlush: one timer at a time.
Scheduled ==
  /\ flushTimer' = TRUE
  /\ armed' = IF flushTimer THEN armed ELSE armed + 1

RecordEvent(e) ==
  /\ recorded' = recorded \cup {e}
  /\ buffer' = buffer \cup {e}
  /\ Scheduled
  /\ UNCHANGED <<dirEnsured, writes, file, lost>>

Emptied_Not(events) == events

Emptied(events) == {}

\* writeBuffer up to its first await, for the timer or for a stop: it takes what is buffered.
WriteBuffer(events, by) ==
  /\ buffer' = Emptied(events)
  /\ writes' = IF events = {} THEN writes
               ELSE writes \cup {[by |-> by, events |-> events,
                                  step |-> IF dirEnsured THEN "append" ELSE "mkdir"]}

Fired_ReferenceKept == UNCHANGED flushTimer

\* The timer forgets itself before it writes.
Fired == flushTimer' = FALSE

TimerFires ==
  /\ up
  /\ armed > 0
  /\ armed' = armed - 1
  /\ Fired
  /\ WriteBuffer(buffer, None)
  /\ UNCHANGED <<call, recorded, dirEnsured, file, lost, ends, up, faults>>

MadeDirectory(w) ==
  /\ up /\ w \in writes /\ w.step = "mkdir"
  /\ dirEnsured' = TRUE
  /\ writes' = (writes \ {w}) \cup {[w EXCEPT !.step = "append"]}
  /\ UNCHANGED <<call, recorded, buffer, flushTimer, armed, file, lost, ends, up, faults>>

\* The write has settled, and the flush of the stop that awaited it.
Settled(w, outcome) ==
  /\ writes' = writes \ {w}
  /\ stop' = IF w.by = None THEN stop ELSE [stop EXCEPT ![w.by] = outcome]

Appended(w) ==
  /\ up /\ w \in writes /\ w.step = "append"
  /\ file' = [e \in Events |-> IF e \in w.events THEN file[e] + 1 ELSE file[e]]
  /\ Settled(w, "resolved")
  /\ UNCHANGED <<call, recorded, buffer, flushTimer, armed, dirEnsured, lost, owed, alone, up, faults>>

\* mkdir or the append rejects, and its events are gone.  Nobody awaits the timer's write: the
\* rejection ends the process, unless its host handles those.
WriteFails(w) ==
  /\ up /\ w \in writes
  /\ faults < MaxFaults
  /\ faults' = faults + 1
  /\ lost' = lost \cup w.events
  /\ Settled(w, "rejected")
  /\ up' \in IF w.by = None THEN BOOLEAN ELSE {TRUE}
  /\ UNCHANGED <<call, recorded, buffer, flushTimer, armed, dirEnsured, file, owed, alone>>

-----------------------------------------------------------------------------
(* Calls.                                                                  *)

Answered(c, answer) == call' = [call EXCEPT ![c].step = "done", ![c].answer = answer]

\* A call comes in.  An unknown capability, a tool the caller may not use and a prompt without
\* its required arguments are refused; a tool's arguments are validated; the others are loaded,
\* and a load may throw before it returns a promise.
Arrive(c, kind) ==
  /\ up
  /\ call[c].step = "idle"
  /\ \E step \in {IF kind \in Tools THEN "validate" ELSE "running", "done"} :
       call' = [call EXCEPT ![c] = [kind |-> kind, step |-> step,
                                    answer |-> IF step = "done" THEN "bare" ELSE None]]
  /\ UNCHANGED <<writer, ends, up, faults>>

\* Invalid arguments are refused as well, and an execute that throws before it returns a
\* promise escapes the wrapper.
Validated(c) ==
  /\ up
  /\ call[c].step = "validate"
  /\ Answered(c, "bare") \/ call' = [call EXCEPT ![c].step = "running"]
  /\ UNCHANGED <<writer, ends, up, faults>>

\* withTimeout: the call is answered, and its tool goes on.
TimesOut(c) ==
  /\ up
  /\ call[c].step = "running" /\ call[c].kind \in Tools
  /\ call' = [call EXCEPT ![c].step = "late", ![c].answer = "bare"]
  /\ UNCHANGED <<writer, ends, up, faults>>

Told_AsThrown(kind, ok) == IF ok THEN "result" ELSE "thrown"

\* What the client is told when the capability returns, or rejects.
Told(kind, ok) ==
  CASE ok -> "result"
    [] ~ok /\ kind = "tool" -> "enriched"
    [] ~ok /\ kind \in Loaded -> "rejection"
    [] OTHER -> "bare"

Observed_OnlyReturns(c, ok) ==
  IF ok /\ call[c].kind \in Wrapped THEN RecordEvent(c) ELSE UNCHANGED writer

\* The wrappers record both outcomes.
Observed(c, ok) ==
  IF call[c].kind \in Wrapped THEN RecordEvent(c) ELSE UNCHANGED writer

\* The capability settles: its event is recorded, and the client answered unless it was before.
Settles(c) ==
  /\ up
  /\ call[c].step \in {"running", "late"}
  /\ \E ok \in BOOLEAN :
       /\ Observed(c, ok)
       /\ IF call[c].step = "late"
          THEN call' = [call EXCEPT ![c].step = "done"]
          ELSE Answered(c, Told(call[c].kind, ok))
  /\ UNCHANGED <<ends, up, faults>>

-----------------------------------------------------------------------------
(* The end of stop: its event, and then flush.                             *)

\* flush clears the timer: the one held, or the one that recording stop's event has just armed.
Cleared(was) == IF flushTimer THEN was - 1 ELSE was

\* The calls whose answer says that their capability ran, and that are recorded.
Reported ==
  {c \in Calls : call[c].kind \in Wrapped /\ call[c].answer \in Answers \ {"bare"}}

FlushOnStop(s) ==
  /\ up
  /\ stop[s] = "idle"
  /\ stop' = [stop EXCEPT ![s] = "flush"]
  /\ owed' = [owed EXCEPT ![s] = Reported]
  /\ alone' = IF writes = {} THEN alone \cup {s} ELSE alone
  /\ recorded' = recorded \cup {s}
  /\ flushTimer' = FALSE
  /\ armed' = Cleared(armed)
  /\ WriteBuffer(buffer \cup {s}, s)
  /\ UNCHANGED <<call, dirEnsured, file, lost, up, faults>>

-----------------------------------------------------------------------------
WriteStep(w) == MadeDirectory(w) \/ Appended(w) \/ WriteFails(w)

Next ==
  \/ \E c \in Calls :
       \/ \E kind \in Tools \cup Loaded : Arrive(c, kind)
       \/ Validated(c) \/ TimesOut(c) \/ Settles(c)
  \/ \E s \in Stops : FlushOnStop(s)
  \/ TimerFires
  \/ \E w \in writes : WriteStep(w)

Spec == Init /\ [][Next]_vars

\* Timers fire, and the file system answers.
Fairness == WF_vars(TimerFires) /\ WF_vars(\E w \in writes : WriteStep(w))

FairSpec == Spec /\ Fairness

-----------------------------------------------------------------------------
Writes == [by: Stops \cup {None}, events: SUBSET Events, step: {"mkdir", "append"}]

TypeOK ==
  /\ call \in [Calls -> [kind: Tools \cup Loaded \cup {None}, step: CallSteps,
                         answer: Answers \cup {None}]]
  /\ recorded \subseteq Events
  /\ buffer \subseteq Events
  /\ flushTimer \in BOOLEAN
  /\ armed \in Nat
  /\ dirEnsured \in BOOLEAN
  /\ writes \subseteq Writes
  /\ file \in [Events -> Nat]
  /\ lost \subseteq Events
  /\ stop \in [Stops -> {"idle", "flush", "resolved", "rejected"}]
  /\ owed \in [Stops -> SUBSET Calls]
  /\ alone \subseteq Stops
  /\ up \in BOOLEAN
  /\ faults \in 0..MaxFaults

(* An event is in one place, once: buffered, in one write, in the file, or lost with a write  *)
(* that failed.  However timers, stops and calls interleave none is written twice and none    *)
(* slips between two writes (JsonFileTelemetry.ts:21, the buffer is taken and emptied at      *)
(* once).                                                                                     *)
Accounted ==
  \A e \in Events :
    Cardinality({e} \cap buffer) + Cardinality({w \in writes : e \in w.events})
      + file[e] + Cardinality({e} \cap lost) = IF e \in recorded THEN 1 ELSE 0

(* A stop that resolved leaves in the file every call that was answered by its capability     *)
(* before, and its own event, unless a write was under way when it came to its flush          *)
(* (JsonFileTelemetry.test.ts:22, "writes events to file on flush").                          *)
StopDelivers ==
  \A s \in alone : stop[s] = "resolved" =>
    \A e \in (owed[s] \cup {s}) \ lost : file[e] > 0

(* Every event gets to the file, also one recorded during a write or after the last stop,     *)
(* unless its write fails or the process ends (JsonFileTelemetry.ts:31-40).                   *)
EventuallyWritten ==
  \A e \in Events : e \in recorded ~> (file[e] > 0 \/ e \in lost \/ ~up)

=============================================================================
