-------------------------- MODULE TelemetryProofs --------------------------
(***************************************************************************)
(* What telemetry guarantees for any number of calls and stops: no event   *)
(* is written twice or lost between two writes, and a stop that resolves   *)
(* has delivered what was answered before it.                              *)
(***************************************************************************)
EXTENDS Telemetry, FiniteSetTheorems, TLAPS

\* The reference holds the one timer that is armed.
OneTimer == armed = IF flushTimer THEN 1 ELSE 0

\* A write has something to write, and the stop that awaits it, if any, awaits nothing else.
WritesOK ==
  /\ \A w \in writes : w.events # {} /\ (w.by # None => stop[w.by] = "flush")
  /\ \A w, v \in writes : w.by # None /\ w.by = v.by => w = v

Writing(e) == \E w \in writes : e \in w.events

\* Accounted, without counting.
Once(e) ==
  /\ file[e] \in {0, 1}
  /\ e \in recorded <=> e \in buffer \/ Writing(e) \/ file[e] = 1 \/ e \in lost
  /\ e \in buffer => ~Writing(e) /\ file[e] = 0 /\ e \notin lost
  /\ Writing(e) => file[e] = 0 /\ e \notin lost
  /\ file[e] = 1 => e \notin lost
  /\ \A w, v \in writes : e \in w.events /\ e \in v.events => w = v

\* A call is recorded when it is over, a stop when it comes to its flush, and a call that was
\* answered by its capability is recorded by then.
RecordedOnce ==
  /\ \A c \in Calls : c \in recorded => call[c].step = "done"
  /\ \A s \in Stops : s \in recorded => stop[s] # "idle"
  /\ alone \subseteq recorded
  /\ Reported \subseteq recorded

\* What a stop owes is in the file, lost, or in its own write.
Safe(s, e) == e \in lost \/ file[e] = 1 \/ \E w \in writes : w.by = s /\ e \in w.events

Delivery ==
  \A s \in alone : stop[s] \in {"flush", "resolved"} => \A e \in owed[s] \cup {s} : Safe(s, e)

TelemetryInv ==
  /\ TypeOK /\ OneTimer /\ WritesOK /\ RecordedOnce /\ Delivery
  /\ \A e \in Events : Once(e)

LEMMA InitTelemetry == Init => TelemetryInv
<1> SUFFICES ASSUME Init PROVE TelemetryInv
  OBVIOUS
<1>1. TypeOK
  <2>1. NoCall \in [kind: Tools \cup Loaded \cup {None}, step: CallSteps, answer: Answers \cup {None}]
    BY DEF NoCall, CallSteps
  <2>2. call \in [Calls -> [kind: Tools \cup Loaded \cup {None}, step: CallSteps,
                          answer: Answers \cup {None}]]
    BY <2>1 DEF Init
  <2>3. /\ file \in [Events -> Nat] /\ faults \in 0..MaxFaults /\ armed \in Nat
        /\ stop \in [Stops -> {"idle", "flush", "resolved", "rejected"}]
        /\ owed \in [Stops -> SUBSET Calls]
    BY TelemetryAssumption DEF Init
  <2> QED
    BY <2>2, <2>3 DEF Init, TypeOK
<1>2. RecordedOnce
  BY NoneAssumption DEF Init, RecordedOnce, Reported, NoCall
<1> QED
  BY <1>1, <1>2 DEF Init, TelemetryInv, OneTimer, WritesOK, Delivery, Once, Writing

-----------------------------------------------------------------------------
(* Calls.                                                                  *)

CallRecords == [kind: Tools \cup Loaded \cup {None}, step: CallSteps, answer: Answers \cup {None}]

\* A call that moves on, with what is recorded of it.
CallMoves(c, new) ==
  /\ new \in CallRecords
  /\ call' = [call EXCEPT ![c] = new]
  /\ c \in recorded' => new.step = "done"
  /\ new.kind \in Wrapped /\ new.answer \in Answers \ {"bare"} => c \in recorded'
  /\ UNCHANGED <<ends, up, faults>>

LEMMA CallsRecorded ==
  ASSUME TelemetryInv, NEW c \in Calls, NEW new, CallMoves(c, new),
         recorded \subseteq recorded', recorded' \subseteq recorded \cup {c}
  PROVE  RecordedOnce' /\ call' \in [Calls -> CallRecords]
<1>1. /\ call' \in [Calls -> CallRecords] /\ call'[c] = new
      /\ \A d \in Calls \ {c} : call'[d] = call[d]
  BY DEF CallMoves, TelemetryInv, TypeOK, CallRecords
<1>2. Reported' \subseteq recorded'
  BY <1>1 DEF CallMoves, Reported, TelemetryInv, RecordedOnce
<1> QED
  BY <1>1, <1>2, TelemetryAssumption DEF CallMoves, TelemetryInv, RecordedOnce, ends

\* A step of a call that records nothing.
LEMMA CallOnly ==
  ASSUME TelemetryInv, NEW c \in Calls, NEW new, CallMoves(c, new), UNCHANGED writer
  PROVE  TelemetryInv'
<1>1. RecordedOnce' /\ call' \in [Calls -> CallRecords]
  BY CallsRecorded DEF writer
<1>2. TypeOK'
  BY <1>1 DEF CallMoves, TelemetryInv, TypeOK, CallRecords, writer, ends
<1>3. OneTimer' /\ WritesOK' /\ Delivery' /\ \A e \in Events : Once(e)'
  BY DEF CallMoves, TelemetryInv, OneTimer, WritesOK, Delivery, Safe, Once, Writing, writer, ends
<1> QED
  BY <1>1, <1>2, <1>3 DEF TelemetryInv

LEMMA ArriveKeeps ==
  ASSUME TelemetryInv, NEW c \in Calls, NEW kind \in Tools \cup Loaded, Arrive(c, kind)
  PROVE  TelemetryInv'
<1>1. PICK step \in {IF kind \in Tools THEN "validate" ELSE "running", "done"} :
        call' = [call EXCEPT ![c] = [kind |-> kind, step |-> step,
                                     answer |-> IF step = "done" THEN "bare" ELSE None]]
  BY DEF Arrive
<1>2. PICK new : new = [kind |-> kind, step |-> step,
                        answer |-> IF step = "done" THEN "bare" ELSE None]
  OBVIOUS
<1>3. new \in CallRecords /\ new.answer \in {None, "bare"}
  BY <1>1, <1>2 DEF CallRecords, CallSteps, Answers
<1>4. c \notin recorded
  BY DEF Arrive, TelemetryInv, RecordedOnce
<1>5. CallMoves(c, new)
  BY <1>1, <1>2, <1>3, <1>4, NoneAssumption DEF CallMoves, Arrive, writer
<1> QED
  BY <1>5, CallOnly DEF Arrive

\* The steps of a tool call before it settles.
LEMMA BeforeKeeps ==
  ASSUME TelemetryInv, NEW c \in Calls, Validated(c) \/ TimesOut(c)
  PROVE  TelemetryInv'
<1>1. call[c] \in CallRecords /\ call[c].step \in {"validate", "running"} /\ c \notin recorded
      /\ UNCHANGED <<writer, ends, up, faults>>
  BY DEF Validated, TimesOut, TelemetryInv, TypeOK, CallRecords, RecordedOnce
<1>2. /\ ~(call[c].kind \in Wrapped /\ call[c].answer \in Answers \ {"bare"})
      /\ recorded' = recorded
  BY <1>1 DEF TelemetryInv, RecordedOnce, Reported, writer
<1>3. CASE Answered(c, "bare")
  <2>1. PICK new : new = [call[c] EXCEPT !.step = "done", !.answer = "bare"]
    OBVIOUS
  <2>2. new \in CallRecords /\ new.answer = "bare" /\ call' = [call EXCEPT ![c] = new]
    BY <1>1, <1>3, <2>1 DEF Answered, CallRecords, CallSteps, Answers
  <2> QED
    BY <1>1, <1>2, <2>2, CallOnly DEF CallMoves
<1>4. CASE call' = [call EXCEPT ![c].step = "running"]
  <2>1. PICK new : new = [call[c] EXCEPT !.step = "running"]
    OBVIOUS
  <2>2. /\ new \in CallRecords /\ new.answer = call[c].answer /\ new.kind = call[c].kind
        /\ call' = [call EXCEPT ![c] = new]
    BY <1>1, <1>4, <2>1 DEF CallRecords, CallSteps
  <2> QED
    BY <1>1, <1>2, <2>2, CallOnly DEF CallMoves
<1>5. CASE call' = [call EXCEPT ![c].step = "late", ![c].answer = "bare"]
  <2>1. PICK new : new = [call[c] EXCEPT !.step = "late", !.answer = "bare"]
    OBVIOUS
  <2>2. new \in CallRecords /\ new.answer = "bare" /\ call' = [call EXCEPT ![c] = new]
    BY <1>1, <1>5, <2>1 DEF CallRecords, CallSteps, Answers
  <2> QED
    BY <1>1, <1>2, <2>2, CallOnly DEF CallMoves
<1> QED
  BY <1>3, <1>4, <1>5 DEF Validated, TimesOut

LEMMA SettlesKeeps ==
  ASSUME TelemetryInv, NEW c \in Calls, Settles(c)
  PROVE  TelemetryInv'
<1>1. call[c] \in CallRecords /\ call[c].step \in {"running", "late"} /\ c \notin recorded
      /\ UNCHANGED <<ends, up, faults>>
  BY DEF Settles, TelemetryInv, TypeOK, CallRecords, RecordedOnce
<1>2. ~(call[c].kind \in Wrapped /\ call[c].answer \in Answers \ {"bare"})
  BY <1>1 DEF TelemetryInv, RecordedOnce, Reported
<1>3. PICK ok \in BOOLEAN :
        /\ Observed(c, ok)
        /\ IF call[c].step = "late"
           THEN call' = [call EXCEPT ![c].step = "done"]
           ELSE Answered(c, Told(call[c].kind, ok))
  BY DEF Settles
<1>4. PICK told : told = Told(call[c].kind, ok)
  OBVIOUS
<1>5. told \in Answers
  BY <1>4 DEF Told, Answers
<1>6. \E new \in CallRecords : /\ call' = [call EXCEPT ![c] = new]
                               /\ new.kind = call[c].kind /\ new.step = "done"
                               /\ new.answer = call[c].answer \/ call[c].step # "late"
  <2>1. CASE call[c].step = "late"
    <3>1. PICK new : new = [call[c] EXCEPT !.step = "done"]
      OBVIOUS
    <3>2. new \in CallRecords /\ new.answer = call[c].answer /\ new.kind = call[c].kind
          /\ new.step = "done" /\ call' = [call EXCEPT ![c] = new]
      BY <1>1, <1>3, <2>1, <3>1 DEF CallRecords, CallSteps
    <3> QED
      BY <3>2
  <2>2. CASE call[c].step # "late"
    <3>1. PICK new : new = [call[c] EXCEPT !.step = "done", !.answer = told]
      OBVIOUS
    <3>2. new \in CallRecords /\ new.kind = call[c].kind
          /\ new.step = "done" /\ call' = [call EXCEPT ![c] = new]
      BY <1>1, <1>3, <1>4, <1>5, <2>2, <3>1 DEF Answered, CallRecords, CallSteps
    <3> QED
      BY <2>2, <3>2
  <2> QED
    BY <2>1, <2>2
<1>7. PICK new \in CallRecords : /\ call' = [call EXCEPT ![c] = new]
                                 /\ new.kind = call[c].kind /\ new.step = "done"
  BY <1>6
<1>8. CASE call[c].kind \notin Wrapped
  <2>1. CallMoves(c, new) /\ UNCHANGED writer
    BY <1>1, <1>3, <1>7, <1>8 DEF CallMoves, Observed
  <2> QED
    BY <2>1, CallOnly
<1>9. CASE call[c].kind \in Wrapped
  <2>1. RecordEvent(c) /\ Scheduled /\ recorded' = recorded \cup {c} /\ buffer' = buffer \cup {c}
        /\ UNCHANGED <<dirEnsured, writes, file, lost>>
    BY <1>3, <1>9 DEF Observed, RecordEvent
  <2>2. RecordedOnce' /\ call' \in [Calls -> CallRecords]
    <3>1. CallMoves(c, new)
      BY <1>1, <1>7, <2>1 DEF CallMoves
    <3> QED
      BY <2>1, <3>1, CallsRecorded
  <2>3. OneTimer' /\ armed' \in Nat /\ flushTimer' \in BOOLEAN
    BY <2>1 DEF Scheduled, TelemetryInv, OneTimer, TypeOK
  <2>4. TypeOK'
    BY <1>1, <2>1, <2>2, <2>3 DEF TelemetryInv, TypeOK, CallRecords, Events, ends
  <2>5. WritesOK' /\ Delivery'
    BY <1>1, <2>1 DEF TelemetryInv, WritesOK, Delivery, Safe, ends
  <2>6. \A e \in Events : Once(e)'
    BY <1>1, <2>1 DEF TelemetryInv, Once, Writing
  <2> QED
    BY <2>2, <2>3, <2>4, <2>5, <2>6 DEF TelemetryInv
<1> QED
  BY <1>8, <1>9

-----------------------------------------------------------------------------
(* Writes.                                                                 *)

\* A write that takes the buffer, and the event recorded with it, if any.
LEMMA Takes ==
  ASSUME TelemetryInv, NEW extra, extra \subseteq Stops \ recorded, NEW by \in Stops \cup {None},
         WriteBuffer(buffer \cup extra, by), recorded' = recorded \cup extra,
         UNCHANGED <<file, lost>>
  PROVE  /\ buffer' = {} /\ writes' \subseteq Writes /\ writes \subseteq writes'
         /\ \A w \in writes' \ writes : w.by = by /\ w.events = buffer \cup extra /\ w.events # {}
         /\ \A w, v \in writes' \ writes : w = v
         /\ buffer \cup extra # {} => \E w \in writes' : w.by = by /\ w.events = buffer \cup extra
         /\ \A e \in Events : Once(e)'
<1>1. PICK new : new = [by |-> by, events |-> buffer \cup extra,
                        step |-> IF dirEnsured THEN "append" ELSE "mkdir"]
  OBVIOUS
<1>2. new \in Writes /\ new.by = by /\ new.events = buffer \cup extra
  BY <1>1 DEF Writes, Events, TelemetryInv, TypeOK
<1>3. buffer' = {} /\ writes' = IF buffer \cup extra = {} THEN writes ELSE writes \cup {new}
  BY <1>1 DEF WriteBuffer, Emptied
<1>4. \A e \in Events : Once(e)'
  <2>1. SUFFICES ASSUME NEW e \in Events PROVE Once(e)'
    OBVIOUS
  <2>2. Once(e)
    BY DEF TelemetryInv
  <2>3. CASE buffer \cup extra = {}
    BY <1>3, <2>2, <2>3 DEF Once, Writing
  <2>4. CASE buffer \cup extra # {}
    <3>1. writes' = writes \cup {new}
      BY <1>3, <2>4
    <3>2. Writing(e)' <=> Writing(e) \/ e \in buffer \cup extra
      BY <1>2, <3>1 DEF Writing
    <3>3. e \in extra => ~Writing(e) /\ e \notin buffer /\ file[e] = 0 /\ e \notin lost
      BY <2>2 DEF Once
    <3>4. \A w, v \in writes' : e \in w.events /\ e \in v.events => w = v
      BY <1>2, <2>2, <3>1, <3>3 DEF Once, Writing
    <3> QED
      BY <1>3, <2>2, <3>2, <3>3, <3>4 DEF Once
  <2> QED
    BY <2>3, <2>4
<1> QED
  BY <1>2, <1>3, <1>4 DEF TelemetryInv, TypeOK

LEMMA TimerFiresKeeps ==
  ASSUME TelemetryInv, TimerFires
  PROVE  TelemetryInv'
<1>1. /\ armed > 0 /\ armed' = armed - 1 /\ flushTimer' = FALSE
      /\ WriteBuffer(buffer, None)
      /\ UNCHANGED <<call, recorded, dirEnsured, file, lost, stop, owed, alone, up, faults>>
  BY DEF TimerFires, Fired, ends
<1>2. WriteBuffer(buffer \cup {}, None) /\ recorded' = recorded \cup {}
  BY <1>1 DEF WriteBuffer, Emptied
<1>3. /\ buffer' = {} /\ writes' \subseteq Writes /\ writes \subseteq writes'
      /\ \A w \in writes' \ writes : w.by = None /\ w.events # {}
      /\ \A e \in Events : Once(e)'
  <2>1. {} \subseteq Stops \ recorded /\ None \in Stops \cup {None} /\ UNCHANGED <<file, lost>>
    BY <1>1
  <2> QED
    BY <1>2, <2>1, Takes
<1>4. OneTimer' /\ armed' \in Nat
  BY <1>1 DEF TelemetryInv, TypeOK, OneTimer
<1>5. TypeOK'
  BY <1>1, <1>3, <1>4 DEF TelemetryInv, TypeOK
<1>6. WritesOK'
  BY <1>1, <1>3 DEF TelemetryInv, WritesOK
<1>7. RecordedOnce' /\ Delivery'
  BY <1>1, <1>3 DEF TelemetryInv, RecordedOnce, Reported, Delivery, Safe
<1> QED
  BY <1>3, <1>4, <1>5, <1>6, <1>7 DEF TelemetryInv

LEMMA FlushOnStopKeeps ==
  ASSUME TelemetryInv, NEW s \in Stops, FlushOnStop(s)
  PROVE  TelemetryInv'
<1>1. /\ stop[s] = "idle" /\ stop' = [stop EXCEPT ![s] = "flush"]
      /\ owed' = [owed EXCEPT ![s] = Reported]
      /\ alone' = IF writes = {} THEN alone \cup {s} ELSE alone
      /\ recorded' = recorded \cup {s}
      /\ flushTimer' = FALSE /\ armed' = Cleared(armed)
      /\ WriteBuffer(buffer \cup {s}, s)
      /\ UNCHANGED <<call, dirEnsured, file, lost, up, faults>>
  BY DEF FlushOnStop
<1>2. s \notin recorded /\ s # None /\ s \in Events /\ s \notin Calls /\ s \notin alone
  BY <1>1, TelemetryAssumption DEF TelemetryInv, RecordedOnce, Events
<1>3. /\ buffer' = {} /\ writes' \subseteq Writes /\ writes \subseteq writes'
      /\ \A w \in writes' \ writes : w.by = s /\ w.events # {}
      /\ \A w, v \in writes' \ writes : w = v
      /\ \E w \in writes' : w.by = s /\ w.events = buffer \cup {s}
      /\ \A e \in Events : Once(e)'
  <2>1. {s} \subseteq Stops \ recorded /\ buffer \cup {s} # {} /\ UNCHANGED <<file, lost>>
    BY <1>1, <1>2
  <2> QED
    BY <1>1, <2>1, Takes
<1>4. /\ stop' \in [Stops -> {"idle", "flush", "resolved", "rejected"}]
      /\ stop'[s] = "flush" /\ \A t \in Stops \ {s} : stop'[t] = stop[t]
      /\ owed' \in [Stops -> SUBSET Calls]
      /\ owed'[s] = Reported /\ \A t \in Stops \ {s} : owed'[t] = owed[t]
  BY <1>1 DEF TelemetryInv, TypeOK, Reported
<1>5. OneTimer' /\ armed' \in Nat
  BY <1>1 DEF TelemetryInv, TypeOK, OneTimer, Cleared
<1>6. TypeOK'
  BY <1>1, <1>2, <1>3, <1>4, <1>5 DEF TelemetryInv, TypeOK
<1>7. WritesOK'
  <2>1. \A w \in writes : w.by # s
    BY <1>1, <1>2 DEF TelemetryInv, WritesOK
  <2>2. \A w \in writes : w.by # None => w.by \in Stops
    BY DEF TelemetryInv, TypeOK, Writes
  <2> QED
    BY <1>2, <1>3, <1>4, <2>1, <2>2 DEF TelemetryInv, WritesOK
<1>8. RecordedOnce'
  <2>1. Reported' = Reported
    BY <1>1 DEF Reported
  <2> QED
    BY <1>1, <1>2, <1>4, <2>1 DEF TelemetryInv, RecordedOnce
<1>9. Delivery'
  <2>1. SUFFICES ASSUME NEW t \in alone', stop'[t] \in {"flush", "resolved"},
                        NEW e \in owed'[t] \cup {t}
                 PROVE  Safe(t, e)'
    BY DEF Delivery
  <2>2. CASE t = s
    <3>1. writes = {} /\ e \in Reported \cup {s} /\ e \in Events
      BY <1>1, <1>2, <1>4, <2>1, <2>2 DEF Reported, Events
    <3>2. e \in recorded \cup {s} /\ ~Writing(e) /\ Once(e)
      BY <3>1 DEF TelemetryInv, RecordedOnce, Writing
    <3>3. e \in buffer \cup {s} \/ file[e] = 1 \/ e \in lost
      BY <3>2 DEF Once
    <3> QED
      BY <1>1, <1>3, <2>2, <3>3 DEF Safe
  <2>3. CASE t # s
    <3>1. t \in alone /\ t \in Stops /\ stop[t] = stop'[t] /\ owed[t] = owed'[t]
      BY <1>1, <1>4, <2>1, <2>3 DEF TelemetryInv, TypeOK
    <3>2. Safe(t, e)
      BY <2>1, <3>1 DEF TelemetryInv, Delivery
    <3> QED
      BY <1>1, <1>3, <3>2 DEF Safe
  <2> QED
    BY <2>2, <2>3
<1> QED
  BY <1>3, <1>5, <1>6, <1>7, <1>8, <1>9 DEF TelemetryInv

LEMMA MadeDirectoryKeeps ==
  ASSUME TelemetryInv, NEW w \in writes, MadeDirectory(w)
  PROVE  TelemetryInv'
<1>1. PICK new : new = [w EXCEPT !.step = "append"]
  OBVIOUS
<1>2. /\ dirEnsured' = TRUE /\ writes' = (writes \ {w}) \cup {new}
      /\ UNCHANGED <<call, recorded, buffer, flushTimer, armed, file, lost, stop, owed, alone,
                     up, faults>>
  BY <1>1 DEF MadeDirectory, ends
<1>3. w \in Writes /\ new \in Writes /\ new.by = w.by /\ new.events = w.events
  BY <1>1 DEF TelemetryInv, TypeOK, Writes
<1>4. TypeOK'
  BY <1>2, <1>3 DEF TelemetryInv, TypeOK
<1>5. OneTimer' /\ RecordedOnce'
  BY <1>2 DEF TelemetryInv, OneTimer, RecordedOnce, Reported
<1>6. WritesOK'
  BY <1>2, <1>3 DEF TelemetryInv, WritesOK
<1>7. Delivery'
  <2>1. \A s, e : Safe(s, e) => Safe(s, e)'
    BY <1>2, <1>3 DEF Safe
  <2> QED
    BY <1>2, <2>1 DEF TelemetryInv, Delivery
<1>8. \A e \in Events : Once(e)'
  <2>1. SUFFICES ASSUME NEW e \in Events PROVE Once(e)'
    OBVIOUS
  <2>2. Once(e)
    BY DEF TelemetryInv
  <2>3. Writing(e)' <=> Writing(e)
    BY <1>2, <1>3 DEF Writing
  <2>4. \A u, v \in writes' : e \in u.events /\ e \in v.events => u = v
    BY <1>2, <1>3, <2>2 DEF Once
  <2> QED
    BY <1>2, <2>2, <2>3, <2>4 DEF Once
<1> QED
  BY <1>4, <1>5, <1>6, <1>7, <1>8 DEF TelemetryInv

\* A write that settled is over, and so is the flush of the stop that awaited it.
LEMMA SettledKeeps ==
  ASSUME TelemetryInv, NEW w \in writes, NEW outcome \in {"resolved", "rejected"},
         Settled(w, outcome)
  PROVE  /\ writes' = writes \ {w} /\ WritesOK'
         /\ stop' \in [Stops -> {"idle", "flush", "resolved", "rejected"}]
         /\ \A s \in Stops : stop'[s] # stop[s] => s = w.by /\ stop'[s] = outcome /\ stop[s] # "idle"
         /\ w.by \in Stops => stop'[w.by] = outcome
<1>1. w \in Writes /\ writes' = writes \ {w}
      /\ stop' = IF w.by = None THEN stop ELSE [stop EXCEPT ![w.by] = outcome]
  BY DEF Settled, TelemetryInv, TypeOK
<1>2. /\ stop' \in [Stops -> {"idle", "flush", "resolved", "rejected"}]
      /\ \A s \in Stops : stop'[s] # stop[s] => s = w.by /\ stop'[s] = outcome /\ s # None
      /\ w.by \in Stops => stop'[w.by] = outcome
  BY <1>1, TelemetryAssumption DEF TelemetryInv, TypeOK, Writes
<1>3. w.by # None => stop[w.by] = "flush"
  BY DEF TelemetryInv, WritesOK
<1>4. WritesOK'
  <2>1. SUFFICES ASSUME NEW v \in writes \ {w} PROVE v.by # None => stop'[v.by] = "flush"
    BY <1>1 DEF TelemetryInv, WritesOK
  <2>2. v \in Writes /\ (v.by # None => v.by # w.by /\ stop[v.by] = "flush")
    BY DEF TelemetryInv, TypeOK, WritesOK
  <2> QED
    BY <1>2, <2>2 DEF Writes
<1> QED
  BY <1>1, <1>2, <1>3, <1>4

LEMMA AppendedKeeps ==
  ASSUME TelemetryInv, NEW w \in writes, Appended(w)
  PROVE  TelemetryInv'
<1>1. /\ file' = [e \in Events |-> IF e \in w.events THEN file[e] + 1 ELSE file[e]]
      /\ Settled(w, "resolved")
      /\ UNCHANGED <<call, recorded, buffer, flushTimer, armed, dirEnsured, lost, owed, alone,
                     up, faults>>
  BY DEF Appended
<1>2. /\ writes' = writes \ {w} /\ WritesOK'
      /\ stop' \in [Stops -> {"idle", "flush", "resolved", "rejected"}]
      /\ \A s \in Stops :
           stop'[s] # stop[s] => s = w.by /\ stop'[s] = "resolved" /\ stop[s] # "idle"
      /\ w.by \in Stops => stop'[w.by] = "resolved"
  BY <1>1, SettledKeeps
<1>3. w \in Writes /\ w.events \subseteq Events
  BY DEF TelemetryInv, TypeOK, Writes
<1>4. TypeOK'
  <2>1. file' \in [Events -> Nat] /\ writes' \subseteq Writes
    BY <1>1, <1>2 DEF TelemetryInv, TypeOK
  <2> QED
    BY <1>1, <1>2, <2>1 DEF TelemetryInv, TypeOK
<1>5. OneTimer' /\ RecordedOnce'
  BY <1>1, <1>2 DEF TelemetryInv, OneTimer, RecordedOnce, Reported
<1>6. ASSUME NEW e \in Events
      PROVE  /\ Once(e)' /\ (e \in w.events => file'[e] = 1)
             /\ (e \notin w.events => file'[e] = file[e])
  <2>1. Once(e)
    BY DEF TelemetryInv
  <2>2. CASE e \in w.events
    <3>1. Writing(e) /\ file[e] = 0 /\ file'[e] = 1 /\ e \notin buffer /\ e \notin lost
      BY <1>1, <2>1, <2>2 DEF Once, Writing
    <3>2. ~Writing(e)'
      BY <1>2, <2>1, <2>2 DEF Once, Writing
    <3> QED
      BY <1>1, <1>2, <2>1, <2>2, <3>1, <3>2 DEF Once
  <2>3. CASE e \notin w.events
    <3>1. file'[e] = file[e] /\ (Writing(e)' <=> Writing(e))
      BY <1>1, <1>2, <2>3 DEF Writing
    <3> QED
      BY <1>1, <1>2, <2>1, <2>3, <3>1 DEF Once
  <2> QED
    BY <2>2, <2>3
<1>7. Delivery'
  <2>1. SUFFICES ASSUME NEW s \in alone', stop'[s] \in {"flush", "resolved"},
                        NEW e \in owed'[s] \cup {s}
                 PROVE  Safe(s, e)'
    BY DEF Delivery
  <2>2. s \in alone /\ s \in Stops /\ e \in owed[s] \cup {s} /\ e \in Events
    BY <1>1, <2>1 DEF TelemetryInv, TypeOK, Events
  <2>3. stop[s] \in {"flush", "resolved"}
    <3>1. stop[s] = stop'[s] \/ s = w.by
      BY <1>2, <2>2
    <3>2. s = w.by => stop[s] = "flush"
      BY <2>2, TelemetryAssumption DEF TelemetryInv, WritesOK
    <3> QED
      BY <2>1, <3>1, <3>2
  <2>4. Safe(s, e)
    BY <2>2, <2>3 DEF TelemetryInv, Delivery
  <2> QED
    BY <1>1, <1>2, <1>6, <2>2, <2>4 DEF Safe
<1> QED
  BY <1>2, <1>4, <1>5, <1>6, <1>7 DEF TelemetryInv

LEMMA WriteFailsKeeps ==
  ASSUME TelemetryInv, NEW w \in writes, WriteFails(w)
  PROVE  TelemetryInv'
<1>1. /\ faults < MaxFaults /\ faults' = faults + 1
      /\ lost' = lost \cup w.events
      /\ Settled(w, "rejected")
      /\ up' \in BOOLEAN
      /\ UNCHANGED <<call, recorded, buffer, flushTimer, armed, dirEnsured, file, owed, alone>>
  BY DEF WriteFails
<1>2. /\ writes' = writes \ {w} /\ WritesOK'
      /\ stop' \in [Stops -> {"idle", "flush", "resolved", "rejected"}]
      /\ \A s \in Stops :
           stop'[s] # stop[s] => s = w.by /\ stop'[s] = "rejected" /\ stop[s] # "idle"
      /\ w.by \in Stops => stop'[w.by] = "rejected"
  BY <1>1, SettledKeeps
<1>3. w \in Writes /\ w.events \subseteq Events
  BY DEF TelemetryInv, TypeOK, Writes
<1>4. TypeOK'
  <2>1. faults' \in 0..MaxFaults /\ lost' \subseteq Events /\ writes' \subseteq Writes
    BY <1>1, <1>2, <1>3, TelemetryAssumption DEF TelemetryInv, TypeOK
  <2> QED
    BY <1>1, <1>2, <2>1 DEF TelemetryInv, TypeOK
<1>5. OneTimer' /\ RecordedOnce'
  BY <1>1, <1>2 DEF TelemetryInv, OneTimer, RecordedOnce, Reported
<1>6. \A e \in Events : Once(e)'
  <2>1. SUFFICES ASSUME NEW e \in Events PROVE Once(e)'
    OBVIOUS
  <2>2. Once(e)
    BY DEF TelemetryInv
  <2>3. CASE e \in w.events
    <3>1. Writing(e) /\ file[e] = 0 /\ e \notin buffer
      BY <2>2, <2>3 DEF Once, Writing
    <3>2. ~Writing(e)'
      BY <1>2, <2>2, <2>3 DEF Once, Writing
    <3> QED
      BY <1>1, <1>2, <2>2, <2>3, <3>1, <3>2 DEF Once
  <2>4. CASE e \notin w.events
    <3>1. (Writing(e)' <=> Writing(e)) /\ (e \in lost' <=> e \in lost)
      BY <1>1, <1>2, <2>4 DEF Writing
    <3> QED
      BY <1>1, <1>2, <2>2, <3>1 DEF Once
  <2> QED
    BY <2>3, <2>4
<1>7. Delivery'
  <2>1. SUFFICES ASSUME NEW s \in alone', stop'[s] \in {"flush", "resolved"},
                        NEW e \in owed'[s] \cup {s}
                 PROVE  Safe(s, e)'
    BY DEF Delivery
  <2>2. s \in alone /\ s \in Stops /\ e \in owed[s] \cup {s}
    BY <1>1, <2>1 DEF TelemetryInv, TypeOK
  <2>3. s # w.by /\ stop[s] \in {"flush", "resolved"}
    BY <1>2, <2>1, <2>2
  <2>4. Safe(s, e)
    BY <2>2, <2>3 DEF TelemetryInv, Delivery
  <2> QED
    BY <1>1, <1>2, <2>3, <2>4 DEF Safe
<1> QED
  BY <1>2, <1>4, <1>5, <1>6, <1>7 DEF TelemetryInv

-----------------------------------------------------------------------------
(* The behaviours.                                                         *)

LEMMA StepTelemetry == TelemetryInv /\ [Next]_vars => TelemetryInv'
<1> SUFFICES ASSUME TelemetryInv, [Next]_vars PROVE TelemetryInv'
  OBVIOUS
<1>1. CASE UNCHANGED vars
  <2>1. UNCHANGED <<call, recorded, buffer, flushTimer, armed, dirEnsured, writes, file, lost,
                    stop, owed, alone, up, faults>>
    BY <1>1 DEF vars, writer, ends
  <2> QED
    BY <2>1 DEF TelemetryInv, TypeOK, OneTimer, WritesOK, RecordedOnce, Reported, Delivery, Safe,
                Once, Writing
<1>2. ASSUME NEW c \in Calls,
             (\E kind \in Tools \cup Loaded : Arrive(c, kind))
               \/ Validated(c) \/ TimesOut(c) \/ Settles(c)
      PROVE  TelemetryInv'
  BY <1>2, ArriveKeeps, BeforeKeeps, SettlesKeeps
<1>3. ASSUME NEW s \in Stops, FlushOnStop(s) PROVE TelemetryInv'
  BY <1>3, FlushOnStopKeeps
<1>4. CASE TimerFires
  BY <1>4, TimerFiresKeeps
<1>5. ASSUME NEW w \in writes, WriteStep(w) PROVE TelemetryInv'
  BY <1>5, MadeDirectoryKeeps, AppendedKeeps, WriteFailsKeeps DEF WriteStep
<1> QED
  BY <1>1, <1>2, <1>3, <1>4, <1>5 DEF Next

LEMMA SpecTelemetry == Spec => []TelemetryInv
<1> QED
  BY InitTelemetry, StepTelemetry, PTL DEF Spec

(* The state keeps its type, whatever calls, stops, timers and failures do.                   *)
THEOREM TypeCorrect == Spec => []TypeOK
<1>1. TelemetryInv => TypeOK
  BY DEF TelemetryInv
<1> QED
  BY <1>1, SpecTelemetry, PTL

\* What an event is counted as by Accounted.
LEMMA OnceCounted ==
  ASSUME NEW e \in Events, Once(e)
  PROVE  Cardinality({e} \cap buffer) + Cardinality({w \in writes : e \in w.events})
           + file[e] + Cardinality({e} \cap lost) = IF e \in recorded THEN 1 ELSE 0
<1>1. Cardinality({}) = 0 /\ \A x : Cardinality({x}) = 1
  BY FS_EmptySet, FS_Singleton
<1>2. Cardinality({e} \cap buffer) = IF e \in buffer THEN 1 ELSE 0
  <2>1. {e} \cap buffer = IF e \in buffer THEN {e} ELSE {}
    OBVIOUS
  <2> QED
    BY <1>1, <2>1
<1>3. Cardinality({e} \cap lost) = IF e \in lost THEN 1 ELSE 0
  <2>1. {e} \cap lost = IF e \in lost THEN {e} ELSE {}
    OBVIOUS
  <2> QED
    BY <1>1, <2>1
<1>4. Cardinality({w \in writes : e \in w.events}) = IF Writing(e) THEN 1 ELSE 0
  <2>1. CASE Writing(e)
    <3>1. PICK w \in writes : e \in w.events
      BY <2>1 DEF Writing
    <3>2. {v \in writes : e \in v.events} = {w}
      BY <3>1 DEF Once
    <3> QED
      BY <1>1, <2>1, <3>2
  <2>2. CASE ~Writing(e)
    <3>1. {v \in writes : e \in v.events} = {}
      BY <2>2 DEF Writing
    <3> QED
      BY <1>1, <2>2, <3>1
  <2> QED
    BY <2>1, <2>2
<1> QED
  BY <1>2, <1>3, <1>4 DEF Once

(* However the timer, the stops and the calls interleave, and whichever writes fail, an event *)
(* that was recorded is in one place, once: none is written twice and none slips between two  *)
(* writes (JsonFileTelemetry.ts:21).                                                          *)
THEOREM AllAccounted == Spec => []Accounted
<1>1. TelemetryInv => Accounted
  BY OnceCounted DEF TelemetryInv, Accounted
<1> QED
  BY <1>1, SpecTelemetry, PTL

(* A stop whose flush began with no write under way and resolved has put in the file its own  *)
(* event and every call that was answered by its capability before, but for those of writes   *)
(* that failed.                                                                               *)
THEOREM Delivers == Spec => []StopDelivers
<1>1. TelemetryInv => StopDelivers
  <2> SUFFICES ASSUME TelemetryInv, NEW s \in alone, stop[s] = "resolved",
                      NEW e \in (owed[s] \cup {s}) \ lost
               PROVE  file[e] > 0
    BY DEF StopDelivers
  <2>1. Safe(s, e)
    BY DEF TelemetryInv, Delivery
  <2>2. \A w \in writes : w.by # s
    BY TelemetryAssumption DEF TelemetryInv, TypeOK, WritesOK
  <2> QED
    BY <2>1, <2>2 DEF Safe
<1> QED
  BY <1>1, SpecTelemetry, PTL

=============================================================================
