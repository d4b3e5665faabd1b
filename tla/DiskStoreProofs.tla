--------------------------- MODULE DiskStoreProofs ---------------------------
(***************************************************************************)
(* Proofs about DiskStore, for any number of callers and cleanup timers,   *)
(* any bounds and any lifetimes: its file operations implement Slot, and   *)
(* no value is taken twice.                                                *)
(***************************************************************************)
EXTENDS DiskStore, TLAPS

\* Who may be where, and what a removal goes by.
Placed ==
  \A p \in Procs :
    /\ pc[p] \in {"rename", "readClaim", "rmClaim"} => p \in Callers
    /\ pc[p] = "sweep" => p \in Timers
    /\ pc[p] = "rmStale" => req[p].name \in Names /\ (p \in Callers => req[p].name = File)
    /\ pc[p] = "rename" => staging[p] # None

\* Temporary files hold values of their own, and none that was not drawn.
Numbered ==
  \A p, q \in Callers :
    staging[p] # None =>
      /\ staging[p].value <= saves
      /\ staging[q] # None /\ p # q => staging[p].value # staging[q].value

(* Types, who may be where, and that each value is in one temporary file at most.             *)
Sound == TypeOK /\ Placed /\ Numbered

-----------------------------------------------------------------------------
LEMMA NoLocalsType == NoLocals \in Locals /\ NoLocals.name = None /\ NoLocals.entry = None
BY DEF NoLocals, Locals

LEMMA InitSound == Init => Sound
<1> SUFFICES ASSUME Init PROVE Sound
  OBVIOUS
<1>1. TypeOK
  BY DiskStoreAssumption, NoLocalsType DEF Init, TypeOK, Labels
<1> QED
  BY <1>1 DEF Init, Sound, Placed, Numbered, Procs

\* Steps that leave the temporary files alone keep Numbered.
LEMMA StagingKept ==
  ASSUME Sound, staging' = staging, saves' = saves
  PROVE  Numbered'
BY DEF Sound, Numbered

\* A process that goes to a label with new locals leaves the others where they are.
LEMMA GotoPlaced ==
  ASSUME Sound, staging' = staging, NEW p \in Procs, NEW label \in Labels, NEW locals \in Locals,
         Goto(p, label, locals),
         label \in {"rename", "readClaim", "rmClaim"} => p \in Callers,
         label = "sweep" => p \in Timers,
         label = "rmStale" => locals.name \in Names /\ (p \in Callers => locals.name = File),
         label # "rename"
  PROVE  /\ pc' \in [Procs -> Labels] /\ req' \in [Procs -> Locals]
         /\ Placed'
<1>1. pc' = [pc EXCEPT ![p] = label] /\ req' = [req EXCEPT ![p] = locals]
  BY DEF Goto
<1>2. pc' \in [Procs -> Labels] /\ req' \in [Procs -> Locals]
  BY <1>1 DEF Sound, TypeOK
<1>3. ASSUME NEW q \in Procs
      PROVE  /\ pc'[q] \in {"rename", "readClaim", "rmClaim"} => q \in Callers
             /\ pc'[q] = "sweep" => q \in Timers
             /\ pc'[q] = "rmStale" => req'[q].name \in Names /\ (q \in Callers => req'[q].name = File)
             /\ pc'[q] = "rename" => staging'[q] # None
  <2>1. CASE q = p
    BY <1>1, <2>1 DEF Sound, TypeOK
  <2>2. CASE q # p
    BY <1>1, <2>2 DEF Sound, TypeOK, Placed
  <2> QED
    BY <2>1, <2>2
<1> QED
  BY <1>2, <1>3 DEF Placed

LEMMA EndPlaced ==
  ASSUME Sound, NEW p \in Procs, End(p),
         staging' = [staging EXCEPT ![p] = None] \/ staging' = staging
  PROVE  /\ pc' \in [Procs -> Labels] /\ req' \in [Procs -> Locals]
         /\ Placed'
<1>1. pc' = [pc EXCEPT ![p] = "idle"] /\ req' = [req EXCEPT ![p] = NoLocals]
  BY DEF End, Goto
<1>2. pc' \in [Procs -> Labels] /\ req' \in [Procs -> Locals]
  BY <1>1, NoLocalsType DEF Sound, TypeOK, Labels
<1>3. ASSUME NEW q \in Procs
      PROVE  /\ pc'[q] \in {"rename", "readClaim", "rmClaim"} => q \in Callers
             /\ pc'[q] = "sweep" => q \in Timers
             /\ pc'[q] = "rmStale" => req'[q].name \in Names /\ (q \in Callers => req'[q].name = File)
             /\ pc'[q] = "rename" => staging'[q] # None
  <2>1. CASE q = p
    BY <1>1, <2>1 DEF Sound, TypeOK
  <2>2. CASE q # p
    BY <1>1, <2>2 DEF Sound, TypeOK, Placed
  <2> QED
    BY <2>1, <2>2
<1> QED
  BY <1>2, <1>3 DEF Placed

LEMMA SaveWriteSound ==
  ASSUME Sound, NEW p \in Callers, NEW ttl \in Ttls, SaveWrite(p, ttl)
  PROVE  Sound'
<1> DEFINE entry == [value |-> saves + 1, expiresAt |-> ExpiresAtFor(ttl)]
<1>1. entry \in Entry /\ entry # None /\ saves' = saves + 1 /\ saves + 1 \in Values
  BY DiskStoreAssumption, NoneAssumption
  DEF Sound, TypeOK, SaveWrite, Entry, Values, ExpiresAtFor, NoExpiry
<1>2. /\ staging[p] = None
      /\ staging' = [staging EXCEPT ![p] = entry]
      /\ pc' = [pc EXCEPT ![p] = "rename"] /\ req' = [req EXCEPT ![p] = NoLocals]
  BY DEF SaveWrite, Goto
<1>3. TypeOK'
  BY <1>1, <1>2, NoLocalsType DEF Sound, TypeOK, SaveWrite, Procs, Labels, Values
<1>4. Placed'
  BY <1>1, <1>2 DEF Sound, TypeOK, Placed, Procs
<1>5. Numbered'
  BY <1>1, <1>2 DEF Sound, TypeOK, Numbered, Entry, Values
<1> QED
  BY <1>3, <1>4, <1>5 DEF Sound

LEMMA SaveEndsSound ==
  ASSUME Sound, NEW p \in Callers, SaveRename(p) \/ SaveFails(p)
  PROVE  Sound'
<1>1. /\ pc[p] = "rename" /\ End(p) /\ staging' = [staging EXCEPT ![p] = None]
      /\ saves' = saves /\ p \in Procs
  BY DEF SaveRename, SaveFails, Unstaged, Procs
<1>2. /\ pc' \in [Procs -> Labels] /\ req' \in [Procs -> Locals]
      /\ Placed'
  BY <1>1, EndPlaced
<1>3. TypeOK'
  BY <1>1, <1>2 DEF Sound, TypeOK, SaveRename, SaveFails, Names
<1>4. Numbered'
  BY <1>1 DEF Sound, TypeOK, Numbered
<1> QED
  BY <1>2, <1>3, <1>4 DEF Sound

LEMMA TakeSound ==
  ASSUME Sound, NEW p \in Callers, TakeClaim(p) \/ ReadClaim(p) \/ RmClaim(p)
  PROVE  Sound'
<1>1. p \in Procs /\ p \in Names /\ File \in Names /\ staging' = staging /\ saves' = saves
  BY DEF TakeClaim, ReadClaim, RmClaim, Procs, Names
<1>2. /\ pc' \in [Procs -> Labels] /\ req' \in [Procs -> Locals]
      /\ Placed'
  <2>1. CASE TakeClaim(p)
    BY <1>1, <2>1, GotoPlaced, NoLocalsType DEF TakeClaim, Labels
  <2>2. CASE ReadClaim(p)
    <3> DEFINE locals == [NoLocals EXCEPT !.entry = dir[p]]
    <3>1. locals \in Locals
      BY <1>1 DEF NoLocals, Locals, Sound, TypeOK
    <3>2. Goto(p, "rmClaim", locals)
      BY <2>2 DEF ReadClaim
    <3> HIDE DEF locals
    <3> QED
      BY <1>1, <3>1, <3>2, GotoPlaced DEF Labels
  <2>3. CASE RmClaim(p)
    BY <1>1, <2>3, EndPlaced DEF RmClaim
  <2> QED
    BY <2>1, <2>2, <2>3
<1>3. dir' \in [Names -> Entry \cup {None}] /\ takes' \in [Values -> Nat]
  <2>1. CASE TakeClaim(p) \/ ReadClaim(p)
    BY <1>1, <2>1 DEF Sound, TypeOK, TakeClaim, Claimed, ReadClaim
  <2>2. CASE RmClaim(p)
    <3>1. req[p].entry \in Entry \cup {None}
      BY <1>1 DEF Sound, TypeOK, Locals
    <3> QED
      BY <1>1, <2>2, <3>1 DEF Sound, TypeOK, RmClaim, Entry
  <2> QED
    BY <2>1, <2>2
<1>4. TypeOK'
  BY <1>1, <1>2, <1>3 DEF Sound, TypeOK, TakeClaim, ReadClaim, RmClaim
<1> QED
  BY <1>1, <1>2, <1>4, StagingKept DEF Sound

LEMMA RemoveSound ==
  ASSUME Sound, NEW p \in Procs, RmStale(p) \/ (p \in Callers /\ (GetStale(p) \/ Delete(p)))
  PROVE  Sound'
<1>1. staging' = staging /\ saves' = saves /\ File \in Names
  BY DEF GetStale, RmStale, Delete, Names
<1>2. /\ pc' \in [Procs -> Labels] /\ req' \in [Procs -> Locals]
      /\ Placed'
  <2>1. CASE p \in Callers /\ GetStale(p)
    <3> DEFINE locals == [NoLocals EXCEPT !.name = File]
    <3>1. locals \in Locals /\ locals.name = File
      BY <1>1 DEF NoLocals, Locals
    <3>2. Goto(p, "rmStale", locals)
      BY <2>1 DEF GetStale
    <3> HIDE DEF locals
    <3> QED
      BY <1>1, <3>1, <3>2, GotoPlaced DEF Labels
  <2>2. CASE RmStale(p) /\ p \in Timers
    <3> DEFINE locals == [req[p] EXCEPT !.name = None]
    <3>1. locals \in Locals
      BY DEF Locals, Sound, TypeOK
    <3>2. Goto(p, "sweep", locals)
      BY <2>2 DEF RmStale
    <3> HIDE DEF locals
    <3> QED
      BY <1>1, <2>2, <3>1, <3>2, GotoPlaced DEF Labels
  <2>3. CASE RmStale(p) /\ p \notin Timers
    BY <1>1, <2>3, EndPlaced DEF RmStale
  <2>4. CASE p \in Callers /\ Delete(p)
    BY <1>1, <2>4 DEF Delete, Sound, TypeOK, Placed
  <2> QED
    BY <2>1, <2>2, <2>3, <2>4
<1>3. TypeOK'
  BY <1>1, <1>2 DEF Sound, TypeOK, GetStale, RmStale, Delete
<1> QED
  BY <1>1, <1>2, <1>3, StagingKept DEF Sound

LEMMA CleanupSound ==
  ASSUME Sound, NEW p \in Timers, SweepStart(p) \/ SweepRead(p) \/ SweepEnd(p)
  PROVE  Sound'
<1>1. p \in Procs /\ staging' = staging /\ saves' = saves /\ p \notin Callers
  BY DiskStoreAssumption DEF SweepStart, SweepRead, SweepEnd, Procs
<1>2. /\ pc' \in [Procs -> Labels] /\ req' \in [Procs -> Locals]
      /\ Placed'
  <2>1. CASE SweepStart(p)
    <3> DEFINE locals == [NoLocals EXCEPT !.todo = Listed]
    <3>1. locals \in Locals
      BY DEF NoLocals, Locals, Listed
    <3>2. Goto(p, "sweep", locals)
      BY <2>1 DEF SweepStart
    <3> HIDE DEF locals
    <3> QED
      BY <1>1, <3>1, <3>2, GotoPlaced DEF Labels
  <2>2. CASE SweepRead(p)
    <3>1. PICK n \in req[p].todo :
            LET rest == [NoLocals EXCEPT !.todo = req[p].todo \ {n}] IN
              IF Stale(n) THEN Goto(p, "rmStale", [rest EXCEPT !.name = n])
                          ELSE Goto(p, "sweep", rest)
      BY <2>2 DEF SweepRead
    <3> DEFINE rest   == [NoLocals EXCEPT !.todo = req[p].todo \ {n}]
               locals == [rest EXCEPT !.name = n]
    <3>2. n \in Names /\ rest \in Locals /\ locals \in Locals /\ locals.name = n
      BY <1>1 DEF NoLocals, Locals, Sound, TypeOK
    <3>3. Goto(p, "rmStale", locals) \/ Goto(p, "sweep", rest)
      BY <3>1
    <3> HIDE DEF rest, locals
    <3> QED
      BY <1>1, <3>2, <3>3, GotoPlaced DEF Labels
  <2>3. CASE SweepEnd(p)
    BY <1>1, <2>3, EndPlaced DEF SweepEnd
  <2> QED
    BY <2>1, <2>2, <2>3
<1>3. TypeOK'
  BY <1>1, <1>2 DEF Sound, TypeOK, SweepStart, SweepRead, SweepEnd
<1> QED
  BY <1>1, <1>2, <1>3, StagingKept DEF Sound

LEMMA CrashSound ==
  ASSUME Sound, NEW p \in Procs, Crash(p)
  PROVE  Sound'
<1>1. End(p) /\ staging' = staging /\ saves' = saves
  BY DEF Crash
<1>2. /\ pc' \in [Procs -> Labels] /\ req' \in [Procs -> Locals]
      /\ Placed'
  BY <1>1, EndPlaced
<1>3. TypeOK'
  BY <1>1, <1>2 DEF Sound, TypeOK, Crash
<1> QED
  BY <1>1, <1>2, <1>3, StagingKept DEF Sound

LEMMA NextSound == Sound /\ [Next]_vars => Sound'
<1> SUFFICES ASSUME Sound, [Next]_vars PROVE Sound'
  OBVIOUS
<1>1. CASE \E p \in Callers :
             \/ \E ttl \in Ttls : SaveWrite(p, ttl)
             \/ SaveRename(p) \/ SaveFails(p)
             \/ TakeClaim(p) \/ ReadClaim(p) \/ RmClaim(p)
  BY <1>1, SaveWriteSound, SaveEndsSound, TakeSound
<1>2. CASE \E p \in Procs : RmStale(p) \/ (p \in Callers /\ (GetStale(p) \/ Delete(p)))
  BY <1>2, RemoveSound
<1>3. CASE \E p \in Timers : SweepStart(p) \/ SweepRead(p) \/ SweepEnd(p)
  BY <1>3, CleanupSound
<1>4. CASE \E p \in Procs : Crash(p)
  BY <1>4, CrashSound
<1>5. CASE Tick \/ UNCHANGED vars
  BY <1>5, StagingKept DEF Tick, vars, Sound, TypeOK, Placed, Numbered
<1> QED
  BY <1>1, <1>2, <1>3, <1>4, <1>5 DEF Next, Procs

(* The variables always have their types: no removal ever goes by a name that is not one, and  *)
(* every entry in the directory, in a temporary file or in a caller's hands has an expiry.     *)
THEOREM TypeCorrect == Spec => []TypeOK
<1>1. Sound => TypeOK
  BY DEF Sound
<1> QED
  BY <1>1, InitSound, NextSound, PTL DEF Spec

-----------------------------------------------------------------------------
(* What is left behind.                                                    *)

\* Caller q is as NoLeftovers wants it, unless it has crashed.
TidyAt(q) ==
  q \notin crashed => /\ dir[q] # None => pc[q] \in {"readClaim", "rmClaim"}
                      /\ staging[q] # None <=> pc[q] = "rename"

\* A step of another process leaves caller q at its label, and removes its claim at most.
LEMMA OthersTidy ==
  ASSUME Sound, NEW q \in Callers, TidyAt(q), crashed \subseteq crashed',
         pc'[q] = pc[q], staging'[q] = staging[q], dir'[q] \in {dir[q], None}
  PROVE  TidyAt(q)'
BY DEF TidyAt

LEMMA CallerTidy ==
  ASSUME Sound, NoLeftovers, NEW p \in Callers,
         \/ \E ttl \in Ttls : SaveWrite(p, ttl)
         \/ GetStale(p) \/ SaveRename(p) \/ SaveFails(p)
         \/ TakeClaim(p) \/ ReadClaim(p) \/ RmClaim(p) \/ Delete(p)
  PROVE  NoLeftovers'
<1>1. p \in Procs /\ p \in Names /\ File \in Names /\ crashed' = crashed
  BY DEF Procs, Names, SaveWrite, GetStale, SaveRename, SaveFails, TakeClaim, ReadClaim,
     RmClaim, Delete
<1>2. ASSUME NEW q \in Callers PROVE TidyAt(q)'
  <2>0. TidyAt(q)
    BY DEF NoLeftovers, TidyAt
  <2>1. CASE q # p
    <3>1. q \in Procs /\ q \in Names /\ q # File
      BY DiskStoreAssumption DEF Procs, Names
    <3>2. pc'[q] = pc[q] /\ staging'[q] = staging[q] /\ dir'[q] = dir[q]
      BY <2>1, <3>1 DEF Sound, TypeOK, SaveWrite, GetStale, SaveRename, SaveFails, Unstaged,
         TakeClaim, Claimed, ReadClaim, RmClaim, Delete, Goto, End
    <3> QED
      BY <1>1, <2>0, <3>2, OthersTidy
  <2>2. CASE q = p
    <3>0. p # File
      BY DiskStoreAssumption
    <3>1. ASSUME NEW ttl \in Ttls, SaveWrite(p, ttl) PROVE TidyAt(p)'
      <4>1. staging'[p] # None
        BY <3>1, DiskStoreAssumption, NoneAssumption
        DEF SaveWrite, Sound, TypeOK, Entry, Values, ExpiresAtFor, NoExpiry
      <4> QED
        BY <1>1, <2>0, <2>2, <3>1, <4>1 DEF SaveWrite, Goto, TidyAt, Sound, TypeOK
    <3>2. CASE GetStale(p) \/ Delete(p)
      BY <1>1, <2>0, <2>2, <3>0, <3>2 DEF GetStale, Delete, Goto, TidyAt, Sound, TypeOK
    <3>3. CASE SaveRename(p) \/ SaveFails(p)
      BY <1>1, <2>0, <2>2, <3>0, <3>3
      DEF SaveRename, SaveFails, Unstaged, End, Goto, TidyAt, Sound, TypeOK
    <3>4. CASE TakeClaim(p) \/ ReadClaim(p) \/ RmClaim(p)
      BY <1>1, <2>0, <2>2, <3>4
      DEF TakeClaim, Claimed, ReadClaim, RmClaim, End, Goto, TidyAt, Sound, TypeOK
    <3> QED
      BY <2>2, <3>1, <3>2, <3>3, <3>4
  <2> QED
    BY <2>1, <2>2
<1> QED
  BY <1>2 DEF NoLeftovers, TidyAt

\* A removal by name never leaves more, and only a crash leaves something without its owner.
LEMMA ProcTidy ==
  ASSUME Sound, NoLeftovers, NEW p \in Procs,
         \/ RmStale(p) \/ Crash(p)
         \/ p \in Timers /\ (SweepStart(p) \/ SweepRead(p) \/ SweepEnd(p))
  PROVE  NoLeftovers'
<1>1. crashed \subseteq crashed' /\ staging' = staging
  BY DEF RmStale, Crash, SweepStart, SweepRead, SweepEnd
<1>2. PICK label, locals : Goto(p, label, locals)
  BY DEF RmStale, Crash, SweepStart, SweepRead, SweepEnd, End
<1>3. \A q \in Callers : q \in Procs /\ q \in Names /\ dir'[q] \in {dir[q], None}
  BY DEF RmStale, Crash, SweepStart, SweepRead, SweepEnd, Sound, TypeOK, Procs, Names
<1>4. ASSUME NEW q \in Callers PROVE TidyAt(q)'
  <2>0. TidyAt(q)
    BY DEF NoLeftovers, TidyAt
  <2>1. CASE q # p
    <3>1. pc'[q] = pc[q]
      BY <1>2, <1>3, <2>1 DEF Goto, Sound, TypeOK
    <3> QED
      BY <1>1, <1>3, <2>0, <3>1, OthersTidy
  <2>2. CASE q = p /\ RmStale(p)
    <3>1. pc[p] = "rmStale" /\ pc'[p] = "idle"
      BY <2>2, DiskStoreAssumption DEF RmStale, End, Goto, Sound, TypeOK
    <3> QED
      BY <1>1, <1>3, <2>0, <2>2, <3>1 DEF TidyAt
  <2>3. CASE q = p /\ Crash(p)
    BY <2>3 DEF Crash, TidyAt
  <2>4. ~(q = p /\ p \in Timers)
    BY DiskStoreAssumption
  <2> QED
    BY <2>1, <2>2, <2>3, <2>4
<1> QED
  BY <1>4 DEF NoLeftovers, TidyAt

(* Claims and temporary files go with the call that made them: a caller that has not crashed   *)
(* leaves neither behind, whatever its saves and takes came to and whatever the cleanups of    *)
(* all processes remove meanwhile (disk.ts:103, stores.test.ts:185).                           *)
THEOREM Tidy == Spec => []NoLeftovers
<1>1. Init => NoLeftovers
  BY DEF Init, NoLeftovers, Names, Procs
<1>2. Sound /\ NoLeftovers /\ [Next]_vars => NoLeftovers'
  <2> SUFFICES ASSUME Sound, NoLeftovers, [Next]_vars PROVE NoLeftovers'
    OBVIOUS
  <2>1. CASE Tick \/ UNCHANGED vars
    BY <2>1 DEF Tick, vars, NoLeftovers
  <2> QED
    BY <2>1, CallerTidy, ProcTidy DEF Next, Procs
<1> QED
  BY <1>1, <1>2, InitSound, NextSound, PTL DEF Spec

-----------------------------------------------------------------------------
(* Slot's state, and what the steps make of it.                            *)

Saved == (1..saves) \ Staged
Held  == [p \in Callers |-> HeldBy(p)]

\* A caller holds what it held when another one moves and its claim stays.
LEMMA HeldByOthers ==
  ASSUME Sound, NEW p \in Procs, NEW label, NEW locals, Goto(p, label, locals),
         NEW q \in Callers, q # p, dir'[q] = dir[q]
  PROVE  HeldBy(q)' = HeldBy(q)
<1>1. pc'[q] = pc[q] /\ req'[q] = req[q]
  BY DEF Goto, Sound, TypeOK, Procs
<1> QED
  BY <1>1 DEF HeldBy

\* Nothing changes hands when one caller goes from one label without a hold to another.
LEMMA HeldKept ==
  ASSUME Sound, NEW p \in Procs, NEW label \in Labels, NEW locals, Goto(p, label, locals),
         \A q \in Callers : q # p => dir'[q] = dir[q],
         p \in Callers => pc[p] \notin {"readClaim", "rmClaim"},
         label \notin {"readClaim", "rmClaim"}
  PROVE  Held' = Held
<1>1. ASSUME NEW q \in Callers PROVE HeldBy(q)' = HeldBy(q)
  <2>1. CASE q # p
    BY <2>1, HeldByOthers
  <2>2. CASE q = p
    <3>1. pc'[p] = label
      BY DEF Goto, Sound, TypeOK
    <3> QED
      BY <2>2, <3>1 DEF HeldBy
  <2> QED
    BY <2>1, <2>2
<1> QED
  BY <1>1 DEF Held

LEMMA SavedKept ==
  ASSUME staging' = staging, saves' = saves
  PROVE  Saved' = Saved
BY DEF Saved, Staged

\* A caller that lets go of what it holds.
LEMMA HeldDropped ==
  ASSUME Sound, NEW p \in Callers, End(p), \A q \in Callers : q # p => dir'[q] = dir[q]
  PROVE  Held' = [Held EXCEPT ![p] = None]
<1>1. p \in Procs
  BY DEF Procs
<1>2. ASSUME NEW q \in Callers, q # p PROVE HeldBy(q)' = HeldBy(q)
  BY <1>1, <1>2, HeldByOthers DEF End
<1>3. HeldBy(p)' = None
  <2>1. pc'[p] = "idle"
    BY <1>1 DEF End, Goto, Sound, TypeOK
  <2> QED
    BY <2>1 DEF HeldBy
<1> QED
  BY <1>2, <1>3 DEF Held

-----------------------------------------------------------------------------
(* Each step is one of Slot's, or none.                                    *)

LEMMA InitSlot == Init => S!Init
<1> SUFFICES ASSUME Init PROVE S!Init
  OBVIOUS
<1>1. Saved = {}
  BY DEF Init, Saved
<1>2. Held = [p \in Callers |-> None]
  BY DEF Init, Held, HeldBy, Procs
<1> QED
  BY <1>1, <1>2 DEF Init, S!Init, Saved, Held, Names

\* The value drawn is in a temporary file, and counts as saved once that is gone.
LEMMA SaveWriteSlot ==
  ASSUME Sound, NEW p \in Callers, NEW ttl \in Ttls, SaveWrite(p, ttl)
  PROVE  UNCHANGED S!vars
<1>1. Held' = Held
  BY HeldKept DEF SaveWrite, Procs, Labels
<1>2. Staged' = Staged \cup {saves + 1}
  <2>1. ASSUME NEW q \in Callers
        PROVE  /\ q # p => staging'[q] = staging[q]
               /\ q = p => staging'[q] # None /\ staging'[q].value = saves + 1 /\ staging[q] = None
    BY DiskStoreAssumption, NoneAssumption
    DEF SaveWrite, Sound, TypeOK, Entry, Values, ExpiresAtFor, NoExpiry
  <2> QED
    BY <2>1 DEF Staged
<1>3. Saved' = Saved
  BY <1>2 DEF Saved, SaveWrite, Sound, TypeOK
<1> QED
  BY <1>1, <1>3 DEF SaveWrite, S!vars, Saved, Held

LEMMA SaveEndsSlot ==
  ASSUME Sound, NEW p \in Callers, SaveRename(p) \/ SaveFails(p)
  PROVE  S!Next
<1> DEFINE v == staging[p].value
<1>1. /\ p \in Procs /\ pc[p] = "rename" /\ End(p) /\ saves' = saves
      /\ staging' = [staging EXCEPT ![p] = None]
  BY DEF SaveRename, SaveFails, Unstaged, Procs
<1>2. staging[p] \in Entry /\ v \in Values /\ v \in 1..saves /\ staging[p] # None
  BY <1>1 DEF Sound, TypeOK, Placed, Numbered, Entry, Values
<1>3. Staged' = Staged \ {v} /\ v \in Staged
  <2>1. ASSUME NEW q \in Callers
        PROVE  /\ q # p => staging'[q] = staging[q] /\ (staging[q] # None => staging[q].value # v)
               /\ q = p => staging'[q] = None
    BY <1>1, <1>2 DEF Sound, TypeOK, Numbered
  <2> QED
    BY <1>2, <2>1 DEF Staged
<1>4. Saved' = Saved \cup {v} /\ v \notin Saved
  BY <1>1, <1>2, <1>3 DEF Saved
<1>5. Held' = Held
  <2>1. \A q \in Callers : q # p => dir'[q] = dir[q]
    BY DiskStoreAssumption DEF SaveRename, SaveFails, Sound, TypeOK, Names
  <2> QED
    BY <1>1, <2>1, HeldKept DEF End, Labels
<1>6. CASE SaveRename(p)
  <2>1. dir'[File] = staging[p]
    BY <1>6 DEF SaveRename, Sound, TypeOK, Names
  <2>2. S!Save(v)
    BY <1>2, <1>4, <1>5, <1>6, <2>1 DEF S!Save, S!Entry, Entry, SaveRename, Saved, Held
  <2> QED
    BY <1>2, <2>2 DEF S!Next
<1>7. CASE SaveFails(p)
  <2>1. S!SaveFails(v)
    BY <1>4, <1>5, <1>7 DEF S!SaveFails, SaveFails, Saved, Held
  <2> QED
    BY <1>2, <2>1 DEF S!Next
<1> QED
  BY <1>6, <1>7

LEMMA TakeClaimSlot ==
  ASSUME Sound, NEW p \in Callers, TakeClaim(p)
  PROVE  S!Next
<1>1. p \in Procs /\ p \in Names /\ File \in Names /\ p # File
  BY DiskStoreAssumption DEF Procs, Names
<1>2. dir'[p] = dir[File] /\ dir'[File] = None
  BY <1>1 DEF TakeClaim, Claimed, Sound, TypeOK
<1>3. Held' = [Held EXCEPT ![p] = dir[File]]
  <2>1. ASSUME NEW q \in Callers, q # p PROVE HeldBy(q)' = HeldBy(q)
    <3>1. dir'[q] = dir[q]
      BY <1>1, <2>1, DiskStoreAssumption DEF TakeClaim, Claimed, Sound, TypeOK, Names
    <3> QED
      BY <1>1, <2>1, <3>1, HeldByOthers DEF TakeClaim
  <2>2. HeldBy(p)' = dir[File]
    <3>1. pc'[p] = "readClaim"
      BY <1>1 DEF TakeClaim, Goto, Sound, TypeOK
    <3> QED
      BY <1>2, <3>1 DEF HeldBy
  <2> QED
    BY <2>1, <2>2 DEF Held
<1>4. Held[p] = None
  <2>1. pc[p] = "idle"
    BY DEF TakeClaim
  <2> QED
    BY <2>1 DEF Held, HeldBy
<1>5. Saved' = Saved
  BY SavedKept DEF TakeClaim
<1>6. S!Take(p)
  BY <1>2, <1>3, <1>4, <1>5 DEF S!Take, TakeClaim, Saved, Held
<1> QED
  BY <1>6 DEF S!Next

\* What was a claim is now in the caller's hands.
LEMMA ReadClaimSlot ==
  ASSUME Sound, NEW p \in Callers, ReadClaim(p)
  PROVE  UNCHANGED S!vars
<1>1. p \in Procs
  BY DEF Procs
<1>2. ASSUME NEW q \in Callers PROVE HeldBy(q)' = HeldBy(q)
  <2>1. CASE q # p
    BY <1>1, <2>1, HeldByOthers DEF ReadClaim
  <2>2. CASE q = p
    <3>1. HeldBy(p) = dir[p]
      BY DEF ReadClaim, HeldBy
    <3>2. pc'[p] = "rmClaim" /\ req'[p].entry = dir[p]
      BY <1>1 DEF ReadClaim, Goto, NoLocals, Sound, TypeOK
    <3>3. HeldBy(p)' = req'[p].entry
      BY <3>2 DEF HeldBy
    <3> QED
      BY <2>2, <3>1, <3>2, <3>3
  <2> QED
    BY <2>1, <2>2
<1>3. Held' = Held
  BY <1>2 DEF Held
<1>4. Saved' = Saved
  BY SavedKept DEF ReadClaim
<1> QED
  BY <1>3, <1>4 DEF ReadClaim, S!vars, Saved, Held

LEMMA RmClaimSlot ==
  ASSUME Sound, NEW p \in Callers, RmClaim(p)
  PROVE  S!Next \/ UNCHANGED S!vars
<1> DEFINE entry == req[p].entry
<1>1. /\ p \in Procs /\ p \in Names /\ File \in Names /\ p # File
      /\ entry \in Entry \cup {None}
  BY DiskStoreAssumption DEF Procs, Names, Sound, TypeOK, Locals
<1>2. /\ dir'[File] = dir[File]
      /\ \A q \in Callers : q # p => dir'[q] = dir[q]
  BY <1>1, DiskStoreAssumption DEF RmClaim, Sound, TypeOK, Names
<1>3. Held' = [Held EXCEPT ![p] = None]
  BY <1>2, HeldDropped DEF RmClaim
<1>4. Held[p] = entry
  <2>1. pc[p] = "rmClaim"
    BY DEF RmClaim
  <2> QED
    BY <2>1 DEF Held, HeldBy
<1>5. Saved' = Saved
  BY SavedKept DEF RmClaim
<1>6. CASE entry = None
  <2>1. Held' = Held
    BY <1>3, <1>4, <1>6 DEF Held
  <2> QED
    BY <1>2, <1>5, <1>6, <2>1 DEF RmClaim, S!vars, Saved, Held
<1>7. CASE entry # None /\ IsCurrent(entry)
  <2>1. S!Return(p)
    BY <1>2, <1>3, <1>4, <1>5, <1>7 DEF S!Return, RmClaim, IsCurrent, Saved, Held
  <2> QED
    BY <2>1 DEF S!Next
<1>8. CASE entry # None /\ ~IsCurrent(entry)
  <2>1. S!Drop(p)
    BY <1>2, <1>3, <1>4, <1>5, <1>8 DEF S!Drop, RmClaim, Saved, Held
  <2> QED
    BY <2>1 DEF S!Next
<1> QED
  BY <1>6, <1>7, <1>8

\* A removal by name meets the entry in place, a claim nobody has read yet, or nothing that counts.
LEMMA RmStaleSlot ==
  ASSUME Sound, NEW p \in Procs, RmStale(p)
  PROVE  S!Next \/ UNCHANGED S!vars
<1>1. PICK n \in Names : n = req[p].name /\ (p \in Callers => n = File)
  BY DEF RmStale, Sound, Placed
<1>2. dir' = [dir EXCEPT ![n] = None] /\ pc[p] = "rmStale" /\ File \in Names
  BY <1>1 DEF RmStale, Names
<1>3. Saved' = Saved
  BY SavedKept DEF RmStale
<1>4. PICK label \in {"idle", "sweep"} : \E locals : Goto(p, label, locals)
  BY DEF RmStale, End
<1>5. CASE n = File
  <2>1. dir'[File] = None /\ \A q \in Callers : dir'[q] = dir[q]
    BY <1>1, <1>2, <1>5, DiskStoreAssumption DEF Sound, TypeOK, Names
  <2>2. Held' = Held
    BY <1>2, <1>4, <2>1, HeldKept DEF Labels
  <2>3. S!Lose
    BY <1>3, <2>1, <2>2 DEF S!Lose, RmStale, Saved, Held
  <2> QED
    BY <2>3 DEF S!Next
<1>6. CASE n # File
  <2>1. n \in Callers /\ n # p /\ n \in Procs
    BY <1>1, <1>6 DEF Names, Procs
  <2>2. /\ dir'[File] = dir[File] /\ dir'[n] = None
        /\ \A q \in Callers : q # n => dir'[q] = dir[q]
    BY <1>1, <1>2, <1>6, DiskStoreAssumption DEF Sound, TypeOK, Names
  <2>3. pc'[n] = pc[n] /\ req'[n] = req[n]
    BY <1>4, <2>1 DEF Goto, Sound, TypeOK
  <2>4. ASSUME NEW q \in Callers, q # n PROVE HeldBy(q)' = HeldBy(q)
    <3>1. CASE q # p
      BY <1>4, <2>2, <2>4, <3>1, HeldByOthers
    <3>2. CASE q = p
      BY <1>1, <1>6, <3>2
    <3> QED
      BY <3>1, <3>2
  <2>5. CASE pc[n] = "readClaim" /\ dir[n] # None
    <3>1. Held[n] = dir[n]
      BY <2>1, <2>5 DEF Held, HeldBy
    <3>2. HeldBy(n)' = None
      BY <2>2, <2>3, <2>5 DEF HeldBy
    <3>3. Held' = [Held EXCEPT ![n] = None]
      BY <2>4, <3>2 DEF Held
    <3>4. S!Drop(n)
      BY <1>3, <2>2, <2>5, <3>1, <3>3 DEF S!Drop, RmStale, Saved, Held
    <3> QED
      BY <2>1, <3>4 DEF S!Next
  <2>6. CASE ~(pc[n] = "readClaim" /\ dir[n] # None)
    <3>1. HeldBy(n)' = HeldBy(n)
      <4>1. CASE pc[n] = "readClaim"
        BY <2>2, <2>3, <2>6, <4>1 DEF HeldBy
      <4>2. CASE pc[n] # "readClaim"
        BY <2>3, <4>2 DEF HeldBy
      <4> QED
        BY <4>1, <4>2
    <3>2. Held' = Held
      BY <2>4, <3>1 DEF Held
    <3> QED
      BY <1>3, <2>2, <3>2 DEF RmStale, S!vars, Saved, Held
  <2> QED
    BY <2>5, <2>6
<1> QED
  BY <1>5, <1>6

LEMMA DeleteSlot ==
  ASSUME Sound, NEW p \in Callers, Delete(p)
  PROVE  S!Next
<1>1. dir'[File] = None /\ \A q \in Callers : dir'[q] = dir[q]
  BY DiskStoreAssumption DEF Delete, Sound, TypeOK, Names
<1>2. Held' = Held
  BY <1>1 DEF Held, HeldBy, Delete
<1>3. Saved' = Saved
  BY SavedKept DEF Delete
<1>4. S!Lose
  BY <1>1, <1>2, <1>3 DEF S!Lose, Delete, Saved, Held
<1> QED
  BY <1>4 DEF S!Next

\* A cleanup's reads, and a get's, change nothing that Slot tells apart.
LEMMA ReadsSlot ==
  ASSUME Sound, NEW p \in Procs,
         GetStale(p) \/ (p \in Timers /\ (SweepStart(p) \/ SweepRead(p) \/ SweepEnd(p)))
  PROVE  UNCHANGED S!vars
<1>1. PICK label \in {"idle", "sweep", "rmStale"} : \E locals : Goto(p, label, locals)
  BY DEF GetStale, SweepStart, SweepRead, SweepEnd, End
<1>2. /\ dir' = dir /\ now' = now /\ takes' = takes /\ staging' = staging /\ saves' = saves
      /\ p \in Callers => pc[p] \notin {"readClaim", "rmClaim"}
  BY DiskStoreAssumption DEF GetStale, SweepStart, SweepRead, SweepEnd
<1>3. Held' = Held
  BY <1>1, <1>2, HeldKept DEF Labels
<1>4. Saved' = Saved
  BY <1>2, SavedKept
<1> QED
  BY <1>2, <1>3, <1>4 DEF S!vars, Saved, Held

LEMMA CrashSlot ==
  ASSUME Sound, NEW p \in Procs, Crash(p)
  PROVE  S!Next \/ UNCHANGED S!vars
<1>1. dir' = dir /\ now' = now /\ takes' = takes /\ End(p)
  BY DEF Crash
<1>2. Saved' = Saved
  BY SavedKept DEF Crash
<1>3. CASE p \in Callers /\ Held[p] # None
  <2>1. Held' = [Held EXCEPT ![p] = None]
    BY <1>1, <1>3, HeldDropped
  <2>2. S!Drop(p)
    BY <1>1, <1>2, <1>3, <2>1 DEF S!Drop, Saved, Held
  <2> QED
    BY <1>3, <2>2 DEF S!Next
<1>4. CASE p \in Callers /\ Held[p] = None
  <2>1. Held' = Held
    BY <1>1, <1>4, HeldDropped DEF Held
  <2> QED
    BY <1>1, <1>2, <2>1 DEF S!vars, Saved, Held
<1>5. CASE p \notin Callers
  <2>1. Held' = Held
    BY <1>1, <1>5, HeldKept DEF End, Labels
  <2> QED
    BY <1>1, <1>2, <2>1 DEF S!vars, Saved, Held
<1> QED
  BY <1>3, <1>4, <1>5

LEMMA NextSlot == Sound /\ [Next]_vars => [S!Next]_(S!vars)
<1> SUFFICES ASSUME Sound, [Next]_vars PROVE S!Next \/ UNCHANGED S!vars
  OBVIOUS
<1>1. CASE \E p \in Callers :
             \/ \E ttl \in Ttls : SaveWrite(p, ttl)
             \/ SaveRename(p) \/ SaveFails(p)
  BY <1>1, SaveWriteSlot, SaveEndsSlot
<1>2. CASE \E p \in Callers : TakeClaim(p) \/ ReadClaim(p) \/ RmClaim(p) \/ Delete(p)
  BY <1>2, TakeClaimSlot, ReadClaimSlot, RmClaimSlot, DeleteSlot
<1>3. CASE \E p \in Procs :
             GetStale(p) \/ (p \in Timers /\ (SweepStart(p) \/ SweepRead(p) \/ SweepEnd(p)))
  BY <1>3, ReadsSlot
<1>4. CASE \E p \in Procs : RmStale(p) \/ Crash(p)
  BY <1>4, RmStaleSlot, CrashSlot
<1>5. CASE Tick
  <2>1. Held' = Held /\ Saved' = Saved
    BY <1>5, SavedKept DEF Tick, Held, HeldBy
  <2>2. S!Tick
    BY <1>5, <2>1 DEF Tick, S!Tick, Saved, Held
  <2> QED
    BY <2>2 DEF S!Next
<1>6. CASE UNCHANGED vars
  <2>1. Held' = Held /\ Saved' = Saved
    BY <1>6, SavedKept DEF vars, Held, HeldBy
  <2> QED
    BY <1>6, <2>1 DEF vars, S!vars, Saved, Held
<1> QED
  BY <1>1, <1>2, <1>3, <1>4, <1>5, <1>6 DEF Next, Procs

(* The file operations of any number of callers and processes implement a store whose take is  *)
(* atomic, through crashes, failed renames and cleanups in every order: rename gives a value   *)
(* to one take, which returns it before it expires or not at all (disk.ts:48).                 *)
THEOREM Implements == Spec => ImplementsSlot
BY InitSound, NextSound, InitSlot, NextSlot, PTL DEF Spec, ImplementsSlot, S!Spec

-----------------------------------------------------------------------------
(* Slot, and with it what implements it, returns each value once at most.  *)

SlotTyped ==
  /\ dir[File] \in Entry \cup {None}
  /\ Held \in [Callers -> Entry \cup {None}]
  /\ takes \in [Values -> Nat]

\* An entry that is in place or held has been saved and is not yet returned.
Pending(entry) == entry # None => entry.value \in Saved /\ takes[entry.value] = 0

Differ(entry, other) == entry # None /\ other # None => entry.value # other.value

(* Each value is in one place at most: in place, held by one caller, or returned.             *)
OnePlace ==
  /\ Pending(dir[File])
  /\ \A p \in Callers : Pending(Held[p]) /\ Differ(dir[File], Held[p])
  /\ \A p, q \in Callers : p # q => Differ(Held[p], Held[q])
  /\ \A v \in Values : takes[v] <= 1 /\ (v \notin Saved => takes[v] = 0)

LEMMA InitOnePlace == S!Init => SlotTyped /\ OnePlace
<1> SUFFICES ASSUME S!Init PROVE SlotTyped /\ OnePlace
  OBVIOUS
<1>1. /\ Saved = {} /\ dir[File] = None
      /\ Held = [p \in Callers |-> None] /\ takes = [v \in Values |-> 0]
  BY DEF S!Init, Saved, Held
<1> QED
  BY <1>1 DEF SlotTyped, OnePlace, Pending, Differ

LEMMA NextOnePlace == SlotTyped /\ OnePlace /\ [S!Next]_(S!vars) => SlotTyped' /\ OnePlace'
<1> SUFFICES ASSUME SlotTyped, OnePlace, [S!Next]_(S!vars) PROVE SlotTyped' /\ OnePlace'
  OBVIOUS
<1>1. ASSUME NEW v \in Values, S!Save(v) PROVE SlotTyped' /\ OnePlace'
  <2>1. /\ v \notin Saved /\ Saved' = Saved \cup {v} /\ Held' = Held /\ takes' = takes
        /\ dir'[File] \in Entry /\ dir'[File].value = v
    BY <1>1 DEF S!Save, S!Entry, Entry, Saved, Held
  <2> QED
    BY <2>1 DEF SlotTyped, OnePlace, Pending, Differ, Entry
<1>2. ASSUME NEW v \in Values, S!SaveFails(v) PROVE SlotTyped' /\ OnePlace'
  <2>1. Saved' = Saved \cup {v} /\ Held' = Held /\ takes' = takes /\ dir'[File] = dir[File]
    BY <1>2 DEF S!SaveFails, Saved, Held
  <2> QED
    BY <2>1 DEF SlotTyped, OnePlace, Pending, Differ, Entry
<1>3. ASSUME NEW p \in Callers, S!Take(p) PROVE SlotTyped' /\ OnePlace'
  <2>1. /\ dir[File] # None /\ Held[p] = None
        /\ Held' = [Held EXCEPT ![p] = dir[File]] /\ dir'[File] = None
        /\ Saved' = Saved /\ takes' = takes
    BY <1>3 DEF S!Take, Saved, Held
  <2> QED
    BY <2>1 DEF SlotTyped, OnePlace, Pending, Differ, Entry
<1>4. ASSUME NEW p \in Callers, S!Return(p) PROVE SlotTyped' /\ OnePlace'
  <2>1. /\ Held[p] # None
        /\ takes' = [takes EXCEPT ![Held[p].value] = @ + 1]
        /\ Held' = [Held EXCEPT ![p] = None]
        /\ Saved' = Saved /\ dir'[File] = dir[File]
    BY <1>4 DEF S!Return, Saved, Held
  <2>2. Held[p] \in Entry /\ Held[p].value \in Values /\ takes[Held[p].value] = 0
    BY <2>1 DEF SlotTyped, OnePlace, Pending, Entry
  <2> QED
    BY <2>1, <2>2 DEF SlotTyped, OnePlace, Pending, Differ, Entry
<1>5. ASSUME NEW p \in Callers, S!Drop(p) PROVE SlotTyped' /\ OnePlace'
  <2>1. /\ Held' = [Held EXCEPT ![p] = None]
        /\ Saved' = Saved /\ dir'[File] = dir[File] /\ takes' = takes
    BY <1>5 DEF S!Drop, Saved, Held
  <2> QED
    BY <2>1 DEF SlotTyped, OnePlace, Pending, Differ, Entry
<1>6. CASE S!Lose \/ S!Tick \/ UNCHANGED S!vars
  <2>1. dir'[File] \in {dir[File], None} /\ Saved' = Saved /\ Held' = Held /\ takes' = takes
    BY <1>6 DEF S!Lose, S!Tick, S!vars, Saved, Held
  <2> QED
    BY <2>1 DEF SlotTyped, OnePlace, Pending, Differ, Entry
<1> QED
  BY <1>1, <1>2, <1>3, <1>4, <1>5, <1>6 DEF S!Next

LEMMA SlotOnceOnly == S!Spec => []S!ReturnedOnce
<1>1. OnePlace => S!ReturnedOnce
  BY DEF OnePlace, S!ReturnedOnce
<1> QED
  BY <1>1, InitOnePlace, NextOnePlace, PTL DEF S!Spec

TakenOnce == \A v \in Values : takes[v] <= 1

(* A value that is saved once is returned by one take at most, of however many callers and     *)
(* processes race for it, crash, or have their claims swept away (disk.ts:48, "one gets the    *)
(* value"): what is proved of Slot holds of what implements it.                                *)
THEOREM TakenAtMostOnce == Spec => []TakenOnce
<1>1. S!ReturnedOnce => TakenOnce
  BY DEF S!ReturnedOnce, TakenOnce
<1> QED
  BY <1>1, SlotOnceOnly, Implements, PTL DEF ImplementsSlot

=============================================================================
