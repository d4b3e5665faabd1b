----------------------------- MODULE DiskStore -----------------------------
(***************************************************************************)
(* The disk store (src/src/node/oauth/stores/disk.ts): one file for each   *)
(* key in a directory several processes share, with no lock.  Each action  *)
(* is one file-system operation; the callers and the cleanup timers of all *)
(* processes interleave between them.                                      *)
(*                                                                         *)
(* One key is modelled: files of different keys never meet, except in the  *)
(* directory listing a cleanup walks, which holds the key's file and the   *)
(* private names that takes move it to.                                    *)
(***************************************************************************)
EXTENDS Naturals, FiniteSets

CONSTANTS
  Callers,      \* calls to get, save, take and delete that may overlap
  Timers,       \* the cleanup timers, one for each process
  File,         \* the name of the key's file
  Ttls,         \* the ttl arguments of save; 0 stands for none
  MaxSaves,     \* bound: how many values are saved
  MaxTime,      \* bound: the last tick
  MaxFaults,    \* bound: failed renames and crashes
  None

ASSUME DiskStoreAssumption ==
  /\ Ttls \subseteq Nat
  /\ {MaxSaves, MaxTime, MaxFaults} \subseteq Nat
  /\ Callers \cap Timers = {}
  /\ File \notin Callers /\ None \notin Callers \cup Timers \cup {File}

VARIABLES
  now,       \* the clock
  dir,       \* the entry under the key's name and under each caller's claim name
  staging,   \* the temporary file of each caller
  pc,        \* what each caller and each timer awaits
  req,       \* the locals of each
  saves,     \* how many values were saved; values are numbered in order
  takes,     \* history: how often take returned each value
  latest,    \* history: the entry last saved, until a take or a delete removes it
  crashed,   \* history: who has crashed
  faults     \* history: how many faults there were

vars == <<now, dir, staging, pc, req, saves, takes, latest, crashed, faults>>

Procs    == Callers \cup Timers
Names    == Callers \cup {File}
Values   == 1..MaxSaves
NoExpiry == MaxTime + 1
Entry    == [value: Values, expiresAt: Nat]

ASSUME NoneAssumption == None \notin Entry

Labels   == {"idle", "rename", "readClaim", "rmClaim", "sweep", "rmStale"}
Locals   == [name: Names \cup {None}, entry: Entry \cup {None}, todo: SUBSET Names]

NoLocals == [name |-> None, entry |-> None, todo |-> {}]

Init ==
  /\ now = 1
  /\ dir = [n \in Names |-> None]
  /\ staging = [p \in Callers |-> None]
  /\ pc = [p \in Procs |-> "idle"]
  /\ req = [p \in Procs |-> NoLocals]
  /\ saves = 0
  /\ takes = [v \in Values |-> 0]
  /\ latest = None
  /\ crashed = {}
  /\ faults = 0

-----------------------------------------------------------------------------
Goto(p, label, locals) ==
  /\ pc' = [pc EXCEPT ![p] = label]
  /\ req' = [req EXCEPT ![p] = locals]

End(p) == Goto(p, "idle", NoLocals)

IsCurrent(entry) == entry.expiresAt >= now
Stale(n)         == dir[n] # None /\ ~IsCurrent(dir[n])

ExpiresAtFor_Unset(ttl) == IF ttl = 0 THEN None ELSE now + ttl

\* A ttl of zero is no ttl.
ExpiresAtFor(ttl) == IF ttl = 0 THEN NoExpiry ELSE now + ttl

\* get: what it read has lapsed.  A get that reads anything else changes nothing.
GetStale(p) ==
  /\ pc[p] = "idle"
  /\ Stale(File)
  /\ Goto(p, "rmStale", [NoLocals EXCEPT !.name = File])
  /\ UNCHANGED <<now, dir, staging, saves, takes, latest, crashed, faults>>

\* rm by name, whatever is there by now; a sweep goes on with the names it has left.
RmStale(p) ==
  /\ pc[p] = "rmStale"
  /\ dir' = [dir EXCEPT ![req[p].name] = None]
  /\ IF p \in Timers THEN Goto(p, "sweep", [req[p] EXCEPT !.name = None]) ELSE End(p)
  /\ UNCHANGED <<now, staging, saves, takes, latest, crashed, faults>>

SaveWrite(p, ttl) ==
  /\ pc[p] = "idle"
  /\ staging[p] = None        \* bound: a crashed save's temporary file is the caller's last
  /\ saves < MaxSaves
  /\ saves' = saves + 1
  /\ staging' = [staging EXCEPT ![p] = [value |-> saves + 1, expiresAt |-> ExpiresAtFor(ttl)]]
  /\ Goto(p, "rename", NoLocals)
  /\ UNCHANGED <<now, dir, takes, latest, crashed, faults>>

SaveRename(p) ==
  /\ pc[p] = "rename"
  /\ dir' = [dir EXCEPT ![File] = staging[p]]
  /\ latest' = staging[p]
  /\ staging' = [staging EXCEPT ![p] = None]
  /\ End(p)
  /\ UNCHANGED <<now, saves, takes, crashed, faults>>

Unstaged_Kept(p) == UNCHANGED staging

\* A save that fails removes its temporary file before it rejects.
Unstaged(p) == staging' = [staging EXCEPT ![p] = None]

SaveFails(p) ==
  /\ pc[p] = "rename"
  /\ faults < MaxFaults
  /\ faults' = faults + 1
  /\ Unstaged(p)
  /\ End(p)
  /\ UNCHANGED <<now, dir, saves, takes, latest, crashed>>

Claimed_ByReading(p) == dir' = [dir EXCEPT ![p] = dir[File]]

\* rename: it moves the file to the caller's own name, or fails because it is gone.
Claimed(p) == dir' = [dir EXCEPT ![p] = dir[File], ![File] = None]

TakeClaim(p) ==
  /\ pc[p] = "idle"
  /\ dir[p] = None            \* bound: a crashed take's claim is the caller's last
  /\ dir[File] # None
  /\ Claimed(p)
  /\ latest' = None
  /\ Goto(p, "readClaim", NoLocals)
  /\ UNCHANGED <<now, staging, saves, takes, crashed, faults>>

\* The claim may be gone: a sweep takes a lapsed one away.
ReadClaim(p) ==
  /\ pc[p] = "readClaim"
  /\ Goto(p, "rmClaim", [NoLocals EXCEPT !.entry = dir[p]])
  /\ UNCHANGED <<now, dir, staging, saves, takes, latest, crashed, faults>>

RmClaim(p) ==
  /\ pc[p] = "rmClaim"
  /\ dir' = [dir EXCEPT ![p] = None]
  /\ LET entry == req[p].entry IN
       IF entry # None /\ IsCurrent(entry)
       THEN takes' = [takes EXCEPT ![entry.value] = @ + 1]
       ELSE UNCHANGED takes
  /\ End(p)
  /\ UNCHANGED <<now, staging, saves, latest, crashed, faults>>

\* A delete that fails is passed over and leaves everything as it is.
Delete(p) ==
  /\ pc[p] = "idle"
  /\ dir[File] # None
  /\ dir' = [dir EXCEPT ![File] = None]
  /\ latest' = None
  /\ UNCHANGED <<now, staging, pc, req, saves, takes, crashed, faults>>

-----------------------------------------------------------------------------
(* cleanup, on each process's timer.                                       *)

Listed_KeyOnly == {n \in {File} : dir[n] # None}

\* readdir: claim names end in the extension too, temporary names do not.
Listed == {n \in Names : dir[n] # None}

SweepStart(p) ==
  /\ pc[p] = "idle"
  /\ Listed # {}
  /\ Goto(p, "sweep", [NoLocals EXCEPT !.todo = Listed])
  /\ UNCHANGED <<now, dir, staging, saves, takes, latest, crashed, faults>>

\* One name at a time: read it, and remove it later if what was read has lapsed.
SweepRead(p) ==
  /\ pc[p] = "sweep"
  /\ \E n \in req[p].todo :
       LET rest == [NoLocals EXCEPT !.todo = req[p].todo \ {n}] IN
       IF Stale(n) THEN Goto(p, "rmStale", [rest EXCEPT !.name = n])
                   ELSE Goto(p, "sweep", rest)
  /\ UNCHANGED <<now, dir, staging, saves, takes, latest, crashed, faults>>

SweepEnd(p) ==
  /\ pc[p] = "sweep"
  /\ req[p].todo = {}
  /\ End(p)
  /\ UNCHANGED <<now, dir, staging, saves, takes, latest, crashed, faults>>

Crash(p) ==
  /\ pc[p] # "idle"
  /\ faults < MaxFaults
  /\ faults' = faults + 1
  /\ crashed' = crashed \cup {p}
  /\ End(p)
  /\ UNCHANGED <<now, dir, staging, saves, takes, latest>>

Tick ==
  /\ now < MaxTime
  /\ now' = now + 1
  /\ UNCHANGED <<dir, staging, pc, req, saves, takes, latest, crashed, faults>>

Next ==
  \/ \E p \in Callers :
       \/ \E ttl \in Ttls : SaveWrite(p, ttl)
       \/ GetStale(p) \/ SaveRename(p) \/ SaveFails(p)
       \/ TakeClaim(p) \/ ReadClaim(p) \/ RmClaim(p) \/ Delete(p)
  \/ \E p \in Timers : SweepStart(p) \/ SweepRead(p) \/ SweepEnd(p)
  \/ \E p \in Procs : RmStale(p) \/ Crash(p)
  \/ Tick

Spec == Init /\ [][Next]_vars

\* A timer fires again and again, and a cleanup that has begun goes on.
Fairness ==
  \A p \in Timers : WF_vars(SweepStart(p) \/ SweepRead(p) \/ SweepEnd(p) \/ RmStale(p))

FairSpec == Spec /\ Fairness

-----------------------------------------------------------------------------
TypeOK ==
  /\ now \in Nat
  /\ dir \in [Names -> Entry \cup {None}]
  /\ staging \in [Callers -> Entry \cup {None}]
  /\ pc \in [Procs -> Labels]
  /\ req \in [Procs -> Locals]
  /\ saves \in 0..MaxSaves
  /\ takes \in [Values -> Nat]
  /\ latest \in Entry \cup {None}
  /\ crashed \subseteq Procs
  /\ faults \in Nat

\* Where Slot's state is: a value is unsaved as long as it is in a temporary file, in place under
\* the key's name, and held as a claim or by the caller that has read it.
Staged    == {staging[p].value : p \in {p \in Callers : staging[p] # None}}
HeldBy(p) == CASE pc[p] = "readClaim" -> dir[p]
               [] pc[p] = "rmClaim"   -> req[p].entry
               [] OTHER               -> None

S == INSTANCE Slot WITH
       saved <- (1..saves) \ Staged, kept <- dir[File],
       held <- [p \in Callers |-> HeldBy(p)], returned <- takes

(* Every file operation is one step of a store with an atomic take or none: of several callers *)
(* and processes taking one key, one gets the value, before it expires or not at all, and what *)
(* was taken, replaced or removed never comes back, whatever crashes and whatever a cleanup    *)
(* sweeps meanwhile (disk.ts:48, "one gets the value"; stores/types.ts:18).                    *)
ImplementsSlot == S!Spec

(* Nobody leaves a claim or a temporary file behind but who crashed while using it, failed     *)
(* saves included (stores.test.ts:185, "leaves no claim or staging files behind").             *)
NoLeftovers ==
  \A p \in Callers \ crashed :
    /\ dir[p] # None => pc[p] \in {"readClaim", "rmClaim"}
    /\ staging[p] # None <=> pc[p] = "rename"

(* What was saved last stays until it lapses or a take or a delete removes it: no reader and   *)
(* no cleanup takes a fresh entry away (stores.test.ts:178, "does not sweep away an entry that *)
(* is being overwritten").                                                                     *)
FreshKept == latest # None /\ IsCurrent(latest) => dir[File] = latest

(* An entry that has lapsed leaves the directory, the claims of crashed takes included.        *)
LapsedLeave == \A n \in Names : Stale(n) ~> ~Stale(n)

=============================================================================
