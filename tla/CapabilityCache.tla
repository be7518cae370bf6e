--------------------------- MODULE CapabilityCache ---------------------------
(***************************************************************************)
(* The dispatcher's private cache of capability observations               *)
(* (crates/runtime/src/capability.rs) as invoke and capability_status use  *)
(* it: one async mutex held across the probe, entries that expire after    *)
(* TTL and with the backend's connection epoch, and issued clones that     *)
(* share one revocation flag with their entry.                             *)
(*                                                                         *)
(* Observations are numbered in the order they are made; the number stands *)
(* for the shared Arc, `valid' for its AtomicBool.  Time is kept as the    *)
(* age of observations and probes, counted up to TTL, where it stops being *)
(* of interest.                                                            *)
(***************************************************************************)
EXTENDS Naturals

CONSTANTS Task,       \* the dispatcher's max_concurrent slots for admitted requests
          Object,     \* ReviewedObject
          TTL,        \* 30 s, in ticks
          MaxEpoch,   \* bound on connections
          MaxObs,     \* bound on successful probes
          None

ASSUME CacheAssumption == /\ TTL \in Nat \ {0}
                          /\ MaxEpoch \in Nat /\ MaxObs \in Nat
                          /\ None \notin Task \cup Object \cup Nat

VARIABLES epoch,          \* Backend::capability_epoch, 0 for no connection
          epochs,         \* connections so far: a reconnection has a new epoch
          entries,        \* CapabilityCache.entries
          lock,           \* holder of its mutex
          made,           \* number of observations made
          obs, valid,     \* each observation's object, epoch, age and value; its flag
          pc, job, held, expired,  \* the task: its request, its clone, its deadline
          probe,          \* age and `previous_epoch' of a probe in flight
          spoiled         \* history: observations that must not be relied on any more

vars == <<epoch, epochs, entries, lock, made, obs, valid, pc, job, held,
          expired, probe, spoiled>>

Id      == 1 .. MaxObs
Unknown == 0           \* Observation::unknown: no epoch, never in the map
Uses    == {"invoke", "status", "refresh"}   \* a refresh is a status query
Jobs    == [object : Object \cup {None}, use : Uses]
Values  == {"match", "other"}   \* evaluate(): Compatible, or one of the others
Awaits  == {"lock", "probe", "execute"}
Pcs     == {"idle", "issued", "submit", "close"} \cup Awaits
NoObs   == [object |-> None, epoch |-> 0, age |-> 0, value |-> "other"]
NoJob   == [object |-> None, use |-> "invoke"]
NoProbe == [age |-> 0, previous |-> 0]

Init ==
  /\ epoch = 0 /\ epochs = 0
  /\ entries = [o \in Object |-> None]
  /\ lock = None
  /\ made = 0
  /\ obs = [i \in Id |-> NoObs]
  /\ valid = [i \in Id |-> FALSE]
  /\ pc = [p \in Task |-> "idle"]
  /\ job = [p \in Task |-> NoJob]
  /\ held = [p \in Task |-> None]
  /\ expired = [p \in Task |-> FALSE]
  /\ probe = [p \in Task |-> NoProbe]
  /\ spoiled = {}

Goto(p, l) == pc' = [pc EXCEPT ![p] = l]
cache == <<entries, lock, made, obs, valid, spoiled>>
world == <<epoch, epochs>>

(* A future that ends or is dropped takes its locals with it.              *)
End(p) ==
  /\ Goto(p, "idle")
  /\ job' = [job EXCEPT ![p] = NoJob]
  /\ held' = [held EXCEPT ![p] = None]
  /\ expired' = [expired EXCEPT ![p] = FALSE]
  /\ probe' = [probe EXCEPT ![p] = NoProbe]

(* Observation::fresh, for an observation with an epoch.                   *)
Fresh(i) == valid[i] /\ obs[i].epoch = epoch /\ obs[i].age < TTL

RevokeNothing(i) == valid' = valid

(* Observation::revoke reaches the entry and every clone.                  *)
Revoke(i) == valid' = IF i \in Id THEN [valid EXCEPT ![i] = FALSE] ELSE valid

-----------------------------------------------------------------------------
(* A requirement without a reviewed probe needs no lock and no backend.    *)
Start(p, j) ==
  /\ pc[p] = "idle"
  /\ job' = [job EXCEPT ![p] = j]
  /\ IF j.object = None
       THEN Goto(p, "issued") /\ held' = [held EXCEPT ![p] = Unknown]
       ELSE Goto(p, "lock") /\ UNCHANGED held
  /\ UNCHANGED <<world, cache, expired, probe>>

Dropped == {o \in Object : entries[o] # None /\ ~Fresh(entries[o])}

ObserveUnrevoked(p) ==
  LET o == job[p].object
  IN  /\ pc[p] = "lock" /\ lock = None
      /\ IF job[p].use # "refresh" /\ entries[o] # None /\ Fresh(entries[o])
           THEN /\ held' = [held EXCEPT ![p] = entries[o]]
                /\ Goto(p, "issued")
                /\ UNCHANGED <<entries, valid, lock, probe, spoiled>>
           ELSE /\ entries' = [entries EXCEPT ![o] = None]
                /\ spoiled' = spoiled \cup {i \in Id : obs[i].object = o}
                /\ lock' = p
                /\ probe' = [probe EXCEPT ![p] = [age |-> 0, previous |-> epoch]]
                /\ Goto(p, "probe")
                /\ UNCHANGED <<held, valid>>
      /\ UNCHANGED <<world, made, obs, job, expired>>

(* observe, once it has the mutex: sweep out and revoke what is not fresh; *)
(* a hit is a clone; otherwise remove and revoke the previous observation  *)
(* and probe, still holding the mutex.  From then on every earlier         *)
(* observation of the object is spoiled.                                   *)
Observe(p) ==
  LET o      == job[p].object
      hit    == job[p].use # "refresh" /\ entries[o] # None /\ o \notin Dropped
      gone   == IF hit THEN Dropped ELSE Dropped \cup {o}
  IN  /\ pc[p] = "lock" /\ lock = None
      /\ entries' = [q \in Object |-> IF q \in gone THEN None ELSE entries[q]]
      /\ valid' = [i \in Id |-> valid[i] /\ \A q \in gone : entries[q] # i]
      /\ IF hit
           THEN /\ held' = [held EXCEPT ![p] = entries[o]]
                /\ Goto(p, "issued")
                /\ UNCHANGED <<lock, probe, spoiled>>
           ELSE /\ lock' = p
                /\ probe' = [probe EXCEPT ![p] = [age |-> 0, previous |-> epoch]]
                /\ spoiled' = spoiled \cup {i \in Id : obs[i].object = o}
                /\ Goto(p, "probe")
                /\ UNCHANGED held
      /\ UNCHANGED <<world, made, obs, job, expired>>

(* The probe returns v (an object that does not match or validate is       *)
(* "unknown"), or an error.  No epoch, another epoch than before, or a     *)
(* probe that took TTL: the answer is unknown and is not kept.             *)
ProbeReturns(p, v) ==
  /\ pc[p] = "probe"
  /\ lock' = None
  /\ IF v = "error"
       THEN /\ Goto(p, "close")
            /\ UNCHANGED <<entries, made, obs, valid, held>>
       ELSE /\ Goto(p, "issued")
            /\ IF \/ epoch = 0
                  \/ probe[p].previous # 0 /\ probe[p].previous # epoch
                  \/ probe[p].age >= TTL
                 THEN /\ held' = [held EXCEPT ![p] = Unknown]
                      /\ UNCHANGED <<entries, made, obs, valid>>
                 ELSE /\ made < MaxObs
                      /\ made' = made + 1
                      /\ obs' = [obs EXCEPT ![made + 1] =
                           [object |-> job[p].object, epoch |-> epoch,
                            age |-> probe[p].age, value |-> v]]
                      /\ valid' = [valid EXCEPT ![made + 1] = TRUE]
                      /\ entries' = [entries EXCEPT ![job[p].object] = made + 1]
                      /\ held' = [held EXCEPT ![p] = made + 1]
  /\ probe' = [probe EXCEPT ![p] = NoProbe]
  /\ UNCHANGED <<world, job, expired, spoiled>>

(* enforce_deadline with the issued observation.                           *)
Late(p) ==
  /\ Revoke(held[p])
  /\ spoiled' = IF held[p] \in Id THEN spoiled \cup {held[p]} ELSE spoiled

(* The dispatcher has its clone: the deadline, then verdict / status.      *)
Verdict(p) ==
  /\ pc[p] = "issued"
  /\ IF expired[p]
       THEN Late(p) /\ Goto(p, "close")
       ELSE /\ \/ /\ held[p] # Unknown /\ Fresh(held[p]) /\ obs[held[p]].value = "match"
                  /\ Goto(p, "submit")
               \/ /\ ~(held[p] # Unknown /\ Fresh(held[p]) /\ obs[held[p]].value = "match")
                  /\ Goto(p, "close")
            /\ UNCHANGED <<valid, spoiled>>
  /\ UNCHANGED <<world, entries, lock, made, obs, job, held, expired, probe>>

(* The deadline again; an invocation submits its action, a status query    *)
(* has its answer.                                                         *)
Submit(p) ==
  /\ pc[p] = "submit"
  /\ IF expired[p]
       THEN Late(p) /\ Goto(p, "close")
       ELSE /\ Goto(p, IF job[p].use = "invoke" THEN "execute" ELSE "close")
            /\ UNCHANGED <<valid, spoiled>>
  /\ UNCHANGED <<world, entries, lock, made, obs, job, held, expired, probe>>

ExecuteReturns(p) ==
  /\ pc[p] = "execute"
  /\ IF expired[p] THEN Late(p) /\ Goto(p, "close") ELSE Goto(p, "close") /\ UNCHANGED <<valid, spoiled>>
  /\ UNCHANGED <<world, entries, lock, made, obs, job, held, expired, probe>>

(* The outer enforce_deadline, after the body or its timer.                *)
Close(p) ==
  /\ pc[p] = "close"
  /\ IF expired[p] THEN Late(p) ELSE UNCHANGED <<valid, spoiled>>
  /\ End(p)
  /\ UNCHANGED <<world, entries, lock, made, obs>>

ReleaseLock(p) == lock' = IF lock = p THEN None ELSE lock

TimerAfterLock(p) ==
  /\ pc[p] \in Awaits \ {"lock"} /\ expired[p]
  /\ Goto(p, "close")
  /\ ReleaseLock(p)
  /\ UNCHANGED <<world, entries, made, obs, valid, job, held, expired, probe, spoiled>>

(* timeout_at fires at an await: the pending future is dropped and with it *)
(* the mutex guard.                                                        *)
Timer(p) ==
  /\ pc[p] \in Awaits /\ expired[p]
  /\ Goto(p, "close")
  /\ ReleaseLock(p)
  /\ UNCHANGED <<world, entries, made, obs, valid, job, held, expired, probe, spoiled>>

(* The client goes away at an await.                                       *)
Cancel(p) ==
  /\ pc[p] \in Awaits
  /\ End(p)
  /\ ReleaseLock(p)
  /\ UNCHANGED <<world, entries, made, obs, valid, spoiled>>

Expire(p) ==
  /\ pc[p] # "idle" /\ ~expired[p]
  /\ expired' = [expired EXCEPT ![p] = TRUE]
  /\ UNCHANGED <<world, cache, pc, job, held, probe>>

(* Instant::elapsed, as far as TTL.                                        *)
Older(live, age) == IF live /\ age < TTL THEN age + 1 ELSE age

(* Time passes for everything that has an age.                             *)
Tick ==
  /\ obs' = [i \in Id |-> [obs[i] EXCEPT !.age = Older(i <= made, @)]]
  /\ probe' = [p \in Task |-> [probe[p] EXCEPT !.age = Older(pc[p] = "probe", @)]]
  /\ UNCHANGED <<world, entries, lock, made, valid, pc, job, held, expired, spoiled>>

(* The backend's connection comes up under a new epoch, or goes down.      *)
(* Evidence gathered before no longer speaks for the connection.           *)
EpochChange ==
  /\ \/ epochs < MaxEpoch /\ epochs' = epochs + 1 /\ epoch' = epochs'
     \/ epoch # 0 /\ epoch' = 0 /\ UNCHANGED epochs
  /\ spoiled' = spoiled \cup 1 .. made
  /\ UNCHANGED <<entries, lock, made, obs, valid, pc, job, held, expired, probe>>

Step(p) == Observe(p) \/ Verdict(p) \/ Submit(p) \/ Close(p)

Next ==
  \/ \E p \in Task : \/ \E j \in Jobs : Start(p, j)
                     \/ Step(p)
                     \/ \E v \in Values \cup {"error"} : ProbeReturns(p, v)
                     \/ ExecuteReturns(p) \/ Timer(p) \/ Expire(p) \/ Cancel(p)
  \/ Tick \/ EpochChange

Spec == Init /\ [][Next]_vars

(* Tasks are polled and the deadline's timer fires; the backend and the    *)
(* clients owe nothing.                                                    *)
Fairness == \A p \in Task : /\ WF_vars(Verdict(p) \/ Submit(p) \/ Close(p))
                            /\ WF_vars(Expire(p)) /\ WF_vars(Timer(p))
FairSpec == Spec /\ Fairness

-----------------------------------------------------------------------------
(* The values the variables take.                                          *)
TypeOK ==
  /\ epoch \in Nat /\ epochs \in Nat /\ made \in 0 .. MaxObs
  /\ entries \in [Object -> Id \cup {None}]
  /\ lock \in Task \cup {None}
  /\ obs \in [Id -> [object : Object \cup {None}, epoch : Nat, age : 0 .. TTL, value : Values]]
  /\ valid \in [Id -> BOOLEAN]
  /\ pc \in [Task -> Pcs]
  /\ job \in [Task -> Jobs]
  /\ held \in [Task -> Id \cup {Unknown, None}]
  /\ expired \in [Task -> BOOLEAN]
  /\ probe \in [Task -> [age : 0 .. TTL, previous : Nat]]
  /\ spoiled \subseteq Id

(* Evidence that admits an action is younger than TTL, from the current    *)
(* connection, was not revoked by a late invocation, and no newer probe of *)
(* the object has begun since, refresh or not, successful, failed or       *)
(* dropped (Observation::verdict on a clone that others can revoke).       *)
VerdictIsSound ==
  [][\A p \in Task : pc[p] = "issued" /\ pc'[p] = "submit" =>
        /\ held[p] \notin spoiled
        /\ obs[held[p]].age < TTL
        /\ obs[held[p]].epoch = epoch]_vars

(* A clone that is still valid is the map's current entry, so the next     *)
(* sweep, refresh or revocation reaches all the copies at once.  And while *)
(* the holder of the mutex, and nobody else, probes for an object, it has  *)
(* neither entry nor valid clone: a probe that fails or is dropped leaves  *)
(* nothing positive behind (CapabilityCache::observe).                     *)
CopiesAreCached ==
  \A p \in Task :
    /\ held[p] \in Id /\ valid[held[p]] => entries[obs[held[p]].object] = held[p]
    /\ pc[p] = "probe" =>
         /\ lock = p
         /\ entries[job[p].object] = None
         /\ \A i \in Id : obs[i].object = job[p].object => ~valid[i]

(* Every request gets its answer by its deadline, however long the holder  *)
(* of the mutex probes.                                                    *)
Served == \A p \in Task : pc[p] # "idle" ~> pc[p] = "idle"
=============================================================================
