------------------------ MODULE CapabilityCacheProofs ------------------------
(***************************************************************************)
(* Soundness of the capability cache for any number of tasks, objects,     *)
(* connections and observations.  What a verdict relies on is one flag,    *)
(* one epoch and one age; the inductive invariant says why those three are *)
(* enough: a valid observation is its object's entry, and one that must    *)
(* not be relied on has lost its flag or its epoch.                        *)
(***************************************************************************)
EXTENDS CapabilityCache, TLAPS

(* The mutex is held by the task that probes, for an object it has no      *)
(* entry of.                                                               *)
LockInv ==
  \A p \in Task :
    /\ pc[p] = "probe" <=> lock = p
    /\ pc[p] \in {"lock", "probe"} => job[p].object \in Object
    /\ pc[p] = "probe" => entries[job[p].object] = None

(* Epochs only grow; the current one is the last, or there is none.        *)
EpochInv == epoch \in {0, epochs}

(* Observations are made once, of a reviewed object over a connection.     *)
ObsInv ==
  \A i \in Id : IF i <= made
                  THEN obs[i].object \in Object /\ obs[i].epoch \in 1 .. epochs
                  ELSE obs[i].object = None /\ ~valid[i]

(* An entry is of its own object; a valid observation is an entry.         *)
EntryInv ==
  /\ \A o \in Object : entries[o] # None => obs[entries[o]].object = o
  /\ \A i \in Id : valid[i] => entries[obs[i].object] = i
  /\ \A p \in Task : held[p] \in Id => held[p] <= made

(* What must not be relied on was revoked, or is of another connection.    *)
SpoiledInv ==
  \A i \in spoiled : i <= made /\ (valid[i] => obs[i].epoch # epoch)

IInv == TypeOK /\ LockInv /\ EpochInv /\ ObsInv /\ EntryInv /\ SpoiledInv

-----------------------------------------------------------------------------
(* Revocation only takes flags away, and spoils only what it revokes: the  *)
(* cache's part of the invariant survives every step that does no more.    *)
Weaker ==
  /\ UNCHANGED <<epoch, epochs, entries, made, obs>>
  /\ valid' \in [Id -> BOOLEAN] /\ \A i \in Id : valid'[i] => valid[i]
  /\ spoiled' \subseteq Id
  /\ \A i \in spoiled' : i \in spoiled \/ (i <= made /\ ~valid'[i])

(* A step that only weakens the cache keeps the cache's invariant.         *)
LEMMA WeakerKeeps ==
  ASSUME IInv, Weaker, \A q \in Task : held'[q] \in Id => held'[q] <= made
  PROVE  EpochInv' /\ ObsInv' /\ EntryInv' /\ SpoiledInv'
<1>1. EpochInv' /\ ObsInv'
  BY DEF IInv, Weaker, EpochInv, ObsInv
<1>2. EntryInv'
  BY DEF IInv, Weaker, EntryInv
<1>3. SpoiledInv'
  <2> SUFFICES ASSUME NEW i \in spoiled' PROVE i <= made /\ (valid'[i] => obs[i].epoch # epoch)
    BY DEF SpoiledInv, Weaker
  <2>1. i \in Id
    BY DEF Weaker
  <2>q. QED  BY <2>1 DEF IInv, Weaker, SpoiledInv
<1>q. QED  BY <1>1, <1>2, <1>3

(* A late task revokes its observation and weakens nothing else.           *)
LEMMA LateWeakens ==
  ASSUME IInv, NEW p \in Task,
         Late(p) \/ UNCHANGED <<valid, spoiled>>, UNCHANGED <<epoch, epochs, entries, made, obs>>
  PROVE  Weaker
<1>1. CASE Late(p) /\ held[p] \in Id
  <2>1. valid' = [valid EXCEPT ![held[p]] = FALSE] /\ spoiled' = spoiled \cup {held[p]}
    BY <1>1 DEF Late, Revoke
  <2>2. held[p] <= made
    BY <1>1 DEF IInv, EntryInv
  <2>q. QED  BY <1>1, <2>1, <2>2 DEF IInv, TypeOK, Weaker
<1>2. CASE Late(p) /\ held[p] \notin Id
  BY <1>2 DEF Late, Revoke, IInv, TypeOK, Weaker
<1>3. CASE UNCHANGED <<valid, spoiled>>
  BY <1>3 DEF IInv, TypeOK, Weaker
<1>q. QED  BY <1>1, <1>2, <1>3

(* A task that goes where no probe is, without the mutex or giving it up,  *)
(* keeps the mutex's invariant.                                            *)
LEMMA LockKept ==
  ASSUME IInv, NEW p \in Task, NEW l \in Pcs \ {"probe"}, Goto(p, l), UNCHANGED entries,
         lock' = (IF lock = p THEN None ELSE lock),
         job' \in [Task -> Jobs], \A q \in Task \ {p} : job'[q] = job[q],
         l = "lock" => job'[p].object \in Object
  PROVE  LockInv' /\ pc' \in [Task -> Pcs] /\ lock' \in Task \cup {None}
<1>1. /\ pc' \in [Task -> Pcs] /\ pc'[p] = l
      /\ \A q \in Task \ {p} : pc'[q] = pc[q]
  BY DEF Goto, IInv, TypeOK
<1>2. lock' \in Task \cup {None} /\ lock' # p /\ \A q \in Task \ {p} : lock' = q <=> lock = q
  BY CacheAssumption DEF IInv, TypeOK
<1>3. ASSUME NEW q \in Task
      PROVE  /\ pc'[q] = "probe" <=> lock' = q
             /\ pc'[q] \in {"lock", "probe"} => job'[q].object \in Object
             /\ pc'[q] = "probe" => entries'[job'[q].object] = None
  <2>1. CASE q = p
    BY <1>1, <1>2, <2>1
  <2>2. CASE q # p
    BY <1>1, <1>2, <2>2 DEF IInv, LockInv
  <2>q. QED  BY <2>1, <2>2
<1>q. QED  BY <1>1, <1>2, <1>3 DEF LockInv

(* The end of a future.                                                    *)
LEMMA EndKeeps ==
  ASSUME IInv, NEW p \in Task, End(p)
  PROVE  /\ Goto(p, "idle")
         /\ job' \in [Task -> Jobs] /\ (\A q \in Task \ {p} : job'[q] = job[q])
         /\ held' \in [Task -> Id \cup {Unknown, None}]
         /\ \A q \in Task : held'[q] \in Id => held'[q] <= made
         /\ expired' \in [Task -> BOOLEAN]
         /\ probe' \in [Task -> [age : 0 .. TTL, previous : Nat]]
<1>1. NoJob \in Jobs /\ NoProbe \in [age : 0 .. TTL, previous : Nat]
  BY CacheAssumption DEF NoJob, Jobs, Uses, NoProbe
<1>2. None \notin Id
  BY CacheAssumption DEF Id
<1>3. /\ job' \in [Task -> Jobs] /\ (\A q \in Task \ {p} : job'[q] = job[q])
      /\ expired' \in [Task -> BOOLEAN]
      /\ probe' \in [Task -> [age : 0 .. TTL, previous : Nat]]
  BY <1>1 DEF End, IInv, TypeOK
<1>4. /\ held' \in [Task -> Id \cup {Unknown, None}]
      /\ \A q \in Task : held'[q] \in Id => held'[q] <= made
  BY <1>2 DEF End, IInv, TypeOK, EntryInv
<1>q. QED  BY <1>3, <1>4 DEF End

(* Sweep, hit or the start of a probe.  What leaves the map loses its      *)
(* flag, so a probe begins with nothing valid of its object.               *)
LEMMA ObserveKeeps ==
  ASSUME IInv, NEW p \in Task, Observe(p)
  PROVE  IInv'
<1> DEFINE o    == job[p].object
           hit  == job[p].use # "refresh" /\ entries[o] # None /\ o \notin Dropped
           gone == IF hit THEN Dropped ELSE Dropped \cup {o}
<1>1. /\ pc[p] = "lock" /\ lock = None
      /\ entries' = [q \in Object |-> IF q \in gone THEN None ELSE entries[q]]
      /\ valid' = [i \in Id |-> valid[i] /\ \A q \in gone : entries[q] # i]
      /\ IF hit
           THEN /\ held' = [held EXCEPT ![p] = entries[o]]
                /\ Goto(p, "issued")
                /\ UNCHANGED <<lock, probe, spoiled>>
           ELSE /\ lock' = p
                /\ probe' = [probe EXCEPT ![p] = [age |-> 0, previous |-> epoch]]
                /\ spoiled' = spoiled \cup {i \in Id : obs[i].object = o}
                /\ Goto(p, "probe")
                /\ UNCHANGED held
      /\ UNCHANGED <<epoch, epochs, made, obs, job, expired>>
  BY DEF Observe, world
<1>2. /\ o \in Object /\ None \notin Object /\ None \notin Id
      /\ \A q \in Task : pc[q] # "probe" /\ q # None
  BY <1>1, CacheAssumption DEF IInv, LockInv, Id
<1> HIDE DEF hit, gone
<1>3. hit => entries[o] \in Id /\ entries[o] <= made
  <2> SUFFICES ASSUME hit PROVE entries[o] \in Id /\ entries[o] <= made
    OBVIOUS
  <2>1. entries[o] \in Id
    BY <1>2 DEF hit, IInv, TypeOK
  <2>2. obs[entries[o]].object = o
    BY <1>2 DEF hit, IInv, EntryInv
  <2>3. ~(entries[o] <= made) => obs[entries[o]].object = None
    BY <2>1 DEF IInv, ObsInv
  <2>q. QED  BY <1>2, <2>1, <2>2, <2>3
<1>4. /\ pc' \in [Task -> Pcs] /\ pc'[p] = IF hit THEN "issued" ELSE "probe"
      /\ \A q \in Task \ {p} : pc'[q] = pc[q]
  BY <1>1 DEF Goto, IInv, TypeOK, Pcs, Awaits
<1>5. TypeOK'
  <2>1. entries' \in [Object -> Id \cup {None}] /\ valid' \in [Id -> BOOLEAN]
    BY <1>1 DEF IInv, TypeOK
  <2>2. held' \in [Task -> Id \cup {Unknown, None}] /\ lock' \in Task \cup {None} /\ spoiled' \subseteq Id
    BY <1>1, <1>3 DEF IInv, TypeOK
  <2>3. probe' \in [Task -> [age : 0 .. TTL, previous : Nat]]
    <3>1. [age |-> 0, previous |-> epoch] \in [age : 0 .. TTL, previous : Nat]
      BY CacheAssumption DEF IInv, TypeOK
    <3>q. QED  BY <1>1, <3>1 DEF IInv, TypeOK
  <2>q. QED  BY <1>1, <1>4, <2>1, <2>2, <2>3 DEF IInv, TypeOK
<1>6. LockInv'
  <2>1. ~hit => entries'[o] = None
    BY <1>1, <1>2 DEF gone
  <2>2. lock' = IF hit THEN None ELSE p
    BY <1>1
  <2>3. ASSUME NEW q \in Task
        PROVE  /\ pc'[q] = "probe" <=> lock' = q
               /\ pc'[q] \in {"lock", "probe"} => job'[q].object \in Object
               /\ pc'[q] = "probe" => entries'[job'[q].object] = None
    <3>1. CASE q = p
      BY <1>1, <1>2, <1>4, <2>1, <2>2, <3>1
    <3>2. CASE q # p
      BY <1>1, <1>2, <1>4, <2>2, <3>2 DEF IInv, LockInv
    <3>q. QED  BY <3>1, <3>2
  <2>q. QED  BY <2>3 DEF LockInv
<1>7. EpochInv' /\ ObsInv'
  BY <1>1 DEF IInv, EpochInv, ObsInv
<1>8. EntryInv'
  <2>1. \A q \in Object : entries'[q] # None => entries'[q] = entries[q]
    BY <1>1
  <2>2. \A i \in Id : valid'[i] => entries'[obs[i].object] = i
    <3> SUFFICES ASSUME NEW i \in Id, valid'[i] PROVE entries'[obs[i].object] = i
      OBVIOUS
    <3>1. valid[i] /\ \A q \in gone : entries[q] # i
      BY <1>1
    <3>2. entries[obs[i].object] = i /\ obs[i].object \in Object
      BY <3>1 DEF IInv, EntryInv, ObsInv
    <3>q. QED  BY <1>1, <3>1, <3>2
  <2>3. \A q \in Task : held'[q] \in Id => held'[q] <= made
    BY <1>1, <1>3 DEF IInv, TypeOK, EntryInv
  <2>q. QED  BY <1>1, <2>1, <2>2, <2>3 DEF IInv, EntryInv
<1>9. SpoiledInv'
  <2> SUFFICES ASSUME NEW i \in spoiled' PROVE i <= made /\ (valid'[i] => obs[i].epoch # epoch)
    BY <1>1 DEF SpoiledInv
  <2>1. CASE i \in spoiled
    BY <1>1, <2>1 DEF IInv, TypeOK, SpoiledInv
  <2>2. CASE i \notin spoiled
    <3>1. ~hit /\ i \in Id /\ obs[i].object = o
      BY <1>1, <2>2
    <3>2. i <= made
      BY <1>2, <3>1 DEF IInv, ObsInv
    <3>3. ~valid'[i]
      BY <1>1, <3>1 DEF gone, IInv, EntryInv
    <3>q. QED  BY <3>2, <3>3
  <2>q. QED  BY <2>1, <2>2
<1>q. QED  BY <1>5, <1>6, <1>7, <1>8, <1>9 DEF IInv

(* The probe's answer: a new observation becomes the entry of an object    *)
(* that has none.                                                          *)
LEMMA ProbeReturnsKeeps ==
  ASSUME IInv, NEW p \in Task, NEW v \in Values \cup {"error"}, ProbeReturns(p, v)
  PROVE  IInv'
<1>1. /\ pc[p] = "probe" /\ lock = p /\ lock' = None
      /\ probe' = [probe EXCEPT ![p] = NoProbe]
      /\ UNCHANGED <<epoch, epochs, job, expired, spoiled>>
  BY DEF ProbeReturns, world, IInv, LockInv
<1>2. NoProbe \in [age : 0 .. TTL, previous : Nat] /\ None \notin Id /\ Unknown \notin Id
  BY CacheAssumption DEF NoProbe, Id, Unknown
<1>3. PICK l \in Pcs \ {"probe", "lock"} : Goto(p, l)
  BY DEF ProbeReturns, Pcs, Awaits
<1>4. /\ probe' \in [Task -> [age : 0 .. TTL, previous : Nat]]
      /\ lock' = IF lock = p THEN None ELSE lock
      /\ job' \in [Task -> Jobs]
  BY <1>1, <1>2 DEF IInv, TypeOK
<1>5. CASE UNCHANGED <<entries, made, obs, valid>> /\ (held' = held \/ held' = [held EXCEPT ![p] = Unknown])
  <2>1. Weaker
    BY <1>1, <1>5 DEF Weaker, IInv, TypeOK
  <2>2. /\ held' \in [Task -> Id \cup {Unknown, None}]
        /\ \A q \in Task : held'[q] \in Id => held'[q] <= made
    BY <1>2, <1>5 DEF IInv, TypeOK, EntryInv
  <2>3. LockInv' /\ pc' \in [Task -> Pcs] /\ lock' \in Task \cup {None}
    BY <1>1, <1>3, <1>4, <1>5, LockKept
  <2>4. EpochInv' /\ ObsInv' /\ EntryInv' /\ SpoiledInv'
    BY <2>1, <2>2, WeakerKeeps
  <2>5. TypeOK'
    BY <1>1, <1>4, <1>5, <2>2, <2>3 DEF IInv, TypeOK
  <2>q. QED  BY <2>3, <2>4, <2>5 DEF IInv
<1>6. CASE ~(UNCHANGED <<entries, made, obs, valid>> /\ (held' = held \/ held' = [held EXCEPT ![p] = Unknown]))
  <2> DEFINE n == made + 1
             o == job[p].object
             new == [object |-> o, epoch |-> epoch, age |-> probe[p].age, value |-> v]
  <2>1. /\ v \in Values /\ epoch # 0 /\ made < MaxObs /\ made' = n
        /\ obs' = [obs EXCEPT ![n] = new]
        /\ valid' = [valid EXCEPT ![n] = TRUE]
        /\ entries' = [entries EXCEPT ![o] = n]
        /\ held' = [held EXCEPT ![p] = n]
    BY <1>6 DEF ProbeReturns
  <2>2. o \in Object /\ entries[o] = None /\ o # None
    BY <1>1, CacheAssumption DEF IInv, LockInv
  <2>3. n \in Id /\ made \in Nat /\ made' \in 0 .. MaxObs
    BY <2>1, CacheAssumption DEF IInv, TypeOK, Id
  <2>4. new \in [object : Object \cup {None}, epoch : Nat, age : 0 .. TTL, value : Values]
    BY <2>1, <2>2 DEF IInv, TypeOK
  <2> HIDE DEF n, new
  <2>5. /\ obs'[n] = new /\ valid'[n] /\ entries'[o] = n /\ held'[p] = n
        /\ \A i \in Id \ {n} : obs'[i] = obs[i] /\ valid'[i] = valid[i]
        /\ \A q \in Object \ {o} : entries'[q] = entries[q]
        /\ \A q \in Task \ {p} : held'[q] = held[q]
    BY <2>1, <2>2, <2>3 DEF IInv, TypeOK
  <2>6. LockInv' /\ pc' \in [Task -> Pcs]
    <3>1. /\ pc' \in [Task -> Pcs] /\ pc'[p] = l
          /\ \A q \in Task \ {p} : pc'[q] = pc[q] /\ pc[q] # "probe"
      BY <1>1, <1>3 DEF Goto, IInv, TypeOK, LockInv
    <3>2. ASSUME NEW q \in Task
          PROVE  pc'[q] # "probe" /\ lock' # q /\ (pc'[q] = "lock" => job'[q].object \in Object)
      BY <1>1, <1>3, <3>1, CacheAssumption DEF IInv, LockInv
    <3>q. QED  BY <3>1, <3>2 DEF LockInv
  <2>7. TypeOK'
    <3>1. obs' \in [Id -> [object : Object \cup {None}, epoch : Nat, age : 0 .. TTL, value : Values]]
      BY <2>1, <2>3, <2>4 DEF IInv, TypeOK
    <3>2. valid' \in [Id -> BOOLEAN] /\ entries' \in [Object -> Id \cup {None}]
      BY <2>1, <2>3 DEF IInv, TypeOK
    <3>3. held' \in [Task -> Id \cup {Unknown, None}]
      BY <2>1, <2>3 DEF IInv, TypeOK
    <3>q. QED  BY <1>1, <1>4, <2>3, <2>6, <3>1, <3>2, <3>3 DEF IInv, TypeOK
  <2>8. new.object = o /\ new.epoch = epoch /\ epoch \in 1 .. epochs
    BY <2>1 DEF new, IInv, TypeOK, EpochInv
  <2>9. EpochInv' /\ ObsInv'
    <3>1. ASSUME NEW i \in Id
          PROVE  IF i <= n THEN obs'[i].object \in Object /\ obs'[i].epoch \in 1 .. epochs
                           ELSE obs'[i].object = None /\ ~valid'[i]
      <4>1. CASE i = n
        BY <2>2, <2>3, <2>5, <2>8, <4>1 DEF Id
      <4>2. CASE i # n
        <5>1. i <= n <=> i <= made
          BY <2>3, <4>2 DEF n, Id
        <5>q. QED  BY <2>5, <4>2, <5>1 DEF IInv, ObsInv
      <4>q. QED  BY <4>1, <4>2
    <3>q. QED  BY <1>1, <2>1, <3>1 DEF IInv, EpochInv, ObsInv
  <2>10. \A i \in Id : i <= made => i # n /\ i <= n
    BY <2>3 DEF n, Id
  <2>11. EntryInv'
    <3>1. ASSUME NEW q \in Object, entries'[q] # None PROVE obs'[entries'[q]].object = q
      <4>1. CASE q = o
        BY <2>5, <2>8, <4>1
      <4>2. CASE q # o
        <5>1. entries'[q] = entries[q] /\ entries[q] \in Id /\ obs[entries[q]].object = q
          BY <2>5, <3>1, <4>2 DEF IInv, TypeOK, EntryInv
        <5>2. entries[q] # n
          <6>1. ~(n <= made)
            BY <2>3 DEF n
          <6>q. QED  BY <2>3, <5>1, <6>1, CacheAssumption DEF IInv, ObsInv
        <5>q. QED  BY <2>5, <5>1, <5>2
      <4>q. QED  BY <4>1, <4>2
    <3>2. ASSUME NEW i \in Id, valid'[i] PROVE entries'[obs'[i].object] = i
      <4>1. CASE i = n
        BY <2>5, <2>8, <4>1
      <4>2. CASE i # n
        <5>1. obs'[i] = obs[i] /\ valid[i]
          BY <2>5, <3>2, <4>2
        <5>2. obs[i].object \in Object /\ entries[obs[i].object] = i
          BY <5>1 DEF IInv, ObsInv, EntryInv
        <5>3. obs[i].object # o
          BY <1>2, <2>2, <5>2
        <5>q. QED  BY <2>5, <5>1, <5>2, <5>3
      <4>q. QED  BY <4>1, <4>2
    <3>3. ASSUME NEW q \in Task, held'[q] \in Id PROVE held'[q] <= n
      <4>1. CASE q = p
        BY <2>3, <2>5, <4>1 DEF Id
      <4>2. CASE q # p
        BY <2>5, <2>10, <3>3, <4>2 DEF IInv, EntryInv
      <4>q. QED  BY <4>1, <4>2
    <3>q. QED  BY <2>1, <3>1, <3>2, <3>3 DEF EntryInv
  <2>12. SpoiledInv'
    <3> SUFFICES ASSUME NEW i \in spoiled PROVE i <= n /\ (valid'[i] => obs'[i].epoch # epoch)
      BY <1>1, <2>1 DEF SpoiledInv
    <3>1. i \in Id /\ i <= made /\ (valid[i] => obs[i].epoch # epoch)
      BY DEF IInv, TypeOK, SpoiledInv
    <3>q. QED  BY <2>5, <2>10, <3>1
  <2>q. QED  BY <2>6, <2>7, <2>9, <2>11, <2>12 DEF IInv
<1>q. QED  BY <1>5, <1>6

(* The steps of a task that touch the cache at most by a late revocation:  *)
(* it goes on without the mutex, or ends.                                  *)
LEMMA TaskStepKeeps ==
  ASSUME IInv, NEW p \in Task, NEW l \in Pcs \ {"probe", "lock"}, Goto(p, l), Weaker,
         lock' = (IF lock = p THEN None ELSE lock),
         End(p) \/ UNCHANGED <<job, held, expired, probe>>
  PROVE  IInv'
<1>1. /\ job' \in [Task -> Jobs] /\ (\A q \in Task \ {p} : job'[q] = job[q])
      /\ held' \in [Task -> Id \cup {Unknown, None}]
      /\ \A q \in Task : held'[q] \in Id => held'[q] <= made
      /\ expired' \in [Task -> BOOLEAN]
      /\ probe' \in [Task -> [age : 0 .. TTL, previous : Nat]]
  <2>1. CASE End(p)
    BY <2>1, EndKeeps
  <2>2. CASE UNCHANGED <<job, held, expired, probe>>
    BY <2>2 DEF IInv, TypeOK, EntryInv
  <2>q. QED  BY <2>1, <2>2
<1>2. EpochInv' /\ ObsInv' /\ EntryInv' /\ SpoiledInv'
  BY <1>1, WeakerKeeps
<1>3. LockInv' /\ pc' \in [Task -> Pcs] /\ lock' \in Task \cup {None}
  BY <1>1, LockKept DEF Weaker
<1>4. TypeOK'
  BY <1>1, <1>3 DEF IInv, TypeOK, Weaker
<1>q. QED  BY <1>2, <1>3, <1>4 DEF IInv

(* Every step of the cache and its users keeps the invariant.              *)
LEMMA Kept == IInv /\ [Next]_vars => IInv'
<1> SUFFICES ASSUME IInv, [Next]_vars PROVE IInv'
  OBVIOUS
<1>1. ASSUME NEW p \in Task, NEW j \in Jobs, Start(p, j)
      PROVE  IInv'
  <2> DEFINE l == IF j.object = None THEN "issued" ELSE "lock"
  <2>1. /\ pc[p] = "idle" /\ job' = [job EXCEPT ![p] = j] /\ Goto(p, l)
        /\ held' = held \/ held' = [held EXCEPT ![p] = Unknown]
        /\ UNCHANGED <<epoch, epochs, entries, lock, made, obs, valid, spoiled, expired, probe>>
    BY <1>1 DEF Start, world, cache
  <2>2. l \in Pcs \ {"probe"}
    BY DEF Pcs, Awaits
  <2>3. /\ job' \in [Task -> Jobs] /\ (\A q \in Task \ {p} : job'[q] = job[q])
        /\ l = "lock" => job'[p].object \in Object
    BY <2>1 DEF IInv, TypeOK, Jobs
  <2>4. lock' = IF lock = p THEN None ELSE lock
    BY <2>1 DEF IInv, LockInv
  <2>5. LockInv' /\ pc' \in [Task -> Pcs] /\ lock' \in Task \cup {None}
    BY <2>1, <2>2, <2>3, <2>4, LockKept
  <2>6. /\ held' \in [Task -> Id \cup {Unknown, None}]
        /\ \A q \in Task : held'[q] \in Id => held'[q] <= made
    <3>1. Unknown \notin Id
      BY DEF Unknown, Id
    <3>q. QED  BY <2>1, <3>1 DEF IInv, TypeOK, EntryInv
  <2>7. EpochInv' /\ ObsInv' /\ EntryInv' /\ SpoiledInv'
    BY <2>1, <2>6, WeakerKeeps DEF Weaker, IInv, TypeOK
  <2>8. TypeOK'
    BY <2>1, <2>3, <2>5, <2>6 DEF IInv, TypeOK
  <2>q. QED  BY <2>5, <2>7, <2>8 DEF IInv
<1>2. ASSUME NEW p \in Task, Verdict(p) \/ Submit(p) \/ ExecuteReturns(p) \/ Close(p)
      PROVE  IInv'
  <2>1. /\ pc[p] # "probe" /\ UNCHANGED <<epoch, epochs, entries, lock, made, obs>>
        /\ Late(p) \/ UNCHANGED <<valid, spoiled>>
        /\ End(p) \/ UNCHANGED <<job, held, expired, probe>>
    BY <1>2 DEF Verdict, Submit, ExecuteReturns, Close, world
  <2>2. \E l \in Pcs \ {"probe", "lock"} : Goto(p, l)
    BY <1>2 DEF Verdict, Submit, ExecuteReturns, Close, End, Pcs, Awaits
  <2>3. lock' = IF lock = p THEN None ELSE lock
    BY <2>1 DEF IInv, LockInv
  <2>q. QED  BY <2>1, <2>2, <2>3, LateWeakens, TaskStepKeeps
<1>3. ASSUME NEW p \in Task, Timer(p) \/ Cancel(p)
      PROVE  IInv'
  <2>1. /\ UNCHANGED <<epoch, epochs, entries, made, obs, valid, spoiled>>
        /\ lock' = IF lock = p THEN None ELSE lock
        /\ End(p) \/ UNCHANGED <<job, held, expired, probe>>
    BY <1>3 DEF Timer, Cancel, ReleaseLock, world
  <2>2. \E l \in Pcs \ {"probe", "lock"} : Goto(p, l)
    BY <1>3 DEF Timer, Cancel, End, Pcs
  <2>q. QED  BY <2>1, <2>2, LateWeakens, TaskStepKeeps
<1>4. ASSUME NEW p \in Task, Expire(p)
      PROVE  IInv'
  <2>1. /\ expired' = [expired EXCEPT ![p] = TRUE]
        /\ UNCHANGED <<epoch, epochs, entries, lock, made, obs, valid, spoiled, pc, job, held, probe>>
    BY <1>4 DEF Expire, world, cache
  <2>2. TypeOK'
    BY <2>1 DEF IInv, TypeOK
  <2>q. QED  BY <2>1, <2>2 DEF IInv, LockInv, EpochInv, ObsInv, EntryInv, SpoiledInv
<1>5. CASE Tick
  <2>1. UNCHANGED <<epoch, epochs, entries, lock, made, valid, pc, job, held, expired, spoiled>>
    BY <1>5 DEF Tick, world
  <2>2. /\ obs' \in [Id -> [object : Object \cup {None}, epoch : Nat, age : 0 .. TTL, value : Values]]
        /\ \A i \in Id : obs'[i].object = obs[i].object /\ obs'[i].epoch = obs[i].epoch
    <3>1. ASSUME NEW i \in Id
          PROVE  /\ obs'[i] \in [object : Object \cup {None}, epoch : Nat, age : 0 .. TTL, value : Values]
                 /\ obs'[i].object = obs[i].object /\ obs'[i].epoch = obs[i].epoch
      <4>1. obs'[i] = [obs[i] EXCEPT !.age = Older(i <= made, obs[i].age)]
        BY <1>5 DEF Tick
      <4>2. obs[i] \in [object : Object \cup {None}, epoch : Nat, age : 0 .. TTL, value : Values]
        BY DEF IInv, TypeOK
      <4>3. Older(i <= made, obs[i].age) \in 0 .. TTL
        BY <4>2, CacheAssumption DEF Older
      <4>q. QED  BY <4>1, <4>2, <4>3
    <3>2. obs' = [i \in Id |-> obs'[i]]
      BY <1>5 DEF Tick
    <3>q. QED  BY <3>1, <3>2
  <2>3. probe' \in [Task -> [age : 0 .. TTL, previous : Nat]]
    <3>1. ASSUME NEW p \in Task PROVE probe'[p] \in [age : 0 .. TTL, previous : Nat]
      <4>1. probe'[p] = [probe[p] EXCEPT !.age = Older(pc[p] = "probe", probe[p].age)]
        BY <1>5 DEF Tick
      <4>2. probe[p] \in [age : 0 .. TTL, previous : Nat]
        BY DEF IInv, TypeOK
      <4>3. Older(pc[p] = "probe", probe[p].age) \in 0 .. TTL
        BY <4>2, CacheAssumption DEF Older
      <4>q. QED  BY <4>1, <4>2, <4>3
    <3>2. probe' = [p \in Task |-> probe'[p]]
      BY <1>5 DEF Tick
    <3>q. QED  BY <3>1, <3>2
  <2>4. TypeOK'
    BY <2>1, <2>2, <2>3 DEF IInv, TypeOK
  <2>5. LockInv' /\ EpochInv' /\ ObsInv'
    BY <2>1, <2>2 DEF IInv, LockInv, EpochInv, ObsInv
  <2>6. EntryInv'
    BY <2>1, <2>2 DEF IInv, TypeOK, EntryInv
  <2>7. SpoiledInv'
    BY <2>1, <2>2 DEF IInv, TypeOK, SpoiledInv
  <2>q. QED  BY <2>4, <2>5, <2>6, <2>7 DEF IInv
<1>6. CASE EpochChange
  <2>1. /\ \/ epochs' = epochs + 1 /\ epoch' = epochs + 1
           \/ epochs' = epochs /\ epoch' = 0
        /\ spoiled' = spoiled \cup 1 .. made
        /\ UNCHANGED <<entries, lock, made, obs, valid, pc, job, held, expired, probe>>
    BY <1>6 DEF EpochChange
  <2>2. 1 .. made \subseteq Id
    BY CacheAssumption DEF IInv, TypeOK, Id
  <2>3. TypeOK' /\ EpochInv'
    BY <2>1, <2>2 DEF IInv, TypeOK, EpochInv
  <2>4. LockInv' /\ EntryInv'
    BY <2>1 DEF IInv, LockInv, EntryInv
  <2>5. ObsInv'
    <3> SUFFICES ASSUME NEW i \in Id
                 PROVE  IF i <= made THEN obs[i].object \in Object /\ obs[i].epoch \in 1 .. epochs'
                                     ELSE obs[i].object = None /\ ~valid[i]
      BY <2>1 DEF ObsInv
    <3>1. 1 .. epochs \subseteq 1 .. epochs'
      BY <2>1 DEF IInv, TypeOK
    <3>q. QED  BY <3>1 DEF IInv, ObsInv
  <2>6. SpoiledInv'
    <3> SUFFICES ASSUME NEW i \in spoiled' PROVE i <= made /\ obs[i].epoch # epoch'
      BY <2>1 DEF SpoiledInv
    <3>1. i \in Id /\ i <= made
      BY <2>1, <2>2 DEF IInv, TypeOK, SpoiledInv
    <3>2. obs[i].epoch \in 1 .. epochs
      BY <3>1 DEF IInv, ObsInv
    <3>q. QED  BY <2>1, <3>1, <3>2 DEF IInv, TypeOK
  <2>q. QED  BY <2>3, <2>4, <2>5, <2>6 DEF IInv
<1>7. CASE UNCHANGED vars
  BY <1>7 DEF vars, IInv, TypeOK, LockInv, EpochInv, ObsInv, EntryInv, SpoiledInv
<1>q. QED
  BY <1>1, <1>2, <1>3, <1>4, <1>5, <1>6, <1>7, ObserveKeeps, ProbeReturnsKeeps DEF Next, Step

(* Every reachable state of cache and tasks satisfies the invariant.       *)
THEOREM InvariantHolds == Spec => []IInv
<1>1. Init => IInv
  <2> SUFFICES ASSUME Init PROVE IInv
    OBVIOUS
  <2>1. TypeOK
    <3>1. /\ NoObs \in [object : Object \cup {None}, epoch : Nat, age : 0 .. TTL, value : Values]
          /\ NoProbe \in [age : 0 .. TTL, previous : Nat] /\ NoJob \in Jobs
      BY CacheAssumption DEF NoObs, NoProbe, NoJob, Jobs, Uses, Values
    <3>2. "idle" \in Pcs /\ made \in 0 .. MaxObs
      BY CacheAssumption DEF Pcs, Init
    <3>q. QED  BY <3>1, <3>2 DEF Init, TypeOK
  <2>2. LockInv
    BY CacheAssumption DEF Init, LockInv
  <2>3. ObsInv
    BY DEF Init, ObsInv, Id, NoObs
  <2>4. EpochInv /\ EntryInv /\ SpoiledInv
    BY CacheAssumption DEF Init, EpochInv, EntryInv, SpoiledInv, Id
  <2>q. QED  BY <2>1, <2>2, <2>3, <2>4 DEF IInv
<1>q. QED  BY <1>1, Kept, PTL DEF Spec

(* A valid clone is its object's entry, and a probe's holder of the mutex  *)
(* finds nothing valid of its object, whatever fails, times out or is      *)
(* dropped (CapabilityCache::observe, Observation::revoke).                *)
THEOREM ClonesAreCached == Spec => []CopiesAreCached
<1>1. IInv => CopiesAreCached
  <2> SUFFICES ASSUME IInv, NEW p \in Task
               PROVE  /\ held[p] \in Id /\ valid[held[p]] => entries[obs[held[p]].object] = held[p]
                      /\ pc[p] = "probe" =>
                           /\ lock = p
                           /\ entries[job[p].object] = None
                           /\ \A i \in Id : obs[i].object = job[p].object => ~valid[i]
    BY DEF CopiesAreCached
  <2>1. None \notin Id
    BY CacheAssumption DEF Id
  <2>q. QED  BY <2>1 DEF IInv, LockInv, EntryInv
<1>q. QED  BY InvariantHolds, <1>1, PTL

(* Evidence that admits an action has not been superseded, revoked or      *)
(* outlived by its connection (Observation::verdict), although the check   *)
(* reads only a flag, an epoch and an age.                                 *)
THEOREM VerdictSoundness == Spec => VerdictIsSound
<1> DEFINE Sound == \A p \in Task : pc[p] = "issued" /\ pc'[p] = "submit" =>
                       /\ held[p] \notin spoiled
                       /\ obs[held[p]].age < TTL
                       /\ obs[held[p]].epoch = epoch
<1>1. IInv /\ [Next]_vars => [Sound]_vars
  <2> SUFFICES ASSUME IInv, Next, NEW p \in Task, pc[p] = "issued", pc'[p] = "submit"
               PROVE  /\ held[p] \notin spoiled
                      /\ obs[held[p]].age < TTL
                      /\ obs[held[p]].epoch = epoch
    OBVIOUS
  <2>1. Verdict(p)
    <3>1. ASSUME NEW q \in Task, NEW l, Goto(q, l), q # p \/ l # "submit" PROVE FALSE
      BY <3>1 DEF Goto, IInv, TypeOK
    <3>2. ASSUME NEW q \in Task, NEW j \in Jobs, Start(q, j) PROVE FALSE
      BY <3>1, <3>2 DEF Start
    <3>3. ASSUME NEW q \in Task, Observe(q) PROVE FALSE
      BY <3>1, <3>3 DEF Observe
    <3>4. ASSUME NEW q \in Task, NEW v, ProbeReturns(q, v) PROVE FALSE
      BY <3>1, <3>4 DEF ProbeReturns
    <3>5. ASSUME NEW q \in Task, Submit(q) \/ ExecuteReturns(q) \/ Close(q) \/ Timer(q) \/ Cancel(q) PROVE FALSE
      BY <3>1, <3>5 DEF Submit, ExecuteReturns, Close, Timer, Cancel, End
    <3>6. pc' # pc
      OBVIOUS
    <3>7. ASSUME NEW q \in Task, Verdict(q) PROVE q = p
      BY <3>1, <3>7 DEF Verdict
    <3>q. QED
      BY <3>2, <3>3, <3>4, <3>5, <3>6, <3>7 DEF Next, Step, Expire, Tick, EpochChange
  <2>2. Fresh(held[p])
    <3>1. ASSUME Goto(p, "close") PROVE FALSE
      BY <3>1 DEF Goto, IInv, TypeOK
    <3>q. QED  BY <2>1, <3>1 DEF Verdict
  <2>q. QED  BY <2>2 DEF Fresh, IInv, SpoiledInv
<1>2. VerdictIsSound <=> [][Sound]_vars
  BY DEF VerdictIsSound
<1>q. QED  BY InvariantHolds, <1>1, <1>2, PTL DEF Spec
=============================================================================
