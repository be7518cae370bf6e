---------------------------- MODULE BackupProofs ----------------------------
(***************************************************************************)
(* The backup worker for any number of owners, any captures and limits.    *)
(* First its slot and what a thread reports of the store, where nothing    *)
(* depends on what a validator answers.  Then the tar validator: fed in    *)
(* any chunks, it accepts exactly the archives of the reference.  Last the *)
(* verdict of a thread on a tar capture, which needs both.                 *)
(***************************************************************************)
EXTENDS Backup, NaturalsInduction, WellFoundedInduction, TLAPS

Fields == {"pc", "plan", "check", "fed", "staging", "counts", "publication", "fault",
           "before", "after", "result"}
Unpublished == {"start", "open", "seal", "read", "finish", "publish", "append"}
Inspecting  == {"inspect", "decrypt", "compare", "feed"}
Standing    == {"claimed", "holds", "joining", "joined"}   \* stand for the slot

(* The values the variables take, as far as the proofs ask.                *)
TypeOK ==
    /\ active \in BOOLEAN
    /\ own \in [Owners -> {"idle", "done"} \cup Standing]
    /\ DOMAIN thread = Owners
    /\ capture \in DOMAIN Captures
    /\ record \in [length : Int, sound : BOOLEAN] \cup {None, Torn}
    /\ \A o \in Owners :
         /\ DOMAIN thread[o] = Fields /\ thread[o].staging \in Int
         /\ thread[o].pc \in {"none", "writing", "synced", "end", "exited"} \cup Unpublished \cup Inspecting

(* One owner at most stands for the slot, and a thread works only for an   *)
(* owner that has not joined it yet.                                       *)
SlotInv ==
    /\ active <=> \E o \in Owners : own[o] \in Standing
    /\ \A o, p \in Owners : own[o] \in Standing /\ own[p] \in Standing => o = p
    /\ \A o \in Owners : Alive(o) => own[o] \in {"holds", "joining"}

(* A report about the store r, where w is the whole record.                *)
Told(t, r, w) ==
    /\ t.publication = "NotPublished" => r = t.before
    /\ t.publication = "Durable" => r = w
    /\ t.result = "ok" => r = w /\ (t.plan = <<"inspect">> \/ t.publication = "Durable")

(* What a thread that has come so far knows of the record r.               *)
Knows(t, r, w) ==
    /\ t.pc \in Unpublished => r = t.before /\ t.publication = None
    /\ t.pc \in Unpublished \cup Inspecting \cup {"writing", "synced"} => t.result # "ok"
    /\ t.pc \in {"start", "open"} => t.plan \in Plans
    /\ t.pc \in Inspecting => r # Torn
    /\ t.pc = "writing" => t.publication = None
    /\ t.pc = "synced" => r = w /\ t.publication = None
    /\ t.pc \in Inspecting =>
         \/ t.plan = <<"inspect">> /\ t.publication = None
         \/ t.publication = "Durable" /\ r = w
    /\ t.pc \in {"decrypt", "compare"} => r # None
    /\ t.pc = "compare" => r.sound /\ t.staging = r.length
    /\ t.pc = "feed" => r = w
    /\ t.pc = "end" => Told(t, r, w)
    /\ t.pc = "exited" => Told(t, t.after, w)

IInv == TypeOK /\ SlotInv /\ \A o \in Owners : Knows(thread[o], record, Whole)

-----------------------------------------------------------------------------
(* The bytes of the capture are counted.                                   *)
LEMMA Counted ==
  ASSUME TypeOK
  PROVE  source_bytes \in Int /\ Whole \in [length : Int, sound : BOOLEAN] /\ Whole \notin {None, Torn}
<1>1. source_bytes \in Nat
  BY BackupAssumption DEF TypeOK, source_bytes, Captured
<1>2. Whole \in [length : Int, sound : BOOLEAN]
  BY <1>1 DEF Whole
<1>3. {None, Torn} \cap [length : Int, sound : BOOLEAN] = {}
  BY BackupAssumption
<1>4. Whole \notin {None, Torn}
  BY <1>2, <1>3
<1>q. QED  BY <1>1, <1>2, <1>4

(* A thread that works alone keeps the invariant if it knows the record it *)
(* leaves.                                                                 *)
LEMMA ThreadStep ==
  ASSUME IInv, NEW o \in Owners, Alive(o), UNCHANGED <<active, own, capture>>,
         DOMAIN thread' = Owners, \A q \in Owners : q # o => thread'[q] = thread[q],
         record' \in [length : Int, sound : BOOLEAN] \cup {None, Torn},
         DOMAIN thread'[o] = Fields, thread'[o].staging \in Int,
         thread'[o].pc \in {"writing", "synced", "end", "exited"} \cup Unpublished \cup Inspecting,
         Knows(thread'[o], record', Whole)
  PROVE  IInv'
<1>1. TypeOK'
  BY DEF IInv, TypeOK
<1>2. SlotInv'
  <2>1. own[o] \in {"holds", "joining"}
    BY DEF IInv, SlotInv
  <2>2. \A q \in Owners : Alive(q)' => q = o \/ Alive(q)
    BY DEF Alive
  <2>q. QED  BY <2>1, <2>2 DEF IInv, SlotInv
<1>3. ASSUME NEW q \in Owners, q # o PROVE Knows(thread'[q], record', Whole')
  <2>1. thread[q].pc \in {"none", "exited"}
    <3>1. ~Alive(q)
      BY <1>3 DEF IInv, SlotInv, Standing
    <3>q. QED  BY <3>1 DEF Alive
  <2>2. Knows(thread[q], record, Whole) /\ thread'[q] = thread[q] /\ Whole' = Whole
    BY <1>3 DEF IInv, Whole, source_bytes, Captured
  <2>q. QED  BY <2>1, <2>2 DEF Knows, Told, Unpublished, Inspecting
<1>4. Whole' = Whole
  BY DEF Whole, source_bytes, Captured
<1>q. QED  BY <1>1, <1>2, <1>3, <1>4 DEF IInv

(* The same for a thread that is given a new state.                        *)
LEMMA Moves ==
  ASSUME IInv, NEW o \in Owners, Alive(o), UNCHANGED <<active, own, capture>>,
         NEW u, thread' = [thread EXCEPT ![o] = u], DOMAIN u = Fields, u.staging \in Int,
         u.pc \in {"writing", "synced", "end", "exited"} \cup Unpublished \cup Inspecting,
         record' \in [length : Int, sound : BOOLEAN] \cup {None, Torn},
         Knows(u, record', Whole)
  PROVE  IInv'
<1>1. DOMAIN thread = Owners
  BY DEF IInv, TypeOK
<1>2. DOMAIN thread' = Owners /\ thread'[o] = u /\ \A q \in Owners : q # o => thread'[q] = thread[q]
  BY <1>1
<1>q. QED  BY <1>2, ThreadStep

(* A failure of seal_capture that tells the truth about the publication.   *)
LEMMA SealFailsKeeps ==
  ASSUME IInv, NEW o \in Owners, Alive(o), UNCHANGED <<active, own, capture>>,
         NEW publication, NEW fault, SealFails(o, publication, fault),
         publication = "NotPublished" => record = thread[o].before,
         publication = "Durable" => record = Whole
  PROVE  IInv'
<1>1. DOMAIN thread[o] = Fields /\ thread[o].staging \in Int
      /\ record \in [length : Int, sound : BOOLEAN] \cup {None, Torn}
  BY DEF IInv, TypeOK
<1>2. PICK u : /\ thread' = [thread EXCEPT ![o] = u]
               /\ u = [thread[o] EXCEPT !.pc = "end", !.result = "Unknown", !.publication = publication,
                                        !.fault = @ \/ fault]
  BY DEF SealFails, Continue
<1>3. /\ DOMAIN u = Fields /\ u.staging = thread[o].staging /\ u.pc = "end" /\ u.result = "Unknown"
      /\ u.publication = publication /\ u.before = thread[o].before
  BY <1>1, <1>2 DEF Fields
<1>4. record' = record
  BY DEF SealFails, Continue
<1>5. Knows(u, record', Whole)
  BY <1>3, <1>4 DEF Knows, Told, Unpublished, Inspecting
<1>q. QED  BY <1>1, <1>2, <1>3, <1>4, <1>5, Moves

(* An error of open or restore_inspect says nothing of the record.         *)
LEMMA RefuseKeeps ==
  ASSUME IInv, NEW o \in Owners, thread[o].pc \in Inspecting \cup {"open"}, UNCHANGED <<active, own, capture>>,
         NEW err, err # "ok", Refuse(o, err) \/ Fault(o, err)
  PROVE  IInv'
<1>1. /\ DOMAIN thread[o] = Fields /\ thread[o].staging \in Int
      /\ record \in [length : Int, sound : BOOLEAN] \cup {None, Torn} /\ Alive(o)
  BY DEF IInv, TypeOK, Alive, Inspecting
<1>2. PICK u : /\ thread' = [thread EXCEPT ![o] = u]
               /\ \/ u = [thread[o] EXCEPT !.pc = "end", !.result = err]
                  \/ u = [thread[o] EXCEPT !.pc = "end", !.result = err, !.fault = TRUE]
  BY DEF Refuse, Fault, Continue
<1>3. /\ DOMAIN u = Fields /\ u.staging = thread[o].staging /\ u.pc = "end" /\ u.result = err
      /\ u.publication = thread[o].publication /\ u.before = thread[o].before
  BY <1>1, <1>2 DEF Fields
<1>4. record' = record
  BY DEF Refuse, Fault, Continue
<1>5. Knows(u, record', Whole)
  <2>1. \/ thread[o].publication = None
        \/ thread[o].publication = "Durable" /\ record = Whole
    BY DEF IInv, Knows, Unpublished
  <2>q. QED  BY <1>3, <1>4, <2>1, BackupAssumption DEF Knows, Told, Unpublished, Inspecting
<1>q. QED  BY <1>1, <1>2, <1>3, <1>4, <1>5, Moves

(* A thread that ends has seen the record it reports on.                   *)
LEMMA ExitKeeps ==
  ASSUME IInv, NEW o \in Owners, Alive(o), UNCHANGED <<active, own, capture, record>>,
         NEW result,
         \/ Exit(o, result)
         \/ thread' = [thread EXCEPT ![o].pc = "exited", ![o].result = result, ![o].fault = TRUE,
                                     ![o].after = record],
         result = "ok" =>
           record = Whole /\ (thread[o].plan = <<"inspect">> \/ thread[o].publication = "Durable")
  PROVE  IInv'
<1>1. /\ DOMAIN thread[o] = Fields /\ thread[o].staging \in Int /\ DOMAIN thread = Owners
      /\ record \in [length : Int, sound : BOOLEAN] \cup {None, Torn}
  BY DEF IInv, TypeOK
<1>2. /\ DOMAIN thread' = Owners /\ \A q \in Owners : q # o => thread'[q] = thread[q]
      /\ DOMAIN thread'[o] = Fields /\ thread'[o].staging = thread[o].staging
      /\ thread'[o].pc = "exited" /\ thread'[o].result = result /\ thread'[o].after = record
      /\ thread'[o].publication = thread[o].publication /\ thread'[o].before = thread[o].before
      /\ thread'[o].plan = thread[o].plan
  BY <1>1 DEF Exit, Fields
<1>3. /\ thread[o].publication = "NotPublished" => record = thread[o].before
      /\ thread[o].publication = "Durable" => record = Whole
  <2>1. Knows(thread[o], record, Whole)
    BY DEF IInv
  <2>2. thread[o].pc \in {"writing", "synced", "end"} \cup Unpublished \cup Inspecting
    BY DEF IInv, TypeOK, Alive
  <2>q. QED  BY <2>1, <2>2, BackupAssumption DEF Knows, Told
<1>4. Knows(thread'[o], record', Whole)
  BY <1>2, <1>3 DEF Knows, Told, Unpublished, Inspecting
<1>q. QED  BY <1>1, <1>2, <1>4, ThreadStep

-----------------------------------------------------------------------------
(* The steps of a thread.                                                  *)

(* Its start and its end.                                                  *)
LEMMA EndsKeep ==
  ASSUME IInv, NEW o \in Owners, Begin(o) \/ End(o) \/ Panic(o)
  PROVE  IInv'
<1>0. /\ DOMAIN thread[o] = Fields /\ thread[o].staging \in Int /\ DOMAIN thread = Owners
      /\ Knows(thread[o], record, Whole)
      /\ record \in [length : Int, sound : BOOLEAN] \cup {None, Torn}
  BY DEF IInv, TypeOK
<1>1. Alive(o) /\ UNCHANGED <<active, own, capture, record>>
  BY DEF Begin, End, Panic, At, Alive
<1>2. Cause(o) # "ok"
  BY DEF Cause
<1>3. CASE Begin(o) /\ Spent(o)
  <2>1. Exit(o, Cause(o))
    BY <1>3 DEF Begin
  <2>q. QED  BY <1>1, <1>2, <2>1, ExitKeeps
<1>4. CASE Begin(o) /\ ~Spent(o)
  <2>1. thread[o].pc = "start" /\ thread' = [thread EXCEPT ![o].pc = "open"]
    BY <1>4 DEF Begin, At
  <2>2. /\ thread[o].plan \in Plans /\ record = thread[o].before /\ thread[o].publication = None
        /\ thread[o].result # "ok"
    BY <1>0, <2>1 DEF Knows, Unpublished
  <2>3. /\ DOMAIN thread' = Owners /\ \A q \in Owners : q # o => thread'[q] = thread[q]
        /\ DOMAIN thread'[o] = Fields /\ thread'[o].staging = thread[o].staging
        /\ thread'[o].pc = "open" /\ thread'[o].result = thread[o].result
        /\ thread'[o].publication = thread[o].publication /\ thread'[o].before = thread[o].before
        /\ thread'[o].plan = thread[o].plan
    BY <1>0, <2>1 DEF Fields
  <2>4. Knows(thread'[o], record', Whole)
    BY <1>1, <2>2, <2>3 DEF Knows, Unpublished, Inspecting
  <2>q. QED  BY <1>0, <1>1, <2>3, <2>4, ThreadStep DEF Unpublished
<1>5. CASE End(o)
  <2>1. thread[o].pc = "end" /\ Exit(o, IF Spent(o) THEN Cause(o) ELSE thread[o].result)
    BY <1>5 DEF End, At
  <2>2. Told(thread[o], record, Whole)
    BY <1>0, <2>1 DEF Knows
  <2>3. CASE Spent(o)
    BY <1>1, <1>2, <2>1, <2>3, ExitKeeps
  <2>4. CASE ~Spent(o)
    BY <1>1, <2>1, <2>2, <2>4, ExitKeeps DEF Told
  <2>q. QED  BY <2>3, <2>4
<1>6. CASE Panic(o)
  <2>1. PICK r : r = "Unavailable"
    OBVIOUS
  <2>2. /\ r # "ok"
        /\ thread' = [thread EXCEPT ![o].pc = "exited", ![o].result = r, ![o].fault = TRUE,
                                    ![o].after = record]
    BY <1>6, <2>1 DEF Panic
  <2>q. QED  BY <1>1, <2>2, ExitKeeps
<1>q. QED  BY <1>3, <1>4, <1>5, <1>6

(* The store is opened: one that is torn is worked on no further.          *)
LEMMA OpenKeeps ==
  ASSUME IInv, NEW o \in Owners, OpenStore(o)
  PROVE  IInv'
<1>0. /\ DOMAIN thread[o] = Fields /\ thread[o].staging \in Int
      /\ Knows(thread[o], record, Whole)
      /\ record \in [length : Int, sound : BOOLEAN] \cup {None, Torn}
  BY DEF IInv, TypeOK
<1>1. thread[o].pc = "open" /\ Alive(o) /\ UNCHANGED <<active, own, capture>>
  BY DEF OpenStore, At, Alive
<1>2. /\ thread[o].plan \in Plans /\ record = thread[o].before /\ thread[o].publication = None
      /\ thread[o].result # "ok"
  BY <1>0, <1>1 DEF Knows, Unpublished
<1>3. ASSUME NEW err \in {Cause(o), "Integrity"}, Refuse(o, err) \/ Fault(o, err) PROVE IInv'
  <2>1. err # "ok"
    BY <1>3 DEF Cause
  <2>q. QED  BY <1>1, <1>3, <2>1, RefuseKeeps
<1>4. ASSUME record # Torn, Continue(o, [thread[o] EXCEPT !.pc = Head(thread[o].plan)]) PROVE IInv'
  <2>1. \/ Head(thread[o].plan) = "seal"
        \/ Head(thread[o].plan) = "inspect" /\ thread[o].plan = <<"inspect">>
    BY <1>2 DEF Plans
  <2>2. PICK u : u = [thread[o] EXCEPT !.pc = Head(thread[o].plan)]
    OBVIOUS
  <2>3. /\ DOMAIN u = Fields /\ u.staging = thread[o].staging /\ u.pc = Head(thread[o].plan)
        /\ u.result = thread[o].result /\ u.publication = thread[o].publication
        /\ u.before = thread[o].before /\ u.plan = thread[o].plan
    BY <1>0, <2>2 DEF Fields
  <2>4. Knows(u, record, Whole)
    BY <1>2, <1>4, <2>1, <2>3 DEF Knows, Unpublished, Inspecting
  <2>5. u.pc \in Unpublished \cup Inspecting
    BY <2>1, <2>3 DEF Unpublished, Inspecting
  <2>q. QED  BY <1>0, <1>1, <1>4, <2>2, <2>3, <2>4, <2>5, Moves DEF Continue
<1>q. QED  BY <1>3, <1>4 DEF OpenStore

(* seal_capture up to the append: the store is as it was.                  *)
LEMMA SealKeeps ==
  ASSUME IInv, NEW o \in Owners,
         SealBegins(o) \/ SealReads(o) \/ SealFinishes(o) \/ SealPublishes(o)
  PROVE  IInv'
<1>0. /\ DOMAIN thread[o] = Fields /\ thread[o].staging \in Int
      /\ Knows(thread[o], record, Whole)
      /\ record \in [length : Int, sound : BOOLEAN] \cup {None, Torn}
  BY DEF IInv, TypeOK
<1>1. /\ thread[o].pc \in {"seal", "read", "finish", "publish"} /\ Alive(o)
      /\ UNCHANGED <<active, own, capture>>
  BY DEF SealBegins, SealReads, SealFinishes, SealPublishes, At, Alive
<1>2. record = thread[o].before /\ thread[o].publication = None /\ thread[o].result # "ok"
  BY <1>0, <1>1 DEF Knows, Unpublished
<1>3. ASSUME NEW p \in {"NotPublished", "Unknown"}, NEW f, SealFails(o, p, f)
      PROVE  IInv'
  BY <1>1, <1>2, <1>3, SealFailsKeeps
<1>4. ASSUME NEW u, Continue(o, u), DOMAIN u = Fields, u.staging = thread[o].staging,
             u.pc \in {"read", "finish", "publish", "append"}, u.before = thread[o].before,
             u.publication = thread[o].publication, u.result = thread[o].result
      PROVE  IInv'
  <2>1. Knows(u, record, Whole)
    BY <1>2, <1>4 DEF Knows, Unpublished, Inspecting
  <2>q. QED  BY <1>0, <1>1, <1>4, <2>1, Moves DEF Continue, Unpublished
<1>5. CASE SealBegins(o)
  <2>1. ASSUME NEW v, Continue(o, [thread[o] EXCEPT !.pc = "read", !.check = v]) PROVE IInv'
    BY <1>0, <1>4, <2>1 DEF Fields
  <2>q. QED  BY <1>3, <1>5, <2>1 DEF SealBegins
<1>6. CASE SealReads(o)
  <2>1. ASSUME NEW v, NEW k, Continue(o, [thread[o] EXCEPT !.check = v, !.fed = @ + k]),
               thread[o].pc = "read"
        PROVE  IInv'
    <3>1. PICK u : u = [thread[o] EXCEPT !.check = v, !.fed = @ + k]
      OBVIOUS
    <3>2. /\ DOMAIN u = Fields /\ u.staging = thread[o].staging /\ u.pc = "read"
          /\ u.before = thread[o].before /\ u.publication = thread[o].publication
          /\ u.result = thread[o].result
      BY <1>0, <2>1, <3>1 DEF Fields
    <3>q. QED  BY <1>4, <2>1, <3>1, <3>2
  <2>2. ASSUME Continue(o, [thread[o] EXCEPT !.pc = "finish"]) PROVE IInv'
    BY <1>0, <1>4, <2>2 DEF Fields
  <2>3. thread[o].pc = "read"
    BY <1>6 DEF SealReads, At
  <2>q. QED  BY <1>3, <1>6, <2>1, <2>2, <2>3 DEF SealReads
<1>7. CASE SealFinishes(o)
  <2>1. ASSUME NEW c, Continue(o, [thread[o] EXCEPT !.pc = "publish", !.counts = c, !.check = None])
        PROVE  IInv'
    BY <1>0, <1>4, <2>1 DEF Fields
  <2>q. QED  BY <1>3, <1>7, <2>1 DEF SealFinishes
<1>8. CASE SealPublishes(o)
  <2>1. ASSUME Continue(o, [thread[o] EXCEPT !.pc = "append"]) PROVE IInv'
    BY <1>0, <1>4, <2>1 DEF Fields
  <2>q. QED  BY <1>3, <1>8, <2>1 DEF SealPublishes
<1>q. QED  BY <1>5, <1>6, <1>7, <1>8

(* The append, and the publication that stands after it.                   *)
LEMMA AppendKeeps ==
  ASSUME IInv, NEW o \in Owners, SealAppends(o) \/ SealWrites(o) \/ SealReturns(o)
  PROVE  IInv'
<1>0. /\ DOMAIN thread[o] = Fields /\ thread[o].staging \in Int /\ DOMAIN thread = Owners
      /\ Knows(thread[o], record, Whole)
      /\ record \in [length : Int, sound : BOOLEAN] \cup {None, Torn}
      /\ Whole \in [length : Int, sound : BOOLEAN] /\ Whole \notin {None, Torn}
  BY Counted DEF IInv, TypeOK
<1>1. /\ thread[o].pc \in {"append", "writing", "synced"} /\ Alive(o)
      /\ UNCHANGED <<active, own, capture>>
  BY DEF SealAppends, SealWrites, SealReturns, At, Alive
<1>d. ASSUME InDoubt(o), record' \in {None, Torn, Whole}
      PROVE  IInv'
  <2>1. PICK u : u = [thread[o] EXCEPT !.pc = "end", !.result = "Unknown",
                                       !.publication = "Unknown", !.fault = TRUE]
    OBVIOUS
  <2>2. /\ DOMAIN u = Fields /\ u.staging = thread[o].staging /\ u.pc = "end"
        /\ u.result = "Unknown" /\ u.publication = "Unknown"
    BY <1>0, <2>1 DEF Fields
  <2>3. Knows(u, record', Whole)
    BY <2>2 DEF Knows, Told, Unpublished, Inspecting
  <2>q. QED  BY <1>0, <1>1, <1>d, <2>1, <2>2, <2>3, Moves DEF InDoubt
<1>w. ASSUME NEW q \in {"writing", "synced"}, thread' = [thread EXCEPT ![o].pc = q],
             record' \in {Torn, Whole}, q = "synced" => record' = Whole,
             thread[o].publication = None, thread[o].result # "ok"
      PROVE  IInv'
  <2>1. /\ DOMAIN thread' = Owners /\ \A p \in Owners : p # o => thread'[p] = thread[p]
        /\ DOMAIN thread'[o] = Fields /\ thread'[o].staging = thread[o].staging
        /\ thread'[o].pc = q /\ thread'[o].result = thread[o].result
        /\ thread'[o].publication = thread[o].publication
    BY <1>0, <1>w DEF Fields
  <2>2. Knows(thread'[o], record', Whole)
    BY <1>w, <2>1 DEF Knows, Unpublished, Inspecting
  <2>q. QED  BY <1>0, <1>1, <1>w, <2>1, <2>2, ThreadStep
<1>2. CASE SealAppends(o)
  <2>1. thread[o].pc = "append" /\ record = thread[o].before /\ thread[o].publication = None
        /\ thread[o].result # "ok"
    BY <1>0, <1>2 DEF SealAppends, At, Knows, Unpublished
  <2>2. ASSUME NEW f, SealFails(o, "NotPublished", f) PROVE IInv'
    BY <1>1, <2>1, <2>2, SealFailsKeeps
  <2>q. QED  BY <1>d, <1>w, <1>2, <2>1, <2>2 DEF SealAppends
<1>s. CASE SealWrites(o)
  <2>1. thread[o].pc = "writing" /\ thread[o].publication = None /\ thread[o].result # "ok"
    BY <1>0, <1>s DEF SealWrites, At, Knows
  <2>2. ASSUME NEW f, SealFails(o, "Unknown", f) PROVE IInv'
    BY <1>1, <2>1, <2>2, SealFailsKeeps
  <2>q. QED  BY <1>d, <1>w, <1>s, <2>1, <2>2 DEF SealWrites
<1>3. CASE SealReturns(o)
  <2>1. thread[o].pc = "synced" /\ record = Whole /\ thread[o].result # "ok"
    BY <1>0, <1>3 DEF SealReturns, At, Knows
  <2>2. ASSUME NEW p \in {"Durable", "Unknown"}, NEW f, SealFails(o, p, f) PROVE IInv'
    BY <1>1, <2>1, <2>2, SealFailsKeeps
  <2>3. ASSUME Continue(o, [thread[o] EXCEPT !.pc = "inspect", !.publication = "Durable"])
        PROVE  IInv'
    <3>1. PICK u : u = [thread[o] EXCEPT !.pc = "inspect", !.publication = "Durable"]
      OBVIOUS
    <3>2. /\ DOMAIN u = Fields /\ u.staging = thread[o].staging /\ u.pc = "inspect"
          /\ u.result = thread[o].result /\ u.publication = "Durable"
      BY <1>0, <3>1 DEF Fields
    <3>3. Knows(u, record, Whole)
      BY <1>0, <2>1, <3>2 DEF Knows, Unpublished, Inspecting
    <3>q. QED  BY <1>0, <1>1, <2>3, <3>1, <3>2, <3>3, Moves DEF Continue, Inspecting
  <2>q. QED  BY <1>3, <2>2, <2>3 DEF SealReturns
<1>q. QED  BY <1>2, <1>3, <1>s

(* restore_inspect: it compares what a sound record of the bound length    *)
(* held, and succeeds on no other.                                         *)
LEMMA InspectKeeps ==
  ASSUME IInv, NEW o \in Owners,
         InspectBegins(o) \/ Decrypts(o) \/ Compares(o) \/ InspectFeeds(o)
  PROVE  IInv'
<1>0. /\ DOMAIN thread[o] = Fields /\ thread[o].staging \in Int
      /\ Knows(thread[o], record, Whole)
      /\ record \in [length : Int, sound : BOOLEAN] \cup {None, Torn}
      /\ source_bytes \in Int
  BY Counted DEF IInv, TypeOK
<1>1. /\ thread[o].pc \in Inspecting /\ Alive(o)
      /\ UNCHANGED <<active, own, capture>>
  BY DEF InspectBegins, Decrypts, Compares, InspectFeeds, At, Alive, Inspecting
<1>2. /\ thread[o].result # "ok" /\ record # Torn
      /\ \/ thread[o].plan = <<"inspect">> /\ thread[o].publication = None
         \/ thread[o].publication = "Durable" /\ record = Whole
  BY <1>0, <1>1 DEF Knows
<1>3. ASSUME NEW err, err # "ok", Refuse(o, err) \/ Fault(o, err) PROVE IInv'
  BY <1>1, <1>3, RefuseKeeps
<1>4. /\ Refuse(o, Cause(o)) => IInv'
      /\ (Refuse(o, "Integrity") \/ Fault(o, "Integrity")) => IInv'
      /\ Refuse(o, "Unknown") => IInv'
      /\ Refuse(o, "Invalid") => IInv'
  <2>1. Cause(o) # "ok"
    BY DEF Cause
  <2>2. ASSUME NEW err \in {"Integrity", "Unknown", "Invalid"}, Refuse(o, err) \/ Fault(o, err) PROVE IInv'
    BY <1>3, <2>2
  <2>q. QED  BY <1>3, <2>1, <2>2
<1>5. ASSUME NEW u, Continue(o, u), DOMAIN u = Fields, u.staging \in Int, u.pc \in {"end"} \cup Inspecting,
             u.publication = thread[o].publication, u.plan = thread[o].plan,
             u.pc = "end" => record = Whole,
             u.pc # "end" => u.result = thread[o].result,
             u.pc \in {"decrypt", "compare"} => record # None,
             u.pc = "compare" => record.sound /\ u.staging = record.length,
             u.pc = "feed" => record = Whole
      PROVE  IInv'
  <2>1. Knows(u, record, Whole)
    BY <1>2, <1>5, BackupAssumption DEF Knows, Told, Unpublished, Inspecting
  <2>q. QED  BY <1>0, <1>1, <1>5, <2>1, Moves DEF Continue
<1>6. CASE InspectBegins(o)
  <2>1. ASSUME Continue(o, [thread[o] EXCEPT !.pc = "decrypt", !.staging = 0]), record # None PROVE IInv'
    <3>1. PICK u : u = [thread[o] EXCEPT !.pc = "decrypt", !.staging = 0]
      OBVIOUS
    <3>2. /\ DOMAIN u = Fields /\ u.staging = 0 /\ u.pc = "decrypt" /\ u.plan = thread[o].plan
          /\ u.publication = thread[o].publication /\ u.result = thread[o].result
      BY <1>0, <3>1 DEF Fields
    <3>3. u.staging \in Int /\ u.pc \in Inspecting
      BY <3>2 DEF Inspecting
    <3>q. QED  BY <1>5, <2>1, <3>1, <3>2, <3>3
  <2>q. QED  BY <1>4, <1>6, <2>1 DEF InspectBegins
<1>7. CASE Decrypts(o)
  <2>1. thread[o].pc = "decrypt" /\ record # None
    BY <1>0, <1>7 DEF Decrypts, At, Knows
  <2>2. record.length \in Int
    BY <1>0, <1>2, <2>1
  <2>3. ASSUME Continue(o, [thread[o] EXCEPT !.pc = "compare"]), record.sound,
               Lesser(CopyBytes, record.length - thread[o].staging) = 0
        PROVE  IInv'
    <3>1. PICK u : u = [thread[o] EXCEPT !.pc = "compare"]
      OBVIOUS
    <3>2. /\ DOMAIN u = Fields /\ u.staging = thread[o].staging /\ u.pc = "compare"
          /\ u.plan = thread[o].plan
          /\ u.publication = thread[o].publication /\ u.result = thread[o].result
      BY <1>0, <3>1 DEF Fields
    <3>3. thread[o].staging = record.length
      BY <1>0, <2>2, <2>3, BackupAssumption DEF Lesser
    <3>q. QED  BY <1>0, <1>5, <2>1, <2>3, <3>1, <3>2, <3>3 DEF Inspecting
  <2>4. ASSUME NEW k \in Int, Continue(o, [thread[o] EXCEPT !.staging = @ + k]) PROVE IInv'
    <3>1. PICK u : u = [thread[o] EXCEPT !.staging = @ + k]
      OBVIOUS
    <3>2. /\ DOMAIN u = Fields /\ u.staging = thread[o].staging + k /\ u.pc = "decrypt"
          /\ u.plan = thread[o].plan
          /\ u.publication = thread[o].publication /\ u.result = thread[o].result
      BY <1>0, <2>1, <3>1 DEF Fields
    <3>3. u.staging \in Int
      BY <1>0, <3>2
    <3>q. QED  BY <1>5, <2>1, <2>4, <3>1, <3>2, <3>3 DEF Inspecting
  <2>5. Lesser(CopyBytes, record.length - thread[o].staging) \in Int
    BY <1>0, <2>2, BackupAssumption DEF Lesser
  <2>q. QED  BY <1>4, <1>7, <2>3, <2>4, <2>5 DEF Decrypts
<1>8. CASE Compares(o)
  <2>1. thread[o].pc = "compare" /\ record # None /\ record.sound /\ thread[o].staging = record.length
    BY <1>0, <1>8 DEF Compares, At, Knows
  <2>2. ASSUME NEW v, Continue(o, [thread[o] EXCEPT !.pc = "feed", !.check = v, !.fed = 0]),
               thread[o].staging = source_bytes
        PROVE  IInv'
    <3>1. PICK u : u = [thread[o] EXCEPT !.pc = "feed", !.check = v, !.fed = 0]
      OBVIOUS
    <3>2. /\ DOMAIN u = Fields /\ u.staging = thread[o].staging /\ u.pc = "feed"
          /\ u.plan = thread[o].plan
          /\ u.publication = thread[o].publication /\ u.result = thread[o].result
      BY <1>0, <3>1 DEF Fields
    <3>3. record = Whole
      BY <1>0, <1>2, <2>1, <2>2 DEF Whole
    <3>q. QED  BY <1>0, <1>5, <2>2, <3>1, <3>2, <3>3 DEF Inspecting
  <2>q. QED  BY <1>4, <1>8, <2>2 DEF Compares
<1>9. CASE InspectFeeds(o)
  <2>1. thread[o].pc = "feed" /\ record = Whole
    BY <1>0, <1>9 DEF InspectFeeds, At, Knows
  <2>2. ASSUME NEW v, NEW k, Continue(o, [thread[o] EXCEPT !.check = v, !.fed = @ + k]) PROVE IInv'
    <3>1. PICK u : u = [thread[o] EXCEPT !.check = v, !.fed = @ + k]
      OBVIOUS
    <3>2. /\ DOMAIN u = Fields /\ u.staging = thread[o].staging /\ u.pc = "feed"
          /\ u.plan = thread[o].plan
          /\ u.publication = thread[o].publication /\ u.result = thread[o].result
      BY <1>0, <2>1, <3>1 DEF Fields
    <3>q. QED  BY <1>0, <1>5, <2>1, <2>2, <3>1, <3>2 DEF Inspecting
  <2>3. ASSUME NEW c, Continue(o, [thread[o] EXCEPT !.pc = "end", !.counts = c, !.result = "ok"])
        PROVE  IInv'
    <3>1. PICK u : u = [thread[o] EXCEPT !.pc = "end", !.counts = c, !.result = "ok"]
      OBVIOUS
    <3>2. /\ DOMAIN u = Fields /\ u.staging = thread[o].staging /\ u.pc = "end"
          /\ u.plan = thread[o].plan /\ u.publication = thread[o].publication
      BY <1>0, <3>1 DEF Fields
    <3>q. QED  BY <1>0, <1>5, <2>1, <2>3, <3>1, <3>2
  <2>q. QED  BY <1>4, <1>9, <2>2, <2>3 DEF InspectFeeds
<1>q. QED  BY <1>6, <1>7, <1>8, <1>9

-----------------------------------------------------------------------------
(* The steps of an owner that leave its thread alone.                      *)
LEMMA OwnerKeeps ==
  ASSUME IInv, NEW o \in Owners,
         \/ (\E spent \in BOOLEAN : Claim(o, spent)) \/ Cancel(o) \/ Join(o) \/ Drop(o)
         \/ Joined(o) \/ Expire(o)
  PROVE  IInv'
<1>0. own \in [Owners -> {"idle", "done"} \cup Standing] /\ SlotInv /\ TypeOK
  BY DEF IInv, TypeOK
<1>1. UNCHANGED <<thread, capture, record>>
  BY DEF Claim, Cancel, Join, Drop, Joined, Expire
<1>2. TypeOK'
  <2>1. active' \in BOOLEAN /\ own' \in [Owners -> {"idle", "done"} \cup Standing]
    BY <1>0 DEF TypeOK, Claim, Cancel, Join, Drop, Joined, Expire, Standing
  <2>q. QED  BY <1>0, <1>1, <2>1 DEF TypeOK
<1>3. \A q \in Owners : Knows(thread'[q], record', Whole')
  <2>1. Whole' = Whole
    BY <1>1 DEF Whole, source_bytes, Captured
  <2>q. QED  BY <1>1, <2>1 DEF IInv
<1>4. SlotInv'
  <2>1. \A q \in Owners : Alive(q)' <=> Alive(q)
    BY <1>1 DEF Alive
  <2>2. CASE \E spent \in BOOLEAN : Claim(o, spent)
    <3>1. CASE UNCHANGED <<own, active>>
      BY <1>0, <2>1, <3>1 DEF SlotInv
    <3>2. CASE ~active /\ active' = TRUE /\ own[o] = "idle" /\ own' = [own EXCEPT ![o] = "claimed"]
      <4>1. \A q \in Owners : own[q] \notin Standing /\ ~Alive(q)
        BY <1>0, <3>2 DEF SlotInv, Standing
      <4>2. own'[o] = "claimed" /\ \A q \in Owners : q # o => own'[q] = own[q]
        BY <1>0, <3>2
      <4>q. QED  BY <2>1, <3>2, <4>1, <4>2 DEF SlotInv, Standing
    <3>q. QED  BY <2>2, <3>1, <3>2 DEF Claim
  <2>3. CASE Cancel(o) \/ Expire(o)
    BY <1>0, <2>1, <2>3 DEF Cancel, Expire, SlotInv
  <2>4. CASE Join(o) \/ Drop(o)
    <3>1. own[o] = "holds" /\ own' = [own EXCEPT ![o] = "joining"] /\ active' = active
      BY <2>4 DEF Join, Drop
    <3>q. QED  BY <1>0, <2>1, <3>1 DEF SlotInv, Standing
  <2>5. CASE Joined(o)
    <3>1. /\ own[o] = "joining" /\ own' = [own EXCEPT ![o] = "joined"] /\ active' = active
          /\ ~Alive(o)
      BY <2>5 DEF Joined, Alive
    <3>q. QED  BY <1>0, <2>1, <3>1 DEF SlotInv, Standing
  <2>q. QED  BY <2>2, <2>3, <2>4, <2>5
<1>q. QED  BY <1>2, <1>3, <1>4 DEF IInv

(* A thread that was not started has nothing to tell.                      *)
LEMMA NoThreadFacts ==
  /\ DOMAIN NoThread = Fields /\ NoThread.pc = "none" /\ NoThread.staging = 0
  /\ NoThread.publication = None /\ NoThread.result = None
BY DEF NoThread, Fields

(* spawn creates the thread, or gives the slot back.                       *)
LEMMA StartKeeps ==
  ASSUME IInv, NEW o \in Owners, Start(o)
  PROVE  IInv'
<1>0. /\ own \in [Owners -> {"idle", "done"} \cup Standing] /\ SlotInv /\ TypeOK
      /\ DOMAIN thread = Owners /\ \A q \in Owners : Knows(thread[q], record, Whole)
  BY DEF IInv, TypeOK
<1>1. own[o] = "claimed" /\ UNCHANGED <<capture, record>>
  BY DEF Start
<1>2. Whole' = Whole
  BY <1>1 DEF Whole, source_bytes, Captured
<1>3. \A q \in Owners : ~Alive(q) /\ (q # o => own[q] \notin Standing)
  BY <1>0, <1>1 DEF SlotInv, Standing
<1>4. CASE own' = [own EXCEPT ![o] = "done"] /\ active' = FALSE /\ UNCHANGED thread
  <2>1. TypeOK'
    BY <1>0, <1>1, <1>4 DEF TypeOK
  <2>2. own'[o] = "done" /\ \A q \in Owners : q # o => own'[q] = own[q]
    BY <1>0, <1>4
  <2>3. SlotInv'
    BY <1>3, <1>4, <2>2 DEF SlotInv, Standing, Alive
  <2>4. \A q \in Owners : Knows(thread'[q], record', Whole')
    BY <1>0, <1>1, <1>2, <1>4
  <2>q. QED  BY <2>1, <2>3, <2>4 DEF IInv
<1>5. ASSUME NEW plan \in Plans, Started(o, plan) PROVE IInv'
  <2>1. PICK u : /\ thread' = [thread EXCEPT ![o] = u]
                 /\ u = [NoThread EXCEPT !.pc = "start", !.plan = plan, !.before = record]
    BY <1>5 DEF Started
  <2>2. /\ DOMAIN u = Fields /\ u.pc = "start" /\ u.plan = plan /\ u.before = record
        /\ u.staging = 0 /\ u.publication = None /\ u.result = None
    BY <2>1, NoThreadFacts DEF Fields
  <2>3. /\ DOMAIN thread' = Owners /\ thread'[o] = u
        /\ \A q \in Owners : q # o => thread'[q] = thread[q]
    BY <1>0, <2>1
  <2>4. own' = [own EXCEPT ![o] = "holds"] /\ active' = active
    BY <1>5 DEF Started
  <2>5. TypeOK'
    <3>1. own' \in [Owners -> {"idle", "done"} \cup Standing]
      BY <1>0, <2>4 DEF Standing
    <3>2. u.staging \in Int /\ u.pc \in Unpublished
      BY <2>2 DEF Unpublished
    <3>q. QED  BY <1>0, <1>1, <2>2, <2>3, <2>4, <3>1, <3>2 DEF TypeOK
  <2>6. SlotInv'
    <3>1. own'[o] = "holds" /\ \A q \in Owners : q # o => own'[q] = own[q]
      BY <1>0, <2>4
    <3>2. active
      BY <1>0, <1>1 DEF SlotInv, Standing
    <3>3. \A q \in Owners : q # o => ~Alive(q)'
      BY <1>3, <2>3 DEF Alive
    <3>q. QED  BY <1>3, <2>4, <3>1, <3>2, <3>3 DEF SlotInv, Standing
  <2>7. Knows(u, record, Whole)
    BY <1>5, <2>2, BackupAssumption DEF Knows, Unpublished, Inspecting
  <2>q. QED  BY <1>0, <1>1, <1>2, <2>3, <2>5, <2>6, <2>7 DEF IInv
<1>q. QED  BY <1>4, <1>5 DEF Start

(* The slot is free after the join.                                        *)
LEMMA FreeKeeps ==
  ASSUME IInv, NEW o \in Owners, Free(o)
  PROVE  IInv'
<1>0. /\ own \in [Owners -> {"idle", "done"} \cup Standing] /\ SlotInv /\ TypeOK
      /\ DOMAIN thread = Owners /\ \A q \in Owners : Knows(thread[q], record, Whole)
  BY DEF IInv, TypeOK
<1>1. /\ own[o] = "joined" /\ UNCHANGED <<capture, record>> /\ active' = FALSE
      /\ own' = [own EXCEPT ![o] = "done"]
      /\ thread' = [thread EXCEPT ![o] = IF thread[o].pc = "exited" THEN NoThread ELSE thread[o]]
  BY DEF Free
<1>2. Whole' = Whole
  BY <1>1 DEF Whole, source_bytes, Captured
<1>3. \A q \in Owners : ~Alive(q) /\ (q # o => own[q] \notin Standing)
  BY <1>0, <1>1 DEF SlotInv, Standing
<1>4. \A q \in Owners : thread'[q] = thread[q] \/ thread'[q] = NoThread
  BY <1>0, <1>1
<1>5. TypeOK'
  <2>1. own' \in [Owners -> {"idle", "done"} \cup Standing] /\ DOMAIN thread' = Owners
    BY <1>0, <1>1
  <2>2. NoThread.staging \in Int
    BY NoThreadFacts
  <2>q. QED  BY <1>0, <1>1, <1>4, <2>1, <2>2, NoThreadFacts DEF TypeOK
<1>6. SlotInv'
  <2>1. own'[o] = "done" /\ \A q \in Owners : q # o => own'[q] = own[q]
    BY <1>0, <1>1
  <2>2. \A q \in Owners : ~Alive(q)'
    BY <1>3, <1>4, NoThreadFacts DEF Alive
  <2>q. QED  BY <1>1, <1>3, <2>1, <2>2 DEF SlotInv, Standing
<1>7. Knows(NoThread, record, Whole)
  BY NoThreadFacts DEF Knows, Unpublished, Inspecting
<1>q. QED  BY <1>0, <1>1, <1>2, <1>4, <1>5, <1>6, <1>7 DEF IInv

-----------------------------------------------------------------------------
(* Every process begins without the slot, over any record an earlier one   *)
(* may have left.                                                          *)
LEMMA InitInv == ASSUME Init PROVE IInv
<1>1. /\ active = FALSE /\ own = [o \in Owners |-> "idle"]
      /\ thread = [o \in Owners |-> NoThread] /\ capture \in DOMAIN Captures
  BY DEF Init
<1>2. source_bytes \in Int
  <2>1. source_bytes \in Nat
    BY <1>1, BackupAssumption DEF source_bytes, Captured
  <2>q. QED  BY <2>1
<1>3. record \in [length : Int, sound : BOOLEAN] \cup {None, Torn}
  <2>1. Whole \in [length : Int, sound : BOOLEAN]
    BY <1>2 DEF Whole
  <2>2. [Whole EXCEPT !.sound = FALSE] \in [length : Int, sound : BOOLEAN]
    BY <2>1
  <2>3. \A n \in {source_bytes - 1, source_bytes + 1} :
          [Whole EXCEPT !.length = n] \in [length : Int, sound : BOOLEAN]
    BY <1>2, <2>1
  <2>q. QED  BY <2>1, <2>2, <2>3 DEF Init
<1>4. TypeOK
  <2>1. NoThread.staging \in Int
    BY NoThreadFacts
  <2>2. own \in [Owners -> {"idle", "done"} \cup Standing] /\ DOMAIN thread = Owners
        /\ \A o \in Owners : thread[o] = NoThread
    BY <1>1
  <2>q. QED  BY <1>1, <1>3, <2>1, <2>2, NoThreadFacts DEF TypeOK
<1>5. SlotInv
  BY <1>1, NoThreadFacts DEF SlotInv, Standing, Alive
<1>6. \A o \in Owners : Knows(thread[o], record, Whole)
  BY <1>1, NoThreadFacts DEF Knows, Unpublished, Inspecting
<1>q. QED  BY <1>4, <1>5, <1>6 DEF IInv

(* Every step keeps the invariant.                                         *)
LEMMA StepInv == ASSUME IInv, [Next]_vars PROVE IInv'
<1>1. ASSUME NEW o \in Owners, Work(o) PROVE IInv'
  BY <1>1, EndsKeep, OpenKeeps, SealKeeps, AppendKeeps, InspectKeeps DEF Work
<1>2. ASSUME NEW o \in Owners,
             \/ (\E spent \in BOOLEAN : Claim(o, spent)) \/ Start(o) \/ Cancel(o) \/ Join(o)
             \/ Drop(o) \/ Joined(o) \/ Free(o) \/ Expire(o)
      PROVE  IInv'
  BY <1>2, OwnerKeeps, StartKeeps, FreeKeeps
<1>3. CASE UNCHANGED vars
  <2>1. /\ TypeOK' <=> TypeOK
        /\ SlotInv' <=> SlotInv
        /\ Whole' = Whole /\ thread' = thread /\ record' = record
    BY <1>3 DEF vars, TypeOK, SlotInv, Alive, Whole, source_bytes, Captured
  <2>q. QED  BY <2>1 DEF IInv
<1>q. QED  BY <1>1, <1>2, <1>3 DEF Next, Finished

(* The inductive invariant of the workflow holds in every reachable state. *)
THEOREM InvariantHolds == Spec => []IInv
BY InitInv, StepInv, PTL DEF Spec

(* ACTIVE (worker.rs) is up exactly while an owner stands for it, and no   *)
(* two threads are alive, for any number of owners, through drops, panics  *)
(* and failed starts.                                                      *)
THEOREM SlotHeld == Spec => []SlotIsHeld
<1>1. ASSUME IInv PROVE SlotIsHeld
  <2>1. \A o, p \in Owners : Alive(o) /\ Alive(p) => o = p
    BY <1>1 DEF IInv, SlotInv, Standing
  <2>q. QED  BY <1>1, <2>1 DEF IInv, SlotInv, SlotIsHeld, Standing
<1>q. QED  BY <1>1, InvariantHolds, PTL

(* What a thread reports of the store is true of it, for every capture,    *)
(* every limit and every answer of the validators: a publication that was  *)
(* made left the whole record, one that was not left the store alone, and  *)
(* an inspection succeeds on the whole record only.                        *)
THEOREM ReportHolds == Spec => []ReportIsTrue
<1>1. ASSUME IInv PROVE ReportIsTrue
  BY <1>1 DEF IInv, Knows, Told, ReportIsTrue
<1>q. QED  BY <1>1, InvariantHolds, PTL

-----------------------------------------------------------------------------
(***************************************************************************)
(* Of checks, totals and sequences.                                        *)
(***************************************************************************)

(* A set of numbers that is not empty has a least one.                     *)
LEMMA Least ==
  ASSUME NEW T, T \subseteq Nat, T # {}
  PROVE  \E x \in T : \A y \in T : x <= y
<1> DEFINE R == {p \in Nat \X Nat : p[1] < p[2]}
<1>1. IsWellFoundedOn(R, Nat)
  BY NatLessThanWellFounded DEF OpToRel
<1>2. \A x, y \in Nat : x < y => <<x, y>> \in R
  OBVIOUS
<1>h. HIDE DEF R
<1>3. PICK x \in T : \A y \in T : ~(<<y, x>> \in R)
  BY <1>1, WFMin
<1>4. \A y \in T : ~(y < x)
  BY <1>2, <1>3
<1>q. QED  BY <1>4

(* FirstFault finds none if and only if every check holds.                 *)
LEMMA NoFault ==
  ASSUME NEW checks, Len(checks) \in Nat,
         \A i \in 1..Len(checks) : checks[i][2] # "ok"
  PROVE  FirstFault(checks) = "ok" <=> \A i \in 1..Len(checks) : checks[i][1]
<1> DEFINE I == {i \in 1..Len(checks) : ~checks[i][1]}
<1>1. FirstFault(checks) = IF (IF I # {} THEN Min(I) ELSE 0) = 0 THEN "ok"
                           ELSE checks[IF I # {} THEN Min(I) ELSE 0][2]
  BY DEF FirstFault, SelectInSeq
<1>2. CASE I = {}
  BY <1>1, <1>2
<1>3. CASE I # {}
  <2>1. \E x \in I : \A y \in I : x <= y
    <3>1. I \subseteq Nat
      OBVIOUS
    <3>h. HIDE DEF I
    <3>q. QED  BY <1>3, <3>1, Least
  <2>2. Min(I) \in I
    BY <2>1 DEF Min
  <2>q. QED  BY <1>1, <1>3, <2>2
<1>q. QED  BY <1>2, <1>3

(* The same for two checks.                                                *)
LEMMA NoFault2 ==
  ASSUME NEW a \in BOOLEAN, NEW b \in BOOLEAN, NEW e, NEW f, e # "ok", f # "ok"
  PROVE  FirstFault(<<<<a, e>>, <<b, f>>>>) = "ok" <=> a /\ b
<1> DEFINE c == <<<<a, e>>, <<b, f>>>>
<1>1. Len(c) = 2 /\ c[1][1] = a /\ c[2][1] = b /\ c[1][2] = e /\ c[2][2] = f
  OBVIOUS
<1>h. HIDE DEF c
<1>2. Len(c) \in Nat /\ \A i \in 1..Len(c) : c[i][2] # "ok"
  BY <1>1
<1>3. FirstFault(c) = "ok" <=> \A i \in 1..Len(c) : c[i][1]
  BY <1>2, NoFault
<1>4. (\A i \in 1..Len(c) : c[i][1]) <=> (c[1][1] /\ c[2][1])
  BY <1>1
<1>q. QED  BY <1>1, <1>3, <1>4 DEF c

(* The total of nothing.                                                   *)
LEMMA TotalNone == ASSUME NEW s, DOMAIN s = {} PROVE Total(s) = 0
<1> DEFINE Iter(g) == g = [t \in SUBSET {} |-> IF t = {} THEN 0 ELSE g[t \ {Max(t)}] + s[Max(t)]]
           iter == CHOOSE g : Iter(g)
<1>1. Total(s) = iter[{}]
  BY DEF Total, FoldLeft, MapThenFoldSet
<1>2. Iter([t \in {{}} |-> 0])
  OBVIOUS
<1>3. Iter(iter)
  BY <1>2
<1>q. QED  BY <1>1, <1>3

(* The total of one number.                                                *)
LEMMA TotalOne ==
  ASSUME NEW s, DOMAIN s = {1}, s[1] \in Nat PROVE Total(s) = s[1]
<1> DEFINE Iter(g) == g = [t \in SUBSET {1} |-> IF t = {} THEN 0 ELSE g[t \ {Max(t)}] + s[Max(t)]]
           iter == CHOOSE g : Iter(g)
<1>1. Total(s) = iter[{1}]
  BY DEF Total, FoldLeft, MapThenFoldSet
<1>2. Max({1}) = 1
  BY DEF Max
<1>3. \A t \in SUBSET {1} : t = {} \/ t = {1}
  OBVIOUS
<1>4. PICK h : h = [t \in SUBSET {1} |-> IF t = {} THEN 0 ELSE s[1]]
  OBVIOUS
<1>5. {} \in SUBSET {1} /\ {1} \in SUBSET {1} /\ {1} \ {1} = {} /\ {1} # {}
  OBVIOUS
<1>6. h[{}] = 0 /\ h[{1}] = s[1] /\ DOMAIN h = SUBSET {1}
  BY <1>4, <1>5
<1>7. \A t \in SUBSET {1} : h[t] = IF t = {} THEN 0 ELSE h[t \ {Max(t)}] + s[Max(t)]
  <2>1. h[{1}] = h[{1} \ {Max({1})}] + s[Max({1})]
    BY <1>2, <1>5, <1>6
  <2>2. ASSUME NEW t \in SUBSET {1}
        PROVE  h[t] = IF t = {} THEN 0 ELSE h[t \ {Max(t)}] + s[Max(t)]
    <3>1. CASE t = {}
      BY <1>6, <3>1
    <3>2. CASE t = {1}
      BY <1>5, <2>1, <3>2
    <3>q. QED  BY <1>3, <3>1, <3>2
  <2>q. QED  BY <2>2
<1>8. Iter(h)
  BY <1>4, <1>7
<1>9. Iter(iter)
  BY <1>8
<1>10. iter[{}] = 0
  BY <1>5, <1>9
<1>11. iter[{1}] = iter[{}] + s[1]
  BY <1>2, <1>5, <1>9
<1>q. QED  BY <1>1, <1>10, <1>11

(* Stretches of a sequence.                                                *)
LEMMA Stretch ==
  ASSUME NEW S, NEW b \in Seq(S), NEW i \in Nat, NEW j \in Nat, i <= j, j <= Len(b)
  PROVE  /\ SubSeq(b, i + 1, j) \in Seq(S) /\ Len(SubSeq(b, i + 1, j)) = j - i
         /\ \A k \in 1..(j - i) : SubSeq(b, i + 1, j)[k] = b[i + k]
OBVIOUS

(* The stretch p .. j of b, cut after its place e.                         *)
CutAt(b, p, j, t, e) ==
    /\ Skip(SubSeq(b, p, j), t) = SubSeq(b, e + 1, j)
    /\ SubSeq(SubSeq(b, p, j), 1, t) = SubSeq(b, p, e)

(* Where a stretch is cut.                                                 *)
LEMMA SkipStretch ==
  ASSUME NEW S, NEW b \in Seq(S), NEW p \in Nat, NEW j \in Nat, p > 0, p <= j + 1, j <= Len(b),
         NEW t \in Nat, NEW e \in Nat, t = e - p + 1, e <= j
  PROVE  CutAt(b, p, j, t, e)
<1>1. PICK r : r = SubSeq(b, p, j)
  OBVIOUS
<1>2. r \in Seq(S) /\ Len(r) = j - p + 1 /\ \A k \in 1..(j - p + 1) : r[k] = b[p + k - 1]
  BY <1>1
<1>3. Skip(r, t) = SubSeq(b, e + 1, j)
  BY <1>2 DEF Skip
<1>4. SubSeq(r, 1, t) = SubSeq(b, p, e)
  BY <1>2
<1>q. QED  BY <1>1, <1>3, <1>4 DEF CutAt

(* A prefix, and what is skipped of it.                                    *)
LEMMA PrefixStretch ==
  ASSUME NEW S, NEW b \in Seq(S), NEW j \in Nat, j <= Len(b), NEW k \in 0..j
  PROVE  /\ Skip(SubSeq(b, 1, j), k) = SubSeq(b, k + 1, j)
         /\ SubSeq(SubSeq(b, 1, j), 1, k) = SubSeq(b, 1, k)
         /\ Len(SubSeq(b, 1, j)) = j
         /\ j > 0 => SubSeq(b, 1, j)[1] = b[1]
<1>1. PICK s : s = SubSeq(b, 1, j)
  OBVIOUS
<1>2. s \in Seq(S) /\ Len(s) = j /\ \A i \in 1..j : s[i] = b[i]
  BY <1>1
<1>3. Skip(s, k) = SubSeq(b, k + 1, j)
  BY <1>2 DEF Skip
<1>4. SubSeq(s, 1, k) = SubSeq(b, 1, k)
  BY <1>2
<1>q. QED  BY <1>1, <1>2, <1>3, <1>4

(* A prefix and the stretch after it are a prefix.                         *)
LEMMA PrefixJoin ==
  ASSUME NEW S, NEW b \in Seq(S), NEW n \in Nat, NEW k \in Nat, n <= k, k <= Len(b)
  PROVE  SubSeq(b, 1, n) \o SubSeq(b, n + 1, k) = SubSeq(b, 1, k) /\ Len(SubSeq(b, 1, k)) = k
OBVIOUS

(* Two stretches that meet after n.                                        *)
MeetAt(b, i, n, k) ==
    /\ SubSeq(b, i + 1, n) \o SubSeq(b, n + 1, k) = SubSeq(b, i + 1, k)
    /\ Len(SubSeq(b, i + 1, k)) = k - i

(* Stretches that meet join.                                               *)
LEMMA JoinStretch ==
  ASSUME NEW S, NEW b \in Seq(S), NEW i \in Nat, NEW n \in Nat, NEW k \in Nat, i <= n, n <= k, k <= Len(b)
  PROVE  MeetAt(b, i, n, k)
<1>1. PICK l : l = SubSeq(b, i + 1, n)
  OBVIOUS
<1>2. PICK r : r = SubSeq(b, n + 1, k)
  OBVIOUS
<1>3. l \in Seq(S) /\ Len(l) = n - i /\ \A x \in 1..(n - i) : l[x] = b[i + x]
  BY <1>1
<1>4. r \in Seq(S) /\ Len(r) = k - n /\ \A x \in 1..(k - n) : r[x] = b[n + x]
  BY <1>2
<1>5. PICK t : t = SubSeq(b, i + 1, k)
  OBVIOUS
<1>6. t \in Seq(S) /\ Len(t) = k - i /\ \A x \in 1..(k - i) : t[x] = b[i + x]
  BY <1>5
<1>7. PICK c : c = l \o r
  OBVIOUS
<1>8. c \in Seq(S) /\ Len(c) = k - i
  <2>1. l \in Seq(S) /\ r \in Seq(S)
    BY <1>3, <1>4
  <2>2. c \in Seq(S) /\ Len(c) = Len(l) + Len(r)
    BY <1>7, <2>1
  <2>3. Len(l) + Len(r) = k - i
    BY <1>3, <1>4
  <2>q. QED  BY <2>2, <2>3
<1>9. \A x \in 1..(k - i) : c[x] = b[i + x]
  <2>1. TAKE x \in 1..(k - i)
  <2>2. CASE x <= n - i
    BY <1>3, <1>4, <1>7, <2>2
  <2>3. CASE x > n - i
    <3>1. x - (n - i) \in 1..(k - n) /\ n + (x - (n - i)) = i + x
      BY <2>3
    <3>2. c[x] = r[x - (n - i)]
      BY <1>3, <1>4, <1>7, <2>3
    <3>q. QED  BY <1>4, <3>1, <3>2
  <2>q. QED  BY <2>2, <2>3
<1>10. c = t
  BY <1>6, <1>8, <1>9
<1>q. QED  BY <1>1, <1>2, <1>5, <1>6, <1>7, <1>10 DEF MeetAt

(* The bytes i + 1 .. j are zero.                                          *)
ZeroFrom(b, i, j) == \A k \in (i + 1)..j : b[k] = ZeroByte

(* A stretch is zero where the sequence is.                                *)
LEMMA ZeroStretch ==
  ASSUME NEW S, NEW b \in Seq(S), NEW i \in Nat, NEW j \in Nat, i <= j, j <= Len(b)
  PROVE  Zeros(SubSeq(b, i + 1, j)) <=> ZeroFrom(b, i, j)
<1>1. PICK s : s = SubSeq(b, i + 1, j)
  OBVIOUS
<1>2. Zeros(s) <=> \A k \in 1..(j - i) : b[i + k] = ZeroByte
  <2>1. DOMAIN s = 1..(j - i) /\ \A k \in 1..(j - i) : s[k] = b[i + k]
    BY <1>1, Stretch
  <2>q. QED  BY <2>1 DEF Zeros
<1>3. ASSUME \A k \in 1..(j - i) : b[i + k] = ZeroByte, NEW k \in (i + 1)..j PROVE b[k] = ZeroByte
  <2>1. k - i \in 1..(j - i) /\ i + (k - i) = k
    OBVIOUS
  <2>q. QED  BY <1>3, <2>1
<1>4. ASSUME ZeroFrom(b, i, j), NEW k \in 1..(j - i) PROVE b[i + k] = ZeroByte
  BY <1>4 DEF ZeroFrom
<1>q. QED  BY <1>1, <1>2, <1>3, <1>4 DEF ZeroFrom

-----------------------------------------------------------------------------
(***************************************************************************)
(* The tar validator for one file. A validator that has found no fault     *)
(* after n bytes is at a place that these bytes determine, so how they     *)
(* were cut into chunks is forgotten. The place follows the layout of a    *)
(* whole archive as long as the bytes do.                                  *)
(***************************************************************************)

(* Where the body of the file and its padding end.                         *)
BodyEnd(m) == BlockBytes + m.size
EntryEnd(m) == BlockBytes + m.size + Padding(m.size)

(* The first block is a header of the file m.                              *)
Opens(b, m) ==
    /\ parse(SubSeq(b, 1, BlockBytes)) = "ok"
    /\ b[1][2].path = m.path
    /\ b[1][2].size = m.size

(* A whole archive of the one file m.                                      *)
OneFile(b, m) ==
    /\ Len(b) - EntryEnd(m) \in (2 * BlockBytes)..MaxTailBytes
    /\ (Len(b) - EntryEnd(m)) % BlockBytes = 0
    /\ Len(b) <= MaxArchiveBytes
    /\ ZeroFrom(b, BodyEnd(m), Len(b))
    /\ Opens(b, m)

(* They are places in this order.                                          *)
LEMMA Ends ==
  ASSUME NEW m, m.size \in Nat
  PROVE  /\ BlockBytes \in Nat /\ BlockBytes > 0 /\ Padding(m.size) \in Nat
         /\ BodyEnd(m) \in Nat /\ EntryEnd(m) \in Nat
         /\ BlockBytes <= BodyEnd(m) /\ BodyEnd(m) <= EntryEnd(m)
         /\ EntryEnd(m) = BodyEnd(m) + Padding(m.size)
<1>1. BlockBytes \in Nat /\ BlockBytes > 0
  BY ArchiveAssumption
<1>2. \A x \in Int : x % BlockBytes \in Nat
  BY <1>1
<1>3. Padding(m.size) \in Nat
  BY <1>1, <1>2 DEF Padding
<1>q. QED  BY <1>1, <1>3 DEF BodyEnd, EntryEnd

(* A stretch of zeros in two parts.                                        *)
LEMMA ZeroSplit ==
  ASSUME NEW b, NEW i \in Nat, NEW j \in Nat, NEW k \in Nat, i <= j, j <= k
  PROVE  ZeroFrom(b, i, k) <=> ZeroFrom(b, i, j) /\ ZeroFrom(b, j, k)
BY DEF ZeroFrom

(* The reference of Archive for one file, place by place.                  *)
LEMMA Layout ==
  ASSUME NEW S, NEW b \in Seq(S), NEW m, m.size \in Nat
  PROVE  WellFormedTar(b, <<m>>) <=> OneFile(b, m)
<1> DEFINE F == <<m>>
           room(i) == BlockBytes + F[i].size + Padding(F[i].size)
           start(o, i) == Total([j \in 1..(i - 1) |-> room(o[j])])
           Entry(o, i) ==
             LET entry == SubSeq(b, start(o, i) + 1, start(o, i + 1))
             IN  /\ parse(SubSeq(entry, 1, BlockBytes)) = "ok"
                 /\ entry[1][2].path = F[o[i]].path
                 /\ entry[1][2].size = F[o[i]].size
                 /\ Zeros(Skip(entry, BlockBytes + F[o[i]].size))
           Frame(o, n) ==
             /\ IsInjective(o)
             /\ Len(b) - start(o, n) \in (2 * BlockBytes)..MaxTailBytes
             /\ (Len(b) - start(o, n)) % BlockBytes = 0
             /\ Len(b) <= MaxArchiveBytes
             /\ Zeros(Skip(b, start(o, n)))
           Good(o) == Frame(o, 2) /\ Entry(o, 1)
<1>1. WellFormedTar(b, F) <=> \E o \in [1..1 -> 1..1] : Good(o)
  <2>1. Len(F) = 1 /\ Len(F) + 1 = 2
    OBVIOUS
  <2>2. WellFormedTar(b, F) <=>
          \E o \in [1..Len(F) -> 1..Len(F)] :
             Frame(o, Len(F) + 1) /\ \A i \in 1..Len(F) : Entry(o, i)
    <3>h. HIDE DEF F
    <3>q. QED  BY Zenon DEF WellFormedTar
  <2>h. HIDE DEF Entry, Frame, F
  <2>3. WellFormedTar(b, F) <=> \E o \in [1..1 -> 1..1] : Frame(o, 2) /\ \A i \in 1..1 : Entry(o, i)
    BY <2>1, <2>2
  <2>q. QED  BY <2>3
<1>2. PICK id : id = [i \in 1..1 |-> 1]
  OBVIOUS
<1>3. \A o \in [1..1 -> 1..1] : o = id
  BY <1>2
<1>4. id \in [1..1 -> 1..1] /\ IsInjective(id) /\ id[1] = 1
  BY <1>2 DEF IsInjective
<1>5. WellFormedTar(b, F) <=> Good(id)
  <2>h. HIDE DEF Good
  <2>q. QED  BY <1>1, <1>3, <1>4
<1>6. start(id, 1) = 0 /\ start(id, 2) = EntryEnd(m) /\ start(id, 1) + 1 = 1 /\ 1 + 1 = 2
  <2>1. PICK s : s = [j \in 1..0 |-> room(id[j])]
    OBVIOUS
  <2>2. DOMAIN s = {}
    BY <2>1
  <2>3. PICK t : t = [j \in 1..1 |-> room(id[j])]
    OBVIOUS
  <2>4. DOMAIN t = {1} /\ t[1] = EntryEnd(m)
    BY <1>4, <2>3 DEF EntryEnd
  <2>5. Total(s) = 0 /\ Total(t) = EntryEnd(m)
    BY <2>2, <2>4, TotalNone, TotalOne, Ends
  <2>q. QED  BY <2>1, <2>3, <2>5
<1>h. HIDE DEF start, room
<1>7. ASSUME EntryEnd(m) <= Len(b)
      PROVE  /\ Zeros(Skip(b, EntryEnd(m))) <=> ZeroFrom(b, EntryEnd(m), Len(b))
             /\ Entry(id, 1) <=> Opens(b, m) /\ ZeroFrom(b, BodyEnd(m), EntryEnd(m))
  <2>0. PICK e : e = SubSeq(b, 1, EntryEnd(m))
    OBVIOUS
  <2>1. /\ F[id[1]] = m
        /\ Entry(id, 1) <=> /\ parse(SubSeq(e, 1, BlockBytes)) = "ok"
                            /\ e[1][2].path = m.path
                            /\ e[1][2].size = m.size
                            /\ Zeros(Skip(e, BodyEnd(m)))
    <3>1. F[id[1]] = m
      BY <1>4
    <3>2. SubSeq(b, start(id, 1) + 1, start(id, 1 + 1)) = e
      <4>1. start(id, 1 + 1) = start(id, 2)
        BY <1>6, Zenon
      <4>q. QED  BY <1>6, <2>0, <4>1, Zenon
    <3>h. HIDE DEF F
    <3>q. QED  BY <3>1, <3>2 DEF BodyEnd
  <2>2. Zeros(Skip(b, EntryEnd(m))) <=> ZeroFrom(b, EntryEnd(m), Len(b))
    BY <1>7, Ends, ZeroStretch DEF Skip
  <2>3. /\ SubSeq(e, 1, BlockBytes) = SubSeq(b, 1, BlockBytes)
        /\ Skip(e, BodyEnd(m)) = SubSeq(b, BodyEnd(m) + 1, EntryEnd(m))
        /\ e[1] = b[1]
    <3>1. /\ BlockBytes \in 0..EntryEnd(m) /\ BodyEnd(m) \in 0..EntryEnd(m)
          /\ EntryEnd(m) \in Nat /\ EntryEnd(m) > 0
      BY Ends
    <3>2. SubSeq(e, 1, BlockBytes) = SubSeq(b, 1, BlockBytes) /\ e[1] = b[1]
      BY <1>7, <2>0, <3>1, PrefixStretch
    <3>3. Skip(e, BodyEnd(m)) = SubSeq(b, BodyEnd(m) + 1, EntryEnd(m))
      BY <1>7, <2>0, <3>1, PrefixStretch
    <3>q. QED  BY <3>2, <3>3
  <2>4. Zeros(Skip(e, BodyEnd(m))) <=> ZeroFrom(b, BodyEnd(m), EntryEnd(m))
    BY <1>7, <2>3, Ends, ZeroStretch
  <2>h. HIDE DEF Entry
  <2>q. QED  BY <2>1, <2>2, <2>3, <2>4 DEF Opens
<1>8. Good(id) <=>
        /\ Len(b) - EntryEnd(m) \in (2 * BlockBytes)..MaxTailBytes
        /\ (Len(b) - EntryEnd(m)) % BlockBytes = 0
        /\ Len(b) <= MaxArchiveBytes
        /\ Zeros(Skip(b, EntryEnd(m)))
        /\ Entry(id, 1)
  <2>h. HIDE DEF Entry
  <2>q. QED  BY <1>4, <1>6
<1>9. ASSUME Len(b) - EntryEnd(m) \in (2 * BlockBytes)..MaxTailBytes PROVE EntryEnd(m) <= Len(b)
  BY <1>9, Ends, ArchiveAssumption
<1>10. ASSUME EntryEnd(m) <= Len(b)
       PROVE  ZeroFrom(b, BodyEnd(m), Len(b)) <=>
                ZeroFrom(b, BodyEnd(m), EntryEnd(m)) /\ ZeroFrom(b, EntryEnd(m), Len(b))
  BY <1>10, Ends, ZeroSplit
<1>h2. HIDE DEF Entry, Frame, Good, F
<1>q. QED  BY <1>5, <1>7, <1>8, <1>9, <1>10 DEF OneFile, F

(* One turn of the loop, stage by stage.                                   *)
LEMMA HeaderTurn ==
  ASSUME NEW s, s.rest # <<>>, s.v.err = "ok", s.v.stage[1] = "Header", NEW take, NEW w,
         take = Lesser(Len(s.rest), BlockBytes - Len(s.v.header)),
         w = [s.v EXCEPT !.header = @ \o SubSeq(s.rest, 1, take)]
  PROVE  ConsumeTurn(s) = [v |-> IF Len(w.header) = BlockBytes THEN accept_header(w) ELSE w,
                           rest |-> Skip(s.rest, take)]
<1>1. Lesser(Len(s.rest), IF s.v.stage[1] = "Header" THEN BlockBytes - Len(s.v.header) ELSE s.v.stage[2]) = take
  BY Zenon
<1>q. QED  BY <1>1, Zenon DEF ConsumeTurn

(* A turn in the body.                                                     *)
LEMMA BodyTurn ==
  ASSUME NEW s, s.rest # <<>>, s.v.err = "ok", s.v.stage[1] = "Body", NEW take,
         take = Lesser(Len(s.rest), s.v.stage[2])
  PROVE  ConsumeTurn(s) =
           [v |-> [s.v EXCEPT !.stage =
                     IF take < s.v.stage[2] THEN <<"Body", s.v.stage[2] - take, s.v.stage[3]>>
                     ELSE IF s.v.stage[3] > 0 THEN <<"Padding", s.v.stage[3]>> ELSE <<"Header">>],
            rest |-> Skip(s.rest, take)]
<1>1. Lesser(Len(s.rest), IF s.v.stage[1] = "Header" THEN BlockBytes - Len(s.v.header) ELSE s.v.stage[2]) = take
  BY Zenon
<1>q. QED  BY <1>1, Zenon DEF ConsumeTurn

(* A turn in the padding.                                                  *)
LEMMA PaddingTurn ==
  ASSUME NEW s, s.rest # <<>>, s.v.err = "ok", s.v.stage[1] = "Padding", NEW take,
         take = Lesser(Len(s.rest), s.v.stage[2])
  PROVE  ConsumeTurn(s) =
           [v |-> IF ~Zeros(SubSeq(s.rest, 1, take)) THEN [s.v EXCEPT !.err = "InvalidPadding"]
                  ELSE [s.v EXCEPT !.stage = IF take = s.v.stage[2] THEN <<"Header">>
                                             ELSE <<"Padding", s.v.stage[2] - take>>],
            rest |-> Skip(s.rest, take)]
<1>1. Lesser(Len(s.rest), IF s.v.stage[1] = "Header" THEN BlockBytes - Len(s.v.header) ELSE s.v.stage[2]) = take
  BY Zenon
<1>q. QED  BY <1>1, Zenon DEF ConsumeTurn

(* A turn in the tail.                                                     *)
LEMMA EndTurn ==
  ASSUME NEW s, s.rest # <<>>, s.v.err = "ok", s.v.stage[1] = "End"
  PROVE  ConsumeTurn(s) =
           [v |-> [s.v EXCEPT !.err = FirstFault(<<<<s.v.stage[2] + Len(s.rest) <= MaxTailBytes, "LimitExceeded">>,
                                                   <<Zeros(s.rest), "InvalidPadding">>>>),
                              !.stage = <<"End", s.v.stage[2] + Len(s.rest)>>],
            rest |-> Skip(s.rest, Len(s.rest))]
BY Zenon DEF ConsumeTurn

(* A turn without input, or after a failure.                               *)
LEMMA IdleTurn ==
  ASSUME NEW s, s.rest = <<>> \/ s.v.err # "ok" PROVE ConsumeTurn(s) = s
BY Zenon DEF ConsumeTurn

(* The fields of a validator.                                              *)
VFields == {"files", "seen", "header", "stage", "total", "err"}

(* A whole block that is not zero.                                         *)
Matches(h, m) == parse(h) = "ok" /\ h[1][2].path = m.path /\ h[1][2].size = m.size

(* accept_header, for the zero block, for the file that was not seen yet,  *)
(* and for anything else.                                                  *)
LEMMA Accepts ==
  ASSUME NEW v, NEW m, v.files = <<m>>, NEW h, h = v.header
  PROVE  /\ Zeros(h) => accept_header(v) = [v EXCEPT !.stage = <<"End", BlockBytes>>, !.header = <<>>]
         /\ ~Zeros(h) /\ Matches(h, m) /\ 1 \notin v.seen =>
              accept_header(v) =
                [v EXCEPT !.seen = @ \cup {1}, !.header = <<>>,
                          !.stage = IF h[1][2].size > 0 THEN <<"Body", h[1][2].size, Padding(h[1][2].size)>> ELSE @]
         /\ ~Zeros(h) /\ ~(Matches(h, m) /\ 1 \notin v.seen) =>
              \E e : e # "ok" /\ accept_header(v) = [v EXCEPT !.err = e]
<1> DEFINE k == h[1][2]
           at == {i \in DOMAIN v.files : v.files[i].path = k.path}
           fresh == \E i \in at : i \notin v.seen /\ v.files[i].size = k.size
           err == IF parse(h) # "ok" THEN parse(h) ELSE IF fresh THEN "ok" ELSE "ManifestMismatch"
<1>1. Zeros(h) => accept_header(v) = [v EXCEPT !.stage = <<"End", BlockBytes>>, !.header = <<>>]
  BY Zenon DEF accept_header
<1>2. ~Zeros(h) /\ err # "ok" => accept_header(v) = [v EXCEPT !.err = err]
  BY Zenon DEF accept_header
<1>3. ~Zeros(h) /\ err = "ok" =>
        accept_header(v) = [v EXCEPT !.seen = @ \cup at, !.header = <<>>,
                         !.stage = IF k.size > 0 THEN <<"Body", k.size, Padding(k.size)>> ELSE @]
  BY Zenon DEF accept_header
<1>4. DOMAIN v.files = {1} /\ v.files[1] = m
  OBVIOUS
<1>5. fresh <=> m.path = k.path /\ 1 \notin v.seen /\ m.size = k.size
  BY <1>4, Zenon
<1>6. m.path = k.path => at = {1}
  BY <1>4
<1>7. err = "ok" <=> Matches(h, m) /\ 1 \notin v.seen
  <2>h. HIDE DEF fresh
  <2>q. QED  BY <1>5, Zenon DEF Matches
<1>8. Matches(h, m) => at = {1}
  BY <1>6 DEF Matches
<1>h. HIDE DEF err, at, k, fresh
<1>9. ~Zeros(h) /\ Matches(h, m) /\ 1 \notin v.seen =>
              accept_header(v) =
                [v EXCEPT !.seen = @ \cup {1}, !.header = <<>>,
                          !.stage = IF k.size > 0 THEN <<"Body", k.size, Padding(k.size)>> ELSE @]
  BY <1>3, <1>7, <1>8, Zenon
<1>q. QED  BY <1>1, <1>2, <1>7, <1>9, Zenon DEF k

(* The place of a validator without an error that has taken n bytes of b.  *)
AtHeader(v, b, m, n) ==
    n < BlockBytes /\ v.stage = <<"Header">> /\ v.header = SubSeq(b, 1, n) /\ v.seen = {}
AtVoid(v, b, m, n) ==     \* an end with no file before it
    n >= BlockBytes /\ ZeroFrom(b, 0, n) /\ v.stage = <<"End", n>> /\ v.seen = {}
AtBody(v, b, m, n) ==
    /\ n >= BlockBytes /\ n < BodyEnd(m) /\ Opens(b, m)
    /\ v.stage = <<"Body", BodyEnd(m) - n, Padding(m.size)>> /\ v.header = <<>> /\ v.seen = {1}
AtPadding(v, b, m, n) ==
    /\ n >= BodyEnd(m) /\ n < EntryEnd(m) /\ Opens(b, m) /\ ZeroFrom(b, BodyEnd(m), n)
    /\ v.stage = <<"Padding", EntryEnd(m) - n>> /\ v.header = <<>> /\ v.seen = {1}
AtNext(v, b, m, n) ==
    /\ n >= EntryEnd(m) /\ n < EntryEnd(m) + BlockBytes
    /\ Opens(b, m) /\ ZeroFrom(b, BodyEnd(m), EntryEnd(m))
    /\ v.stage = <<"Header">> /\ v.header = SubSeq(b, EntryEnd(m) + 1, n) /\ v.seen = {1}
AtTail(v, b, m, n) ==
    /\ n >= EntryEnd(m) + BlockBytes /\ Opens(b, m) /\ ZeroFrom(b, BodyEnd(m), n)
    /\ n = EntryEnd(m) + BlockBytes \/ n - EntryEnd(m) <= MaxTailBytes
    /\ v.stage = <<"End", n - EntryEnd(m)>> /\ v.seen = {1}
Placed(v, b, m, n) ==
    /\ DOMAIN v = VFields /\ v.files = <<m>> /\ v.err = "ok"
    /\ \/ AtHeader(v, b, m, n) \/ AtVoid(v, b, m, n) \/ AtBody(v, b, m, n)
       \/ AtPadding(v, b, m, n) \/ AtNext(v, b, m, n) \/ AtTail(v, b, m, n)

(* What a turn that was given the bytes n + 1 .. q leaves.                 *)
Turned(u, v, b, m, n, q) ==
    /\ DOMAIN u.v = VFields /\ u.v.total = v.total /\ u.v.files = v.files
    /\ \/ u.v.err # "ok" /\ ~OneFile(b, m)
       \/ \E k \in (n + 1)..q : u.rest = SubSeq(b, k + 1, q) /\ Placed(u.v, b, m, k)

(* A zero block is no header.                                              *)
LEMMA VoidFails ==
  ASSUME NEW S, NEW b \in Seq(S), NEW m, BlockBytes <= Len(b), ZeroFrom(b, 0, BlockBytes)
  PROVE  ~Opens(b, m)
<1>0. BlockBytes \in Nat /\ BlockBytes > 0
  BY ArchiveAssumption
<1>1. PICK h : h = SubSeq(b, 1, BlockBytes)
  OBVIOUS
<1>2. h[1] = b[1] /\ b[1] = ZeroByte
  BY <1>0, <1>1 DEF ZeroFrom
<1>3. h[1][1] # "header"
  BY <1>2 DEF ZeroByte
<1>4. parse(h) = "InvalidHeader"
  BY <1>3 DEF parse
<1>q. QED  BY <1>1, <1>4 DEF Opens

(* The header of the file is its first block.                              *)
LEMMA OpensMatches ==
  ASSUME NEW S, NEW b \in Seq(S), NEW m, BlockBytes <= Len(b)
  PROVE  Opens(b, m) <=> Matches(SubSeq(b, 1, BlockBytes), m)
<1>0. BlockBytes \in Nat /\ BlockBytes > 0
  BY ArchiveAssumption
<1>1. SubSeq(b, 1, BlockBytes)[1] = b[1]
  BY <1>0
<1>q. QED  BY <1>1 DEF Opens, Matches

(* An empty file has no padding.                                           *)
LEMMA NoPadding == Padding(0) = 0
<1>0. BlockBytes \in Nat /\ BlockBytes > 0
  BY ArchiveAssumption
<1>1. 0 % BlockBytes = 0 /\ BlockBytes % BlockBytes = 0
  BY <1>0
<1>2. BlockBytes - 0 = BlockBytes
  BY <1>0
<1>q. QED  BY <1>1, <1>2 DEF Padding

(* A turn that may take `left' of the bytes n + 1 .. q of b takes them to k. *)
TakesTo(b, n, q, left, r, take, k) ==
    /\ k = n + take /\ k <= n + left /\ (k < n + left => k = q)
    /\ Skip(r, take) = SubSeq(b, k + 1, q) /\ SubSeq(r, 1, take) = SubSeq(b, n + 1, k)
Takes(b, n, q, left, r, take) ==
    /\ r # <<>> /\ Len(r) = q - n /\ take \in Nat
    /\ \E k \in (n + 1)..q : TakesTo(b, n, q, left, r, take, k)

(* A turn takes what it may.                                               *)
LEMMA Taken ==
  ASSUME NEW S, NEW b \in Seq(S), NEW n \in Nat, NEW q \in Nat, n < q, q <= Len(b),
         NEW r, r = SubSeq(b, n + 1, q), NEW left \in Nat, left > 0, NEW take, take = Lesser(Len(r), left)
  PROVE  Takes(b, n, q, left, r, take)
<1>1. Len(r) = q - n /\ Len(r) > 0
  BY Stretch
<1>2. r # <<>>
  BY <1>1
<1>3. take \in 0..(q - n) /\ take > 0 /\ take <= left /\ (take < left => take = q - n)
  BY <1>1 DEF Lesser
<1>4. PICK k \in Nat : k = n + take
  BY <1>3
<1>5. k \in (n + 1)..q /\ k <= n + left /\ (k < n + left => k = q)
  BY <1>3, <1>4
<1>6. Skip(r, take) = SubSeq(b, k + 1, q) /\ SubSeq(r, 1, take) = SubSeq(b, n + 1, k)
  <2>1. PICK p \in Nat : p = n + 1 /\ p > 0 /\ p <= q + 1 /\ take = k - p + 1 /\ k <= q /\ take \in Nat
    BY <1>3, <1>4
  <2>2. CutAt(b, p, q, take, k)
    BY <2>1, SkipStretch, Zenon
  <2>q. QED  BY <2>1, <2>2 DEF CutAt
<1>7. take \in Nat
  BY <1>3
<1>q. QED  BY <1>1, <1>2, <1>4, <1>5, <1>6, <1>7 DEF Takes, TakesTo

(* A prefix is zero where the sequence is.                                 *)
LEMMA ZeroPrefix ==
  ASSUME NEW S, NEW b \in Seq(S), NEW j \in Nat, j <= Len(b)
  PROVE  Zeros(SubSeq(b, 1, j)) <=> ZeroFrom(b, 0, j)
<1>1. PICK s : s = SubSeq(b, 1, j)
  OBVIOUS
<1>2. DOMAIN s = 1..j /\ \A k \in 1..j : s[k] = b[k]
  BY <1>1
<1>3. (0 + 1)..j = 1..j
  OBVIOUS
<1>q. QED  BY <1>1, <1>2, <1>3 DEF Zeros, ZeroFrom

(* A turn in the first block.                                              *)
LEMMA HeaderPlaced ==
  ASSUME NEW S, NEW b \in Seq(S), NEW m, m.size \in Nat, NEW n \in Nat, NEW q \in Nat, n < q, q <= Len(b),
         NEW s, s.rest = SubSeq(b, n + 1, q), Placed(s.v, b, m, n), AtHeader(s.v, b, m, n)
  PROVE  Turned(ConsumeTurn(s), s.v, b, m, n, q)
<1>0. /\ BlockBytes \in Nat /\ BlockBytes > 0 /\ Len(b) \in Nat
      /\ BodyEnd(m) \in Nat /\ EntryEnd(m) \in Nat
      /\ BodyEnd(m) = BlockBytes + m.size /\ EntryEnd(m) = BodyEnd(m) + Padding(m.size)
  BY Ends DEF BodyEnd
<1>1. /\ DOMAIN s.v = VFields /\ s.v.files = <<m>> /\ s.v.err = "ok" /\ n < BlockBytes
      /\ s.v.stage = <<"Header">> /\ s.v.stage[1] = "Header" /\ s.v.header = SubSeq(b, 1, n) /\ s.v.seen = {}
  BY DEF Placed, AtHeader
<1>2. Len(s.v.header) = n
  BY <1>1
<1>3. PICK take : take = Lesser(Len(s.rest), BlockBytes - Len(s.v.header))
  OBVIOUS
<1>4. PICK left \in Nat : left = BlockBytes - n /\ left > 0 /\ n + left = BlockBytes
  BY <1>0, <1>1
<1>5. Takes(b, n, q, left, s.rest, take)
  <2>1. take = Lesser(Len(s.rest), left)
    BY <1>2, <1>3, <1>4
  <2>q. QED  BY <1>4, <2>1, Taken, Zenon
<1>6. PICK k \in (n + 1)..q :
           /\ k <= BlockBytes /\ (k < BlockBytes => k = q) /\ s.rest # <<>>
           /\ Skip(s.rest, take) = SubSeq(b, k + 1, q) /\ SubSeq(s.rest, 1, take) = SubSeq(b, n + 1, k)
  BY <1>4, <1>5 DEF Takes, TakesTo
<1>w. PICK w : w = [s.v EXCEPT !.header = @ \o SubSeq(s.rest, 1, take)]
  OBVIOUS
<1>7. w.header = SubSeq(b, 1, k) /\ Len(w.header) = k
  <2>1. w.header = s.v.header \o SubSeq(s.rest, 1, take)
    BY <1>1, <1>w DEF VFields
  <2>2. k \in Nat /\ n <= k /\ k <= Len(b)
    BY <1>0, <1>6
  <2>3. SubSeq(b, 1, n) \o SubSeq(b, n + 1, k) = SubSeq(b, 1, k) /\ Len(SubSeq(b, 1, k)) = k
    BY <2>2, PrefixJoin, Zenon
  <2>q. QED  BY <1>1, <1>6, <2>1, <2>3
<1>8. /\ DOMAIN w = VFields /\ w.files = <<m>> /\ w.err = "ok" /\ w.stage = <<"Header">> /\ w.seen = {}
      /\ w.total = s.v.total
  BY <1>1, <1>w DEF VFields
<1>9. ConsumeTurn(s) = [v |-> IF k = BlockBytes THEN accept_header(w) ELSE w, rest |-> SubSeq(b, k + 1, q)]
  <2>1. ConsumeTurn(s) = [v |-> IF Len(w.header) = BlockBytes THEN accept_header(w) ELSE w,
                          rest |-> Skip(s.rest, take)]
    BY <1>1, <1>3, <1>6, <1>w, HeaderTurn, Zenon
  <2>q. QED  BY <1>6, <1>7, <2>1, Zenon
<1>10. CASE k < BlockBytes
  <2>1. ConsumeTurn(s).v = w /\ ConsumeTurn(s).rest = SubSeq(b, k + 1, q)
    BY <1>0, <1>6, <1>9, <1>10
  <2>2. Placed(w, b, m, k)
    BY <1>7, <1>8, <1>10 DEF Placed, AtHeader
  <2>q. QED  BY <1>1, <1>6, <1>8, <2>1, <2>2 DEF Turned
<1>11. CASE k = BlockBytes
  <2>1. PICK a : a = accept_header(w)
    OBVIOUS
  <2>2. ConsumeTurn(s).v = a /\ ConsumeTurn(s).rest = SubSeq(b, k + 1, q)
    BY <1>9, <1>11, <2>1
  <2>3. PICK h : h = w.header
    OBVIOUS
  <2>4. h = SubSeq(b, 1, BlockBytes) /\ BlockBytes <= Len(b)
    BY <1>6, <1>7, <1>11, <2>3
  <2>5. CASE Zeros(h)
    <3>1. a = [w EXCEPT !.stage = <<"End", BlockBytes>>, !.header = <<>>]
      BY <1>8, <2>1, <2>3, <2>5, Accepts
    <3>2. ZeroFrom(b, 0, BlockBytes)
      BY <1>0, <2>4, <2>5, ZeroPrefix
    <3>3. /\ DOMAIN a = VFields /\ a.files = <<m>> /\ a.err = "ok" /\ a.stage = <<"End", BlockBytes>>
          /\ a.seen = {} /\ a.total = s.v.total
      BY <1>8, <3>1 DEF VFields
    <3>4. Placed(a, b, m, k)
      BY <1>0, <1>11, <3>2, <3>3 DEF Placed, AtVoid
    <3>q. QED  BY <1>1, <1>6, <2>2, <3>3, <3>4 DEF Turned
  <2>6. CASE ~Zeros(h) /\ Matches(h, m)
    <3>1. h[1][2].size = m.size /\ 1 \notin w.seen
      BY <1>8, <2>6 DEF Matches
    <3>2. a = [w EXCEPT !.seen = @ \cup {1}, !.header = <<>>,
                        !.stage = IF m.size > 0 THEN <<"Body", m.size, Padding(m.size)>> ELSE @]
      BY <1>8, <2>1, <2>3, <2>6, <3>1, Accepts
    <3>3. /\ DOMAIN a = VFields /\ a.files = <<m>> /\ a.err = "ok" /\ a.seen = {1} /\ a.header = <<>>
          /\ a.stage = IF m.size > 0 THEN <<"Body", m.size, Padding(m.size)>> ELSE <<"Header">>
          /\ a.total = s.v.total
      BY <1>8, <3>2 DEF VFields
    <3>4. Opens(b, m)
      BY <2>4, <2>6, OpensMatches
    <3>5. CASE m.size > 0
      <4>1. BodyEnd(m) - k = m.size /\ k < BodyEnd(m) /\ k >= BlockBytes
        BY <1>0, <1>11, <3>5
      <4>2. AtBody(a, b, m, k)
        BY <3>3, <3>4, <3>5, <4>1 DEF AtBody
      <4>q. QED  BY <1>1, <1>6, <2>2, <3>3, <4>2 DEF Turned, Placed
    <3>6. CASE m.size = 0
      <4>1. BodyEnd(m) = k /\ EntryEnd(m) = k
        BY <1>0, <1>11, <3>6, NoPadding
      <4>2. SubSeq(b, k + 1, k) = <<>> /\ ZeroFrom(b, k, k) /\ k < k + BlockBytes
        <5>1. k \in Nat /\ k <= Len(b)
          BY <1>6
        <5>2. SubSeq(b, k + 1, k) = <<>>
          BY <5>1
        <5>3. (k + 1)..k = {}
          BY <5>1
        <5>4. k < k + BlockBytes
          BY <1>0, <5>1
        <5>q. QED  BY <5>2, <5>3, <5>4 DEF ZeroFrom
      <4>3. k >= EntryEnd(m) /\ k < EntryEnd(m) + BlockBytes /\ ZeroFrom(b, BodyEnd(m), EntryEnd(m))
        BY <1>6, <4>1, <4>2
      <4>4. a.header = SubSeq(b, EntryEnd(m) + 1, k) /\ a.stage = <<"Header">> /\ a.seen = {1}
        BY <3>3, <3>6, <4>1, <4>2
      <4>5. AtNext(a, b, m, k)
        BY <3>4, <4>3, <4>4, Zenon DEF AtNext
      <4>q. QED  BY <1>1, <1>6, <2>2, <3>3, <4>5 DEF Turned, Placed
    <3>q. QED  BY <3>5, <3>6
  <2>7. CASE ~Zeros(h) /\ ~Matches(h, m)
    <3>1. PICK e : e # "ok" /\ a = [w EXCEPT !.err = e]
      BY <1>8, <2>1, <2>3, <2>7, Accepts
    <3>2. DOMAIN a = VFields /\ a.files = <<m>> /\ a.err # "ok" /\ a.total = s.v.total
      BY <1>8, <3>1 DEF VFields
    <3>3. ~OneFile(b, m)
      BY <2>4, <2>7, OpensMatches DEF OneFile
    <3>q. QED  BY <1>1, <2>2, <3>2, <3>3 DEF Turned
  <2>q. QED  BY <2>5, <2>6, <2>7
<1>q. QED  BY <1>0, <1>6, <1>10, <1>11

(* A turn in the tail, which takes the whole input.                        *)
LEMMA EndPlaced ==
  ASSUME NEW S, NEW b \in Seq(S), NEW m, m.size \in Nat, NEW n \in Nat, NEW q \in Nat, n < q, q <= Len(b),
         NEW s, s.rest = SubSeq(b, n + 1, q), Placed(s.v, b, m, n),
         AtVoid(s.v, b, m, n) \/ AtTail(s.v, b, m, n)
  PROVE  Turned(ConsumeTurn(s), s.v, b, m, n, q)
<1>0. /\ BlockBytes \in Nat /\ BlockBytes > 0 /\ Len(b) \in Nat
      /\ BodyEnd(m) \in Nat /\ EntryEnd(m) \in Nat /\ BodyEnd(m) <= EntryEnd(m) /\ MaxTailBytes \in Nat
  BY Ends, ArchiveAssumption
<1>1. DOMAIN s.v = VFields /\ s.v.files = <<m>> /\ s.v.err = "ok"
  BY DEF Placed
<1>2. PICK left \in Nat : left = s.v.stage[2] /\ s.v.stage[1] = "End"
                          /\ (AtTail(s.v, b, m, n) => left = n - EntryEnd(m))
                          /\ (AtVoid(s.v, b, m, n) => left = n)
  <2>1. CASE AtVoid(s.v, b, m, n) /\ ~AtTail(s.v, b, m, n)
    BY <2>1 DEF AtVoid
  <2>2. CASE AtTail(s.v, b, m, n)
    <3>1. s.v.seen = {1}
      BY <2>2 DEF AtTail
    <3>2. ~AtVoid(s.v, b, m, n)
      BY <3>1 DEF AtVoid
    <3>3. n - EntryEnd(m) \in Nat
      BY <1>0, <2>2 DEF AtTail
    <3>4. s.v.stage = <<"End", n - EntryEnd(m)>>
      BY <2>2 DEF AtTail
    <3>q. QED  BY <3>2, <3>3, <3>4
  <2>q. QED  BY <2>1, <2>2
<1>3. s.rest # <<>> /\ Len(s.rest) = q - n
  <2>1. Len(s.rest) = q - n
    BY Stretch
  <2>q. QED  BY <2>1
<1>4. PICK err : err = FirstFault(<<<<left + Len(s.rest) <= MaxTailBytes, "LimitExceeded">>,
                                    <<Zeros(s.rest), "InvalidPadding">>>>)
  OBVIOUS
<1>5. err = "ok" <=> left + (q - n) <= MaxTailBytes /\ ZeroFrom(b, n, q)
  <2>1. PICK x \in BOOLEAN, y \in BOOLEAN :
          (x <=> left + Len(s.rest) <= MaxTailBytes) /\ (y <=> Zeros(s.rest))
    <3>1. (left + Len(s.rest) <= MaxTailBytes) \in BOOLEAN /\ Zeros(s.rest) \in BOOLEAN
      BY DEF Zeros
    <3>q. QED  BY <3>1
  <2>2. x = (left + Len(s.rest) <= MaxTailBytes) /\ y = Zeros(s.rest)
    <3>1. (left + Len(s.rest) <= MaxTailBytes) \in BOOLEAN /\ Zeros(s.rest) \in BOOLEAN
      BY DEF Zeros
    <3>q. QED  BY <2>1, <3>1
  <2>3. err = FirstFault(<<<<x, "LimitExceeded">>, <<y, "InvalidPadding">>>>)
    BY <1>4, <2>2, Zenon
  <2>4. PICK e, f : e = "LimitExceeded" /\ f = "InvalidPadding"
    OBVIOUS
  <2>5. FirstFault(<<<<x, e>>, <<y, f>>>>) = "ok" <=> x /\ y
    BY <2>4, NoFault2
  <2>6. Zeros(s.rest) <=> ZeroFrom(b, n, q)
    BY ZeroStretch
  <2>q. QED  BY <1>3, <2>1, <2>3, <2>4, <2>5, <2>6
<1>6. PICK w : w = [s.v EXCEPT !.err = err, !.stage = <<"End", left + Len(s.rest)>>]
  OBVIOUS
<1>7. ConsumeTurn(s).v = w /\ ConsumeTurn(s).rest = Skip(s.rest, Len(s.rest))
  <2>1. ConsumeTurn(s) =
           [v |-> [s.v EXCEPT !.err = FirstFault(<<<<s.v.stage[2] + Len(s.rest) <= MaxTailBytes, "LimitExceeded">>,
                                                   <<Zeros(s.rest), "InvalidPadding">>>>),
                              !.stage = <<"End", s.v.stage[2] + Len(s.rest)>>],
            rest |-> Skip(s.rest, Len(s.rest))]
    BY <1>1, <1>2, <1>3, EndTurn, Zenon
  <2>2. ConsumeTurn(s) = [v |-> w, rest |-> Skip(s.rest, Len(s.rest))]
    BY <1>2, <1>4, <1>6, <2>1, Zenon
  <2>q. QED  BY <2>2
<1>8. Skip(s.rest, Len(s.rest)) = SubSeq(b, q + 1, q)
  <2>1. s.rest \in Seq(S)
    BY Stretch
  <2>2. Skip(s.rest, Len(s.rest)) = <<>> /\ SubSeq(b, q + 1, q) = <<>>
    BY <2>1 DEF Skip
  <2>q. QED  BY <2>2
<1>9. /\ DOMAIN w = VFields /\ w.files = <<m>> /\ w.err = err /\ w.seen = s.v.seen /\ w.total = s.v.total
      /\ w.stage = <<"End", left + (q - n)>>
  BY <1>1, <1>3, <1>6 DEF VFields
<1>10. CASE AtVoid(s.v, b, m, n)
  <2>1. n >= BlockBytes /\ ZeroFrom(b, 0, n) /\ s.v.seen = {}
    BY <1>10 DEF AtVoid
  <2>n. left = n /\ n >= BlockBytes
    BY <1>2, <1>10, <2>1
  <2>2. CASE err = "ok"
    <3>1. ZeroFrom(b, 0, q)
      BY <1>5, <2>1, <2>2, ZeroSplit
    <3>2. left + (q - n) = q /\ q >= BlockBytes
      BY <1>0, <2>n
    <3>3. AtVoid(w, b, m, q)
      BY <1>9, <2>1, <3>1, <3>2 DEF AtVoid
    <3>4. Placed(w, b, m, q)
      BY <1>9, <2>2, <3>3 DEF Placed
    <3>5. q \in (n + 1)..q
      OBVIOUS
    <3>q. QED  BY <1>1, <1>7, <1>8, <1>9, <3>4, <3>5 DEF Turned
  <2>3. CASE err # "ok"
    <3>1. ZeroFrom(b, 0, BlockBytes) /\ BlockBytes <= Len(b)
      <4>1. BlockBytes <= Len(b) /\ \A i \in (0 + 1)..BlockBytes : i \in (0 + 1)..n
        BY <1>0, <2>n
      <4>q. QED  BY <2>1, <4>1 DEF ZeroFrom
    <3>2. ~OneFile(b, m)
      BY <3>1, VoidFails DEF OneFile
    <3>q. QED  BY <1>1, <1>7, <1>9, <2>3, <3>2 DEF Turned
  <2>q. QED  BY <2>2, <2>3
<1>11. CASE AtTail(s.v, b, m, n)
  <2>1. /\ n >= EntryEnd(m) + BlockBytes /\ Opens(b, m) /\ ZeroFrom(b, BodyEnd(m), n) /\ s.v.seen = {1}
    BY <1>11 DEF AtTail
  <2>n. left = n - EntryEnd(m) /\ n >= EntryEnd(m) + BlockBytes
    BY <1>2, <1>11, <2>1
  <2>2. left + (q - n) = q - EntryEnd(m) /\ BodyEnd(m) <= n
    <3>1. PICK d \in Nat, e \in Nat : d = BodyEnd(m) /\ e = EntryEnd(m)
      BY <1>0
    <3>2. left = n - e /\ n >= e + BlockBytes /\ d <= e
      BY <1>0, <2>n, <3>1
    <3>3. left + (q - n) = q - e /\ d <= n
      BY <1>0, <3>2
    <3>q. QED  BY <3>1, <3>3
  <2>3. CASE err = "ok"
    <3>1. ZeroFrom(b, BodyEnd(m), q)
      BY <1>0, <1>5, <2>1, <2>2, <2>3, ZeroSplit
    <3>2. q - EntryEnd(m) <= MaxTailBytes /\ q >= EntryEnd(m) + BlockBytes
      BY <1>0, <1>5, <2>1, <2>2, <2>3
    <3>3. AtTail(w, b, m, q)
      BY <1>9, <2>1, <2>2, <3>1, <3>2 DEF AtTail
    <3>4. Placed(w, b, m, q)
      BY <1>9, <2>3, <3>3 DEF Placed
    <3>5. q \in (n + 1)..q
      OBVIOUS
    <3>q. QED  BY <1>1, <1>7, <1>8, <1>9, <3>4, <3>5 DEF Turned
  <2>4. CASE err # "ok"
    <3>1. ASSUME OneFile(b, m) PROVE FALSE
      <4>1. /\ Len(b) - EntryEnd(m) <= MaxTailBytes
            /\ ZeroFrom(b, BodyEnd(m), Len(b))
        BY <1>0, <3>1 DEF OneFile
      <4>2. q - EntryEnd(m) <= MaxTailBytes
        BY <1>0, <4>1
      <4>3. ZeroFrom(b, n, q)
        <5>1. \A i \in (n + 1)..q : i \in (BodyEnd(m) + 1)..Len(b)
          BY <1>0, <2>2
        <5>q. QED  BY <4>1, <5>1 DEF ZeroFrom
      <4>q. QED  BY <1>5, <2>2, <2>4, <4>2, <4>3
    <3>q. QED  BY <1>1, <1>7, <1>9, <2>4, <3>1 DEF Turned
  <2>q. QED  BY <2>3, <2>4
<1>q. QED  BY <1>10, <1>11

(* A turn in the body, whose bytes may be any.                             *)
LEMMA BodyPlaced ==
  ASSUME NEW S, NEW b \in Seq(S), NEW m, m.size \in Nat, NEW n \in Nat, NEW q \in Nat, n < q, q <= Len(b),
         NEW s, s.rest = SubSeq(b, n + 1, q), Placed(s.v, b, m, n), AtBody(s.v, b, m, n)
  PROVE  Turned(ConsumeTurn(s), s.v, b, m, n, q)
<1>0. PICK B \in Nat, d \in Nat, e \in Nat, p \in Nat :
        /\ B = BlockBytes /\ B > 0 /\ Len(b) \in Nat
        /\ d = BodyEnd(m) /\ e = EntryEnd(m) /\ p = Padding(m.size) /\ e = d + p
  BY Ends
<1>1. /\ DOMAIN s.v = VFields /\ s.v.files = <<m>> /\ s.v.err = "ok" /\ Opens(b, m)
      /\ s.v.stage = <<"Body", d - n, p>> /\ s.v.header = <<>> /\ s.v.seen = {1}
  BY <1>0 DEF Placed, AtBody
<1>n. n >= B /\ n < d
  BY <1>0 DEF AtBody
<1>2. PICK left \in Nat : left = d - n /\ left > 0 /\ n + left = d
  BY <1>n
<1>3. s.v.stage[1] = "Body" /\ s.v.stage[2] = left /\ s.v.stage[3] = p
  BY <1>1, <1>2
<1>4. PICK take : take = Lesser(Len(s.rest), left)
  OBVIOUS
<1>5. Takes(b, n, q, left, s.rest, take)
  BY <1>2, <1>4, Taken, Zenon
<1>6. PICK k \in (n + 1)..q :
           /\ k = n + take /\ k <= d /\ (k < d => k = q) /\ take \in Nat /\ s.rest # <<>>
           /\ Skip(s.rest, take) = SubSeq(b, k + 1, q)
  BY <1>2, <1>5 DEF Takes, TakesTo
<1>7. PICK w : w = [s.v EXCEPT !.stage = IF take < left THEN <<"Body", left - take, p>>
                                         ELSE IF p > 0 THEN <<"Padding", p>> ELSE <<"Header">>]
  OBVIOUS
<1>8. ConsumeTurn(s).v = w /\ ConsumeTurn(s).rest = SubSeq(b, k + 1, q)
  <2>1. ConsumeTurn(s) =
           [v |-> [s.v EXCEPT !.stage =
                     IF take < s.v.stage[2] THEN <<"Body", s.v.stage[2] - take, s.v.stage[3]>>
                     ELSE IF s.v.stage[3] > 0 THEN <<"Padding", s.v.stage[3]>> ELSE <<"Header">>],
            rest |-> Skip(s.rest, take)]
    BY <1>1, <1>3, <1>4, <1>6, BodyTurn, Zenon
  <2>2. ConsumeTurn(s) = [v |-> w, rest |-> SubSeq(b, k + 1, q)]
    BY <1>3, <1>6, <1>7, <2>1, Zenon
  <2>q. QED  BY <2>2
<1>9. /\ DOMAIN w = VFields /\ w.files = <<m>> /\ w.err = "ok" /\ w.seen = {1} /\ w.total = s.v.total
      /\ w.header = <<>>
      /\ w.stage = IF take < left THEN <<"Body", left - take, p>>
                   ELSE IF p > 0 THEN <<"Padding", p>> ELSE <<"Header">>
  BY <1>1, <1>7 DEF VFields
<1>10. CASE k < d
  <2>1. take < left /\ left - take = d - k /\ k >= B
    BY <1>2, <1>6, <1>n, <1>10
  <2>2. w.stage = <<"Body", BodyEnd(m) - k, Padding(m.size)>> /\ k >= BlockBytes /\ k < BodyEnd(m)
    BY <1>0, <1>9, <1>10, <2>1
  <2>3. AtBody(w, b, m, k)
    BY <1>1, <1>9, <2>2 DEF AtBody
  <2>q. QED  BY <1>1, <1>6, <1>8, <1>9, <2>3 DEF Turned, Placed
<1>11. CASE k = d
  <2>1. ~(take < left)
    BY <1>2, <1>6, <1>11
  <2>2. ZeroFrom(b, k, k)
    BY <1>6 DEF ZeroFrom
  <2>3. CASE p > 0
    <3>1. w.stage = <<"Padding", EntryEnd(m) - k>> /\ k >= BodyEnd(m) /\ k < EntryEnd(m)
      <4>1. e - k = p /\ k >= d /\ k < e
        BY <1>0, <1>11, <2>3
      <4>q. QED  BY <1>0, <1>9, <2>1, <2>3, <4>1
    <3>2. AtPadding(w, b, m, k)
      BY <1>0, <1>1, <1>9, <1>11, <2>2, <3>1 DEF AtPadding
    <3>q. QED  BY <1>1, <1>6, <1>8, <1>9, <3>2 DEF Turned, Placed
  <2>4. CASE p = 0
    <3>1. w.stage = <<"Header">> /\ k = EntryEnd(m) /\ k = BodyEnd(m)
      BY <1>0, <1>9, <1>11, <2>1, <2>4
    <3>2. k >= EntryEnd(m) /\ k < EntryEnd(m) + BlockBytes
      BY <1>0, <3>1
    <3>3. SubSeq(b, EntryEnd(m) + 1, k) = <<>>
      BY <1>6, <3>1
    <3>4. AtNext(w, b, m, k)
      BY <1>1, <1>9, <2>2, <3>1, <3>2, <3>3 DEF AtNext
    <3>q. QED  BY <1>1, <1>6, <1>8, <1>9, <3>4 DEF Turned, Placed
  <2>q. QED  BY <2>3, <2>4
<1>q. QED  BY <1>6, <1>10, <1>11

(* A turn in the padding: only zeros.                                      *)
LEMMA PaddingPlaced ==
  ASSUME NEW S, NEW b \in Seq(S), NEW m, m.size \in Nat, NEW n \in Nat, NEW q \in Nat, n < q, q <= Len(b),
         NEW s, s.rest = SubSeq(b, n + 1, q), Placed(s.v, b, m, n), AtPadding(s.v, b, m, n)
  PROVE  Turned(ConsumeTurn(s), s.v, b, m, n, q)
<1>0. PICK B \in Nat, d \in Nat, e \in Nat :
        B = BlockBytes /\ B > 0 /\ Len(b) \in Nat /\ d = BodyEnd(m) /\ e = EntryEnd(m) /\ d <= e
  BY Ends
<1>1. /\ DOMAIN s.v = VFields /\ s.v.files = <<m>> /\ s.v.err = "ok" /\ Opens(b, m) /\ ZeroFrom(b, d, n)
      /\ s.v.stage = <<"Padding", e - n>> /\ s.v.header = <<>> /\ s.v.seen = {1}
  BY <1>0 DEF Placed, AtPadding
<1>n. n >= d /\ n < e
  BY <1>0 DEF AtPadding
<1>2. PICK left \in Nat : left = e - n /\ left > 0 /\ n + left = e
  BY <1>n
<1>3. s.v.stage[1] = "Padding" /\ s.v.stage[2] = left
  BY <1>1, <1>2
<1>4. PICK take : take = Lesser(Len(s.rest), left)
  OBVIOUS
<1>5. Takes(b, n, q, left, s.rest, take)
  BY <1>2, <1>4, Taken, Zenon
<1>6. PICK k \in (n + 1)..q :
           /\ k = n + take /\ k <= e /\ (k < e => k = q) /\ take \in Nat /\ s.rest # <<>>
           /\ Skip(s.rest, take) = SubSeq(b, k + 1, q) /\ SubSeq(s.rest, 1, take) = SubSeq(b, n + 1, k)
  BY <1>2, <1>5 DEF Takes, TakesTo
<1>7. PICK w : w = IF ~ZeroFrom(b, n, k) THEN [s.v EXCEPT !.err = "InvalidPadding"]
                   ELSE [s.v EXCEPT !.stage = IF take = left THEN <<"Header">> ELSE <<"Padding", left - take>>]
  OBVIOUS
<1>8. ConsumeTurn(s).v = w /\ ConsumeTurn(s).rest = SubSeq(b, k + 1, q)
  <2>0. Zeros(SubSeq(s.rest, 1, take)) <=> ZeroFrom(b, n, k)
    <3>1. k \in Nat /\ n <= k /\ k <= Len(b)
      BY <1>0
    <3>q. QED  BY <1>6, <3>1, ZeroStretch
  <2>1. ConsumeTurn(s) =
           [v |-> IF ~Zeros(SubSeq(s.rest, 1, take)) THEN [s.v EXCEPT !.err = "InvalidPadding"]
                  ELSE [s.v EXCEPT !.stage = IF take = s.v.stage[2] THEN <<"Header">>
                                             ELSE <<"Padding", s.v.stage[2] - take>>],
            rest |-> Skip(s.rest, take)]
    BY <1>1, <1>3, <1>4, <1>6, PaddingTurn, Zenon
  <2>2. ConsumeTurn(s) = [v |-> w, rest |-> SubSeq(b, k + 1, q)]
    BY <1>3, <1>6, <1>7, <2>0, <2>1, Zenon
  <2>q. QED  BY <2>2
<1>9. CASE ~ZeroFrom(b, n, k)
  <2>1. w = [s.v EXCEPT !.err = "InvalidPadding"]
    BY <1>7, <1>9
  <2>2. DOMAIN w = VFields /\ w.files = <<m>> /\ w.err # "ok" /\ w.total = s.v.total
    BY <1>1, <2>1 DEF VFields
  <2>3. ASSUME OneFile(b, m) PROVE FALSE
    <3>1. ZeroFrom(b, d, Len(b))
      BY <1>0, <2>3 DEF OneFile
    <3>2. \A i \in (n + 1)..k : i \in (d + 1)..Len(b)
      BY <1>0, <1>6, <1>n
    <3>q. QED  BY <1>9, <3>1, <3>2 DEF ZeroFrom
  <2>q. QED  BY <1>1, <1>8, <2>2, <2>3 DEF Turned
<1>10. CASE ZeroFrom(b, n, k)
  <2>1. w = [s.v EXCEPT !.stage = IF take = left THEN <<"Header">> ELSE <<"Padding", left - take>>]
    BY <1>7, <1>10
  <2>2. /\ DOMAIN w = VFields /\ w.files = <<m>> /\ w.err = "ok" /\ w.seen = {1} /\ w.total = s.v.total
        /\ w.header = <<>> /\ w.stage = IF take = left THEN <<"Header">> ELSE <<"Padding", left - take>>
    BY <1>1, <2>1 DEF VFields
  <2>3. ZeroFrom(b, d, k)
    <3>1. k \in Nat /\ d <= n /\ n <= k
      BY <1>6, <1>n
    <3>q. QED  BY <1>1, <1>10, <3>1, ZeroSplit
  <2>4. CASE k < e
    <3>1. take # left /\ left - take = e - k /\ k >= d
      BY <1>2, <1>6, <1>n, <2>4
    <3>2. w.stage = <<"Padding", EntryEnd(m) - k>> /\ k >= BodyEnd(m) /\ k < EntryEnd(m)
      BY <1>0, <2>2, <2>4, <3>1
    <3>3. AtPadding(w, b, m, k)
      BY <1>0, <1>1, <2>2, <2>3, <3>2 DEF AtPadding
    <3>q. QED  BY <1>1, <1>6, <1>8, <2>2, <3>3 DEF Turned, Placed
  <2>5. CASE k = e
    <3>1. take = left
      BY <1>2, <1>6, <2>5
    <3>2. k >= EntryEnd(m) /\ k < EntryEnd(m) + BlockBytes /\ k = EntryEnd(m)
      BY <1>0, <2>5
    <3>3. SubSeq(b, EntryEnd(m) + 1, k) = <<>>
      BY <1>6, <3>2
    <3>4. AtNext(w, b, m, k)
      BY <1>0, <1>1, <2>2, <2>3, <3>1, <3>2, <3>3 DEF AtNext
    <3>q. QED  BY <1>1, <1>6, <1>8, <2>2, <3>4 DEF Turned, Placed
  <2>q. QED  BY <1>6, <2>4, <2>5
<1>q. QED  BY <1>9, <1>10

(* A turn in the block after the file: the first of the tail, as a second  *)
(* header matches no file.                                                 *)
LEMMA NextPlaced ==
  ASSUME NEW S, NEW b \in Seq(S), NEW m, m.size \in Nat, NEW n \in Nat, NEW q \in Nat, n < q, q <= Len(b),
         NEW s, s.rest = SubSeq(b, n + 1, q), Placed(s.v, b, m, n), AtNext(s.v, b, m, n)
  PROVE  Turned(ConsumeTurn(s), s.v, b, m, n, q)
<1>0. PICK B \in Nat, d \in Nat, e \in Nat :
        B = BlockBytes /\ B > 0 /\ Len(b) \in Nat /\ d = BodyEnd(m) /\ e = EntryEnd(m) /\ d <= e
  BY Ends
<1>1. /\ DOMAIN s.v = VFields /\ s.v.files = <<m>> /\ s.v.err = "ok" /\ Opens(b, m) /\ ZeroFrom(b, d, e)
      /\ s.v.stage = <<"Header">> /\ s.v.stage[1] = "Header" /\ s.v.header = SubSeq(b, e + 1, n) /\ s.v.seen = {1}
  BY <1>0 DEF Placed, AtNext
<1>n. n >= e /\ n < e + B
  BY <1>0 DEF AtNext
<1>2. Len(s.v.header) = n - e
  BY <1>0, <1>1, <1>n, Stretch
<1>3. PICK take : take = Lesser(Len(s.rest), BlockBytes - Len(s.v.header))
  OBVIOUS
<1>4. PICK left \in Nat : left = B - (n - e) /\ left > 0 /\ n + left = e + B
  BY <1>0, <1>n
<1>5. Takes(b, n, q, left, s.rest, take)
  <2>1. take = Lesser(Len(s.rest), left)
    BY <1>0, <1>2, <1>3, <1>4
  <2>q. QED  BY <1>4, <2>1, Taken, Zenon
<1>6. PICK k \in (n + 1)..q :
           /\ k <= e + B /\ (k < e + B => k = q) /\ s.rest # <<>>
           /\ Skip(s.rest, take) = SubSeq(b, k + 1, q) /\ SubSeq(s.rest, 1, take) = SubSeq(b, n + 1, k)
  BY <1>4, <1>5 DEF Takes, TakesTo
<1>k. k \in Nat /\ n < k /\ k <= q /\ s.rest # <<>>
  <2>1. s.rest # <<>>
    BY <1>6
  <2>q. QED  BY <2>1
<1>l. k <= e + B
  BY <1>6
<1>w. PICK w : w = [s.v EXCEPT !.header = @ \o SubSeq(s.rest, 1, take)]
  OBVIOUS
<1>7. w.header = SubSeq(b, e + 1, k) /\ Len(w.header) = k - e
  <2>1. w.header = s.v.header \o SubSeq(s.rest, 1, take)
    BY <1>1, <1>w DEF VFields
  <2>2. k \in Nat /\ e <= n /\ n <= k /\ k <= Len(b)
    BY <1>0, <1>6, <1>n
  <2>3. MeetAt(b, e, n, k)
    BY <2>2, JoinStretch, Zenon
  <2>q. QED  BY <1>1, <1>6, <2>1, <2>3 DEF MeetAt
<1>8. /\ DOMAIN w = VFields /\ w.files = <<m>> /\ w.err = "ok" /\ w.stage = <<"Header">> /\ w.seen = {1}
      /\ w.total = s.v.total
  BY <1>1, <1>w DEF VFields
<1>9. ConsumeTurn(s) = [v |-> IF k - e = BlockBytes THEN accept_header(w) ELSE w, rest |-> SubSeq(b, k + 1, q)]
  <2>1. ConsumeTurn(s) = [v |-> IF Len(w.header) = BlockBytes THEN accept_header(w) ELSE w,
                          rest |-> Skip(s.rest, take)]
    <3>1. s.v.err = "ok" /\ s.v.stage[1] = "Header" /\ s.rest # <<>>
      BY <1>1, <1>k
    <3>q. QED  BY <1>3, <1>w, <3>1, HeaderTurn, Zenon
  <2>q. QED  BY <1>6, <1>7, <2>1, Zenon
<1>10. CASE k < e + B
  <2>1. k - e # BlockBytes
    BY <1>0, <1>6, <1>10
  <2>2. ConsumeTurn(s).v = w /\ ConsumeTurn(s).rest = SubSeq(b, k + 1, q)
    BY <1>9, <2>1
  <2>3. k >= EntryEnd(m) /\ k < EntryEnd(m) + BlockBytes
    BY <1>0, <1>6, <1>n, <1>10
  <2>4. AtNext(w, b, m, k)
    BY <1>0, <1>1, <1>7, <1>8, <2>3 DEF AtNext
  <2>q. QED  BY <1>1, <1>6, <1>8, <2>2, <2>4 DEF Turned, Placed
<1>11. CASE k = e + B
  <2>1. PICK a : a = accept_header(w)
    OBVIOUS
  <2>2. k - e = BlockBytes
    BY <1>0, <1>6, <1>11
  <2>3. ConsumeTurn(s).v = a /\ ConsumeTurn(s).rest = SubSeq(b, k + 1, q)
    BY <1>9, <2>1, <2>2
  <2>4. PICK h : h = w.header
    OBVIOUS
  <2>5. Zeros(h) <=> ZeroFrom(b, e, k)
    <3>1. e <= k /\ k <= Len(b) /\ k \in Nat
      BY <1>0, <1>n, <1>k
    <3>q. QED  BY <1>7, <2>4, <3>1, ZeroStretch
  <2>6. CASE Zeros(h)
    <3>1. a = [w EXCEPT !.stage = <<"End", BlockBytes>>, !.header = <<>>]
      BY <1>8, <2>1, <2>4, <2>6, Accepts
    <3>2. ZeroFrom(b, d, k)
      <4>1. e <= k /\ k \in Nat
        BY <1>0, <1>n, <1>k
      <4>q. QED  BY <1>0, <1>1, <2>5, <2>6, <4>1, ZeroSplit
    <3>3. /\ DOMAIN a = VFields /\ a.files = <<m>> /\ a.err = "ok" /\ a.stage = <<"End", BlockBytes>>
          /\ a.seen = {1} /\ a.total = s.v.total
      BY <1>8, <3>1 DEF VFields
    <3>4. k >= EntryEnd(m) + BlockBytes /\ k = EntryEnd(m) + BlockBytes /\ k - EntryEnd(m) = BlockBytes
      BY <1>0, <1>11
    <3>5. AtTail(a, b, m, k)
      BY <1>0, <1>1, <3>2, <3>3, <3>4 DEF AtTail
    <3>q. QED  BY <1>1, <1>6, <2>3, <3>3, <3>5 DEF Turned, Placed
  <2>7. CASE ~Zeros(h)
    <3>1. PICK f : f # "ok" /\ a = [w EXCEPT !.err = f]
      <4>1. 1 \in w.seen
        BY <1>8
      <4>q. QED  BY <1>8, <2>1, <2>4, <2>7, <4>1, Accepts
    <3>2. DOMAIN a = VFields /\ a.files = <<m>> /\ a.err # "ok" /\ a.total = s.v.total
      BY <1>8, <3>1 DEF VFields
    <3>3. ASSUME OneFile(b, m) PROVE FALSE
      <4>1. ZeroFrom(b, d, Len(b))
        BY <1>0, <3>3 DEF OneFile
      <4>2. \A i \in (e + 1)..k : i \in (d + 1)..Len(b)
        BY <1>0, <1>6
      <4>q. QED  BY <2>5, <2>7, <4>1, <4>2 DEF ZeroFrom
    <3>q. QED  BY <1>1, <2>3, <3>2, <3>3 DEF Turned
  <2>q. QED  BY <2>6, <2>7
<1>12. k < e + B \/ k = e + B
  BY <1>k, <1>l
<1>q. QED  BY <1>10, <1>11, <1>12

(* Every turn: the validator fails only on what is no archive of the file, *)
(* and is at its place else.                                               *)
LEMMA TurnPlaced ==
  ASSUME NEW S, NEW b \in Seq(S), NEW m, m.size \in Nat, NEW n \in Nat, NEW q \in Nat, n < q, q <= Len(b),
         NEW s, s.rest = SubSeq(b, n + 1, q), Placed(s.v, b, m, n)
  PROVE  Turned(ConsumeTurn(s), s.v, b, m, n, q)
<1>1. CASE AtHeader(s.v, b, m, n)  BY <1>1, HeaderPlaced
<1>2. CASE AtVoid(s.v, b, m, n) \/ AtTail(s.v, b, m, n)  BY <1>2, EndPlaced
<1>3. CASE AtBody(s.v, b, m, n)  BY <1>3, BodyPlaced
<1>4. CASE AtPadding(s.v, b, m, n)  BY <1>4, PaddingPlaced
<1>5. CASE AtNext(s.v, b, m, n)  BY <1>5, NextPlaced
<1>q. QED  BY <1>1, <1>2, <1>3, <1>4, <1>5 DEF Placed

(* The values f of a loop of n turns.                                      *)
Unrolls(f, start, n) == f = [i \in 0..n |-> IF i = 0 THEN start ELSE ConsumeTurn(f[i - 1])]

(* A loop has such values: the least n without would have them.            *)
LEMMA Unrolled == ASSUME NEW start, NEW n \in Nat PROVE \E f : Unrolls(f, start, n)
<1> DEFINE T == {k \in Nat : ~\E f : Unrolls(f, start, k)}
<1>1. SUFFICES ASSUME T # {} PROVE FALSE
  OBVIOUS
<1>2. PICK k \in T : \A y \in T : k <= y
  <2>1. T \subseteq Nat
    OBVIOUS
  <2>h. HIDE DEF T
  <2>q. QED  BY <1>1, <2>1, Least
<1>3. CASE k = 0
  <2>1. Unrolls([i \in 0..0 |-> start], start, 0)
    BY DEF Unrolls
  <2>q. QED  BY <1>3, <2>1
<1>4. CASE k > 0
  <2>1. PICK l \in Nat : k = l + 1
    BY <1>4
  <2>2. PICK f : Unrolls(f, start, l)
    BY <1>2, <2>1
  <2>3. PICK g : g = [i \in 0..k |-> IF i = k THEN ConsumeTurn(f[l]) ELSE f[i]]
    OBVIOUS
  <2>4. ASSUME NEW i \in 0..k PROVE g[i] = IF i = 0 THEN start ELSE ConsumeTurn(g[i - 1])
    <3>1. CASE i = 0
      <4>1. g[0] = f[0] /\ f[0] = start
        BY <2>1, <2>2, <2>3 DEF Unrolls
      <4>q. QED  BY <3>1, <4>1
    <3>2. CASE i = k
      <4>1. i - 1 = l /\ l \in 0..k /\ l # k /\ i # 0
        BY <2>1, <3>2
      <4>2. g[i] = ConsumeTurn(f[l]) /\ g[l] = f[l]
        BY <2>3, <3>2, <4>1
      <4>q. QED  BY <4>1, <4>2
    <3>3. CASE i # 0 /\ i # k
      <4>1. i \in 0..l /\ i - 1 \in 0..k /\ i - 1 # k
        BY <2>1, <3>3
      <4>2. g[i] = f[i] /\ g[i - 1] = f[i - 1]
        BY <2>3, <3>3, <4>1
      <4>3. f[i] = ConsumeTurn(f[i - 1])
        BY <2>2, <3>3, <4>1 DEF Unrolls
      <4>q. QED  BY <3>3, <4>2, <4>3
    <3>q. QED  BY <3>1, <3>2, <3>3
  <2>5. Unrolls(g, start, k)
    BY <2>3, <2>4 DEF Unrolls
  <2>q. QED  BY <2>5
<1>q. QED  BY <1>3, <1>4

(* Loop is the last of them.                                               *)
LEMMA LoopUnrolls ==
  ASSUME NEW start, NEW n \in Nat
  PROVE  \E f : Unrolls(f, start, n) /\ Loop(ConsumeTurn, start, n) = f[n]
<1> DEFINE after == CHOOSE f : Unrolls(f, start, n)
<1>1. Loop(ConsumeTurn, start, n) = after[n]
  BY DEF Loop, Unrolls
<1>2. Unrolls(after, start, n)
  BY Unrolled
<1>q. QED  BY <1>1, <1>2

(* After i turns the validator has failed or taken i bytes at least.       *)
Advanced(u, v, b, m, n, q, i) ==
    /\ DOMAIN u.v = VFields /\ u.v.total = v.total /\ u.v.files = v.files
    /\ \/ u.v.err # "ok" /\ ~OneFile(b, m)
       \/ \E k \in n..q : /\ k >= n + i /\ u.rest = SubSeq(b, k + 1, q)
                          /\ Placed(u.v, b, m, k)

(* One turn more.                                                          *)
LEMMA TurnAdvances ==
  ASSUME NEW S, NEW b \in Seq(S), NEW m, m.size \in Nat, NEW n \in Nat, NEW q \in Nat, q <= Len(b),
         NEW v, NEW u, NEW i \in Nat, NEW j \in Nat, j = i + 1, n + j <= q, Advanced(u, v, b, m, n, q, i)
  PROVE  Advanced(ConsumeTurn(u), v, b, m, n, q, j)
<1>1. CASE u.v.err # "ok" /\ ~OneFile(b, m)
  <2>1. ConsumeTurn(u) = u
    BY <1>1, IdleTurn, Zenon
  <2>q. QED  BY <1>1, <2>1 DEF Advanced
<1>2. ASSUME NEW k \in n..q, k >= n + i, u.rest = SubSeq(b, k + 1, q), Placed(u.v, b, m, k)
      PROVE  Advanced(ConsumeTurn(u), v, b, m, n, q, j)
  <2>1. CASE k = q
    <3>1. u.rest = <<>>
      BY <1>2, <2>1
    <3>2. ConsumeTurn(u) = u
      BY <3>1, IdleTurn, Zenon
    <3>3. q \in n..q /\ q >= n + j
      OBVIOUS
    <3>q. QED  BY <1>2, <2>1, <3>2, <3>3 DEF Advanced
  <2>2. CASE k < q
    <3>1. k \in Nat
      OBVIOUS
    <3>2. Turned(ConsumeTurn(u), u.v, b, m, k, q)
      BY <1>2, <2>2, <3>1, TurnPlaced, Zenon
    <3>3. u.v.total = v.total /\ u.v.files = v.files
      BY DEF Advanced
    <3>4. PICK t : t = ConsumeTurn(u)
      OBVIOUS
    <3>5. \A l \in (k + 1)..q : l \in n..q /\ l >= n + j
      BY <1>2
    <3>q. QED  BY <3>2, <3>3, <3>4, <3>5 DEF Turned, Advanced
  <2>q. QED  BY <2>1, <2>2
<1>q. QED  BY <1>1, <1>2 DEF Advanced

(* What Consume leaves after the bytes up to q.                            *)
ConsumedTo(w, v, b, m, q) ==
    /\ DOMAIN w = VFields /\ w.total = v.total /\ w.files = v.files
    /\ \/ w.err # "ok" /\ ~OneFile(b, m)
       \/ Placed(w, b, m, q)

(* Consume takes its whole input: every turn takes a byte at least, so     *)
(* Len(input) of them do.                                                  *)
LEMMA Consumed ==
  ASSUME NEW S, NEW b \in Seq(S), NEW m, m.size \in Nat, NEW n \in Nat, NEW q \in Nat, n <= q, q <= Len(b),
         NEW v, Placed(v, b, m, n), NEW r, r = SubSeq(b, n + 1, q), NEW w, w = Consume(v, r)
  PROVE  ConsumedTo(w, v, b, m, q)
<1>1. PICK c \in Nat : c = q - n
  OBVIOUS
<1>2. Len(r) = c
  BY <1>1, Stretch
<1>3. PICK start : start = [v |-> v, rest |-> r]
  OBVIOUS
<1>4. PICK f : Unrolls(f, start, c) /\ Loop(ConsumeTurn, start, c) = f[c]
  BY LoopUnrolls
<1>5. w = f[c].v
  <2>1. Consume(v, r) = Loop(ConsumeTurn, start, c).v
    BY <1>2, <1>3, Zenon DEF Consume
  <2>q. QED  BY <1>4, <2>1
<1>6. Advanced(start, v, b, m, n, q, 0)
  <2>1. start.v = v /\ start.rest = r /\ n \in n..q /\ n >= n + 0
    BY <1>3
  <2>q. QED  BY <2>1 DEF Advanced, Placed
<1> DEFINE T == {i \in 0..c : ~Advanced(f[i], v, b, m, n, q, i)}
<1>7. T = {}
  <2>1. SUFFICES ASSUME T # {} PROVE FALSE
    OBVIOUS
  <2>2. PICK j \in T : \A y \in T : j <= y
    <3>1. T \subseteq Nat
      OBVIOUS
    <3>h. HIDE DEF T
    <3>q. QED  BY <2>1, <3>1, Least
  <2>3. f[0] = start
    BY <1>4 DEF Unrolls
  <2>4. j # 0
    BY <1>6, <2>3
  <2>5. PICK i \in Nat : j = i + 1 /\ i \in 0..c /\ j - 1 = i
    BY <2>4
  <2>6. f[j] = ConsumeTurn(f[i])
    BY <1>4, <2>4, <2>5 DEF Unrolls
  <2>7. Advanced(f[i], v, b, m, n, q, i)
    BY <2>2, <2>5
  <2>8. n + j <= q /\ j \in Nat
    BY <1>1
  <2>9. Advanced(ConsumeTurn(f[i]), v, b, m, n, q, j)
    BY <2>5, <2>7, <2>8, TurnAdvances, Zenon
  <2>q. QED  BY <2>6, <2>9
<1>8. Advanced(f[c], v, b, m, n, q, c)
  BY <1>7
<1>9. \A k \in n..q : k >= n + c => k = q
  BY <1>1
<1>q. QED  BY <1>5, <1>8, <1>9 DEF Advanced, ConsumedTo

(* A validator that was fed the first n bytes of b and found no fault.     *)
Fed(v, b, m, n) == Placed(v, b, m, n) /\ v.total = n /\ n <= MaxArchiveBytes

(* A new validator was fed nothing.                                        *)
LEMMA NewIsFed ==
  ASSUME NEW S, NEW b \in Seq(S), NEW m
  PROVE  Fed(NewArchive(<<m>>), b, m, 0)
<1>1. PICK v : v = NewArchive(<<m>>)
  OBVIOUS
<1>2. /\ DOMAIN v = VFields /\ v.files = <<m>> /\ v.err = "ok" /\ v.stage = <<"Header">>
      /\ v.header = <<>> /\ v.seen = {} /\ v.total = 0
  BY <1>1 DEF NewArchive, VFields
<1>3. SubSeq(b, 1, 0) = <<>>
  OBVIOUS
<1>4. 0 < BlockBytes /\ 0 <= MaxArchiveBytes
  BY ArchiveAssumption
<1>5. AtHeader(v, b, m, 0)
  BY <1>2, <1>3, <1>4 DEF AtHeader
<1>q. QED  BY <1>1, <1>2, <1>4, <1>5 DEF Fed, Placed

(* What a feed that brings the input to byte q leaves.                     *)
FedTo(w, b, m, q) ==
    \/ w.err # "ok" /\ ~OneFile(b, m)
    \/ w.err = "ok" /\ Fed(w, b, m, q)

(* Chunk by chunk: the validator fails only on what is not an archive.     *)
LEMMA FeedPlaced ==
  ASSUME NEW S, NEW b \in Seq(S), NEW m, m.size \in Nat, NEW n \in Nat, NEW q \in Nat, n <= q, q <= Len(b),
         q - n <= MaxChunkBytes, NEW v, Fed(v, b, m, n), NEW r, r = SubSeq(b, n + 1, q)
  PROVE  FedTo(FeedArchive(v, r), b, m, q)
<1>0. /\ MaxArchiveBytes \in Nat /\ MaxChunkBytes \in Nat /\ Len(b) \in Nat
      /\ DOMAIN v = VFields /\ v.err = "ok" /\ v.total = n /\ Placed(v, b, m, n)
  BY ArchiveAssumption DEF Fed, Placed
<1>1. Len(r) = q - n
  BY Stretch
<1>2. PICK w : w = [v EXCEPT !.total = @ + Len(r)]
  OBVIOUS
<1>3. /\ DOMAIN w = VFields /\ w.files = v.files /\ w.err = v.err /\ w.stage = v.stage
      /\ w.header = v.header /\ w.seen = v.seen /\ w.total = q
  <2>1. v.total + Len(r) = q
    BY <1>0, <1>1
  <2>q. QED  BY <1>0, <1>2, <2>1 DEF VFields
<1>4. Placed(w, b, m, n)
  BY <1>0, <1>3 DEF Placed, AtHeader, AtVoid, AtBody, AtPadding, AtNext, AtTail
<1>5. ~(Len(r) > MaxChunkBytes)
  BY <1>0, <1>1
<1>6. FeedArchive(v, r) = IF w.total > MaxArchiveBytes
                          THEN [v EXCEPT !.err = "LimitExceeded", !.header = <<>>]
                          ELSE [Consume(w, r) EXCEPT !.header = IF Consume(w, r).err = "ok" THEN @ ELSE <<>>]
  BY <1>0, <1>2, <1>5, Zenon DEF FeedArchive
<1>7. CASE q > MaxArchiveBytes
  <2>1. FeedArchive(v, r) = [v EXCEPT !.err = "LimitExceeded", !.header = <<>>]
    BY <1>3, <1>6, <1>7
  <2>2. FeedArchive(v, r).err # "ok"
    BY <1>0, <2>1 DEF VFields
  <2>3. ~(Len(b) <= MaxArchiveBytes)
    BY <1>0, <1>7
  <2>q. QED  BY <2>2, <2>3 DEF OneFile, FedTo
<1>8. CASE ~(q > MaxArchiveBytes)
  <2>1. PICK c : c = Consume(w, r)
    OBVIOUS
  <2>2. /\ DOMAIN c = VFields /\ c.total = w.total /\ c.files = w.files
        /\ \/ c.err # "ok" /\ ~OneFile(b, m)
           \/ Placed(c, b, m, q)
    <3>1. ConsumedTo(c, w, b, m, q)
      BY <1>4, <2>1, Consumed, Zenon
    <3>q. QED  BY <3>1 DEF ConsumedTo
  <2>3. PICK x : x = [c EXCEPT !.header = IF c.err = "ok" THEN @ ELSE <<>>]
    OBVIOUS
  <2>4. FeedArchive(v, r) = x
    BY <1>3, <1>6, <1>8, <2>1, <2>3, Zenon
  <2>5. /\ DOMAIN x = VFields /\ x.files = c.files /\ x.err = c.err /\ x.stage = c.stage /\ x.seen = c.seen
        /\ x.total = c.total /\ (c.err = "ok" => x.header = c.header)
    BY <2>2, <2>3 DEF VFields
  <2>6. CASE c.err # "ok" /\ ~OneFile(b, m)
    BY <2>4, <2>5, <2>6 DEF FedTo
  <2>7. CASE Placed(c, b, m, q)
    <3>1. c.err = "ok"
      BY <2>7 DEF Placed
    <3>2. Placed(x, b, m, q)
      BY <2>5, <2>7, <3>1 DEF Placed, AtHeader, AtVoid, AtBody, AtPadding, AtNext, AtTail
    <3>3. x.total = q /\ q <= MaxArchiveBytes
      BY <1>0, <1>3, <1>8, <2>2, <2>5
    <3>q. QED  BY <2>4, <2>5, <3>1, <3>2, <3>3 DEF Fed, FedTo
  <2>q. QED  BY <2>2, <2>6, <2>7
<1>q. QED  BY <1>7, <1>8

(* A first check that holds leaves the other two to decide.                *)
LastTwoDecide(e, b, f, c, g) == FirstFault(<<<<TRUE, e>>, <<b, f>>, <<c, g>>>>) = "ok" <=> b /\ c

(* FirstFault when the first of three checks holds.                        *)
LEMMA NoFault3 ==
  ASSUME NEW b \in BOOLEAN, NEW c \in BOOLEAN, NEW e, NEW f, NEW g, f # "ok", g # "ok"
  PROVE  LastTwoDecide(e, b, f, c, g)
<1> DEFINE x == <<<<TRUE, e>>, <<b, f>>, <<c, g>>>>
           I == {i \in 1..Len(x) : ~x[i][1]}
<1>2. Len(x) = 3 /\ x[1][1] = TRUE /\ x[2][1] = b /\ x[3][1] = c /\ x[2][2] = f /\ x[3][2] = g
  OBVIOUS
<1>3. FirstFault(x) = IF (IF I # {} THEN Min(I) ELSE 0) = 0 THEN "ok"
                      ELSE x[IF I # {} THEN Min(I) ELSE 0][2]
  BY DEF FirstFault, SelectInSeq
<1>h. HIDE DEF x
<1>4. I \subseteq {2, 3} /\ (2 \in I <=> ~b) /\ (3 \in I <=> ~c)
  <2>1. \A i \in 1..Len(x) : i = 1 \/ i = 2 \/ i = 3
    BY <1>2
  <2>2. 1 \notin I
    BY <1>2
  <2>3. 2 \in 1..Len(x) /\ 3 \in 1..Len(x)
    BY <1>2
  <2>4. (2 \in I <=> ~b) /\ (3 \in I <=> ~c)
    BY <1>2, <2>3
  <2>q. QED  BY <2>1, <2>2, <2>4
<1>h2. HIDE DEF I
<1>5. I = {} <=> b /\ c
  BY <1>4
<1>6. CASE I # {}
  <2>1. \E i \in I : \A j \in I : i <= j
    <3>1. I \subseteq Nat
      BY <1>4
    <3>q. QED  BY <1>6, <3>1, Least
  <2>2. Min(I) \in I
    BY <2>1 DEF Min
  <2>3. x[Min(I)][2] # "ok" /\ Min(I) # 0
    <3>1. Min(I) = 2 \/ Min(I) = 3
      BY <1>4, <2>2
    <3>q. QED  BY <1>2, <3>1
  <2>q. QED  BY <1>3, <1>5, <1>6, <2>3 DEF x, LastTwoDecide
<1>7. CASE I = {}
  BY <1>3, <1>5, <1>7 DEF x, LastTwoDecide
<1>q. QED  BY <1>6, <1>7

(* finish: success on a whole archive and on nothing else.                 *)
LEMMA FinishPlaced ==
  ASSUME NEW S, NEW b \in Seq(S), NEW m, m.size \in Nat, NEW v, Fed(v, b, m, Len(b))
  PROVE  /\ FinishArchive(v).err = "ok" <=> OneFile(b, m)
         /\ FinishArchive(v).files = 1 /\ FinishArchive(v).payload = m.size
         /\ FinishArchive(v).archive = Len(b)
<1>0. PICK B \in Nat, d \in Nat, e \in Nat, n \in Nat :
        /\ B = BlockBytes /\ B > 0 /\ n = Len(b) /\ MaxTailBytes \in Nat
        /\ d = BodyEnd(m) /\ e = EntryEnd(m) /\ B <= d /\ d <= e
  BY Ends, ArchiveAssumption
<1>1. v.files = <<m>> /\ v.err = "ok" /\ v.total = Len(b) /\ Len(b) <= MaxArchiveBytes
  BY DEF Fed, Placed
<1>2. FinishArchive(v).files = 1 /\ FinishArchive(v).payload = m.size /\ FinishArchive(v).archive = Len(b)
  <2>1. PICK s : s = [i \in DOMAIN v.files |-> v.files[i].size]
    OBVIOUS
  <2>2. DOMAIN s = {1} /\ s[1] = m.size
    BY <1>1, <2>1
  <2>3. Total(s) = m.size
    BY <2>2, TotalOne
  <2>q. QED  BY <1>1, <2>1, <2>3 DEF FinishArchive
<1> DEFINE Closed == v.stage[1] = "End" /\ v.stage[2] >= 2 * BlockBytes /\ v.stage[2] % BlockBytes = 0
           Found == v.seen = DOMAIN v.files
<1>3. FinishArchive(v).err = "ok" <=> Closed /\ Found
  <2>1. PICK x \in BOOLEAN, y \in BOOLEAN, z \in BOOLEAN : x = (v.err = "ok") /\ y = Closed /\ z = Found
    OBVIOUS
  <2>2. PICK f, g : f = "IncompleteArchive" /\ g = "ManifestMismatch"
    OBVIOUS
  <2>3. FinishArchive(v).err = FirstFault(<<<<x, v.err>>, <<y, f>>, <<z, g>>>>)
    <3>1. FinishArchive(v).err = FirstFault(<<<<v.err = "ok", v.err>>, <<Closed, "IncompleteArchive">>,
                                              <<Found, "ManifestMismatch">>>>)
      BY DEF FinishArchive
    <3>h. HIDE DEF Closed, Found
    <3>q. QED  BY <2>1, <2>2, <3>1, Zenon
  <2>4. x
    BY <1>1, <2>1
  <2>h. HIDE DEF Closed, Found
  <2>5. FirstFault(<<<<x, v.err>>, <<y, f>>, <<z, g>>>>) = "ok" <=> y /\ z
    <3>1. f # "ok" /\ g # "ok"
      BY <2>2
    <3>2. LastTwoDecide(v.err, y, f, z, g)
      BY <3>1, NoFault3, Zenon
    <3>3. x = TRUE
      BY <2>4
    <3>q. QED  BY <3>2, <3>3 DEF LastTwoDecide
  <2>q. QED  BY <2>1, <2>3, <2>5
<1>4. Found <=> v.seen = {1}
  BY <1>1
<1>5. OneFile(b, m) => n - e >= 2 * B /\ n >= e + B
  BY <1>0 DEF OneFile
<1>6. CASE AtHeader(v, b, m, n) \/ AtBody(v, b, m, n) \/ AtPadding(v, b, m, n) \/ AtNext(v, b, m, n)
  <2>1. v.stage[1] # "End"
    BY <1>6 DEF AtHeader, AtBody, AtPadding, AtNext
  <2>2. n < e + B
    <3>1. n < B \/ n < d \/ n < e \/ n < e + B
      BY <1>0, <1>6 DEF AtHeader, AtBody, AtPadding, AtNext
    <3>q. QED  BY <1>0, <3>1
  <2>3. ~(n >= e + B)
    BY <1>0, <2>2
  <2>q. QED  BY <1>2, <1>3, <1>5, <2>1, <2>3
<1>7. CASE AtVoid(v, b, m, n)
  <2>1. v.seen = {} /\ ZeroFrom(b, 0, n)
    BY <1>7 DEF AtVoid
  <2>2. n >= B
    BY <1>0, <1>7 DEF AtVoid
  <2>3. ZeroFrom(b, 0, BlockBytes) /\ BlockBytes <= Len(b)
    <3>1. BlockBytes <= Len(b) /\ \A i \in (0 + 1)..BlockBytes : i \in (0 + 1)..n
      BY <1>0, <2>2
    <3>q. QED  BY <2>1, <3>1 DEF ZeroFrom
  <2>4. ~OneFile(b, m)
    BY <2>3, VoidFails DEF OneFile
  <2>5. ~Found
    BY <1>4, <2>1
  <2>h. HIDE DEF Closed, Found
  <2>q. QED  BY <1>2, <1>3, <2>4, <2>5
<1>8. CASE AtTail(v, b, m, n)
  <2>1. Opens(b, m) /\ ZeroFrom(b, d, n) /\ v.seen = {1} /\ v.stage = <<"End", n - e>>
    BY <1>0, <1>8 DEF AtTail
  <2>2. n >= e + B /\ (n = e + B \/ n - e <= MaxTailBytes)
    BY <1>0, <1>8 DEF AtTail
  <2>3. Closed <=> n - e >= 2 * B /\ (n - e) % B = 0
    BY <1>0, <2>1
  <2>4. n - e >= 2 * B => n - e <= MaxTailBytes
    BY <1>0, <2>2
  <2>5. OneFile(b, m) <=> n - e \in (2 * B)..MaxTailBytes /\ (n - e) % B = 0
    BY <1>0, <1>1, <2>1 DEF OneFile
  <2>6. n - e \in (2 * B)..MaxTailBytes <=> n - e >= 2 * B
    BY <1>0, <2>4
  <2>7. Found
    BY <1>4, <2>1
  <2>h. HIDE DEF Closed, Found
  <2>q. QED  BY <1>2, <1>3, <2>3, <2>5, <2>6, <2>7
<1>q. QED  BY <1>0, <1>6, <1>7, <1>8 DEF Fed, Placed

(* A header that parses names a valid path and an allowed size.            *)
LEMMA ParseOk ==
  ASSUME NEW block, parse(block) = "ok"
  PROVE  validate_path(block[1][2].path) /\ block[1][2].size <= MaxFileBytes
<1> DEFINE h == block[1][2]
           x == <<<<h.sum, "InvalidHeader">>,
               <<h.magic \in {"posix", "gnu"}, "InvalidHeader">>,
               <<h.kind = "file", "UnsupportedEntry">>,
               <<h.owner, "InvalidHeader">>,
               <<h.size <= MaxFileBytes, "LimitExceeded">>,
               <<h.rest, "InvalidHeader">>,
               <<validate_path(h.path), "InvalidPath">>>>
<1>1. FirstFault(x) = "ok"
  BY DEF parse
<1>2. /\ Len(x) = 7 /\ x[5][1] = (h.size <= MaxFileBytes) /\ x[7][1] = validate_path(h.path)
      /\ x[1][2] # "ok" /\ x[2][2] # "ok" /\ x[3][2] # "ok" /\ x[4][2] # "ok" /\ x[5][2] # "ok"
      /\ x[6][2] # "ok" /\ x[7][2] # "ok"
  <2>h. HIDE DEF h
  <2>q. QED  OBVIOUS
<1>h. HIDE DEF x
<1>3. \A i \in 1..Len(x) : i = 1 \/ i = 2 \/ i = 3 \/ i = 4 \/ i = 5 \/ i = 6 \/ i = 7
  BY <1>2
<1>4. Len(x) \in Nat /\ 5 \in 1..Len(x) /\ 7 \in 1..Len(x)
  BY <1>2
<1>5. \A i \in 1..Len(x) : x[i][2] # "ok"
  BY <1>2, <1>3
<1>6. \A i \in 1..Len(x) : x[i][1]
  BY <1>1, <1>4, <1>5, NoFault
<1>7. x[5][1] /\ x[7][1]
  BY <1>4, <1>6
<1>q. QED  BY <1>2, <1>7

(* The manifest of an archive that is well formed is one.                  *)
LEMMA ManifestIsOne ==
  ASSUME NEW S, NEW b \in Seq(S), NEW m, m.size \in Nat, OneFile(b, m)
  PROVE  ExpectedFile(m) = "ok" /\ ExpectedArchive(<<m>>) = "ok" /\ m.size <= MaxPayloadBytes
<1>0. /\ MaxFileBytes \in Nat /\ MaxPayloadBytes \in Nat /\ MaxFileBytes <= MaxPayloadBytes
      /\ MaxFiles \in Nat /\ MaxFiles > 0
  BY ArchiveAssumption
<1>1. validate_path(m.path) /\ m.size <= MaxFileBytes
  <2>0. BlockBytes \in Nat /\ BlockBytes > 0 /\ BlockBytes <= Len(b)
    <3>1. PICK e \in Nat : e = EntryEnd(m) /\ BlockBytes <= e /\ BlockBytes \in Nat /\ BlockBytes > 0
      BY Ends
    <3>2. Len(b) - e >= 2 * BlockBytes
      BY <3>1 DEF OneFile
    <3>3. Len(b) >= e
      BY <3>1, <3>2
    <3>q. QED  BY <3>1, <3>3
  <2>1. PICK h : h = SubSeq(b, 1, BlockBytes)
    OBVIOUS
  <2>2. h[1] = b[1]
    BY <2>0, <2>1
  <2>3. parse(h) = "ok" /\ b[1][2].path = m.path /\ b[1][2].size = m.size
    BY <2>1 DEF OneFile, Opens
  <2>q. QED  BY <2>2, <2>3, ParseOk
<1>2. ExpectedFile(m) = "ok"
  <2> DEFINE x == <<<<validate_path(m.path), "InvalidPath">>, <<m.size <= MaxFileBytes, "LimitExceeded">>>>
  <2>1. /\ Len(x) = 2 /\ x[1][1] = validate_path(m.path) /\ x[2][1] = (m.size <= MaxFileBytes)
        /\ x[1][2] # "ok" /\ x[2][2] # "ok"
    OBVIOUS
  <2>h. HIDE DEF x
  <2>2. Len(x) \in Nat /\ \A i \in 1..Len(x) : i = 1 \/ i = 2
    BY <2>1
  <2>3. \A i \in 1..Len(x) : x[i][2] # "ok"
    BY <2>1, <2>2
  <2>4. x[1][1] /\ x[2][1]
    BY <1>1, <2>1
  <2>5. \A i \in 1..Len(x) : x[i][1]
    BY <2>2, <2>4
  <2>6. FirstFault(x) = "ok"
    BY <2>2, <2>3, <2>5, NoFault
  <2>q. QED  BY <2>6 DEF ExpectedFile, x
<1>3. ExpectedArchive(<<m>>) = "ok"
  <2> DEFINE F == <<m>>
             x == <<<<F # <<>>, "InvalidManifest">>,
                    <<Len(F) <= MaxFiles, "LimitExceeded">>,
                    <<Total([i \in DOMAIN F |-> F[i].size]) <= MaxPayloadBytes, "LimitExceeded">>,
                    <<\A i, j \in DOMAIN F : i # j => ~IsPrefix(F[i].path, F[j].path), "InvalidManifest">>>>
  <2>1. Len(F) = 1 /\ F # <<>> /\ DOMAIN F = {1} /\ F[1] = m
    OBVIOUS
  <2>2. \A i, j \in DOMAIN F : i # j => ~IsPrefix(F[i].path, F[j].path)
    BY <2>1
  <2>3. Len(F) <= MaxFiles
    BY <1>0, <2>1
  <2>4. Total([i \in DOMAIN F |-> F[i].size]) <= MaxPayloadBytes
    <3>1. PICK s : s = [i \in DOMAIN F |-> F[i].size]
      OBVIOUS
    <3>2. DOMAIN s = {1} /\ s[1] = m.size
      BY <2>1, <3>1
    <3>3. Total(s) = m.size
      BY <3>2, TotalOne
    <3>4. m.size <= MaxPayloadBytes
      BY <1>0, <1>1
    <3>q. QED  BY <3>1, <3>3, <3>4
  <2>h0. HIDE DEF F
  <2>5. /\ Len(x) = 4 /\ x[1][1] = (F # <<>>) /\ x[2][1] = (Len(F) <= MaxFiles)
        /\ x[3][1] = (Total([i \in DOMAIN F |-> F[i].size]) <= MaxPayloadBytes)
        /\ x[4][1] = (\A i, j \in DOMAIN F : i # j => ~IsPrefix(F[i].path, F[j].path))
        /\ x[1][2] # "ok" /\ x[2][2] # "ok" /\ x[3][2] # "ok" /\ x[4][2] # "ok"
    OBVIOUS
  <2>h. HIDE DEF x
  <2>6. Len(x) \in Nat /\ \A i \in 1..Len(x) : i = 1 \/ i = 2 \/ i = 3 \/ i = 4
    BY <2>5
  <2>7. \A i \in 1..Len(x) : x[i][2] # "ok"
    BY <2>5, <2>6
  <2>8. x[1][1] /\ x[2][1] /\ x[3][1] /\ x[4][1]
    BY <2>1, <2>2, <2>3, <2>4, <2>5
  <2>9. \A i \in 1..Len(x) : x[i][1]
    BY <2>6, <2>8
  <2>10. FirstFault(x) = "ok"
    BY <2>6, <2>7, <2>9, NoFault
  <2>q. QED  BY <2>10 DEF ExpectedArchive, x, F
<1>4. m.size <= MaxPayloadBytes
  BY <1>0, <1>1
<1>q. QED  BY <1>2, <1>3, <1>4

(* A first check that fails decides.                                       *)
LEMMA FirstDecides ==
  ASSUME NEW b \in BOOLEAN, NEW c \in BOOLEAN, NEW e, NEW f, NEW g, e # "ok", f # "ok", g # "ok"
  PROVE  FirstFault(<<<<FALSE, e>>, <<b, f>>, <<c, g>>>>) # "ok"
<1> DEFINE x == <<<<FALSE, e>>, <<b, f>>, <<c, g>>>>
<1>1. Len(x) = 3 /\ x[1][1] = FALSE /\ x[1][2] = e /\ x[2][2] = f /\ x[3][2] = g
  OBVIOUS
<1>h. HIDE DEF x
<1>2. Len(x) \in Nat /\ 1 \in 1..Len(x) /\ \A i \in 1..Len(x) : i = 1 \/ i = 2 \/ i = 3
  BY <1>1
<1>3. \A i \in 1..Len(x) : x[i][2] # "ok"
  BY <1>1, <1>2
<1>4. FirstFault(x) = "ok" <=> \A i \in 1..Len(x) : x[i][1]
  BY <1>2, <1>3, NoFault
<1>q. QED  BY <1>1, <1>2, <1>4 DEF x

(* finish answers a failure that was kept.                                 *)
LEMMA FailureStays == ASSUME NEW v, v.err # "ok" PROVE FinishArchive(v).err # "ok"
<1> DEFINE Closed == v.stage[1] = "End" /\ v.stage[2] >= 2 * BlockBytes /\ v.stage[2] % BlockBytes = 0
           Found == v.seen = DOMAIN v.files
<1>1. PICK x \in BOOLEAN, y \in BOOLEAN, z \in BOOLEAN : x = (v.err = "ok") /\ y = Closed /\ z = Found
  OBVIOUS
<1>2. PICK f, g : f = "IncompleteArchive" /\ g = "ManifestMismatch"
  OBVIOUS
<1>3. FinishArchive(v).err = FirstFault(<<<<v.err = "ok", v.err>>, <<Closed, "IncompleteArchive">>,
                                          <<Found, "ManifestMismatch">>>>)
  BY DEF FinishArchive
<1>h. HIDE DEF Closed, Found
<1>4. FinishArchive(v).err = FirstFault(<<<<x, v.err>>, <<y, f>>, <<z, g>>>>)
  BY <1>1, <1>2, <1>3, Zenon
<1>5. x = FALSE /\ f # "ok" /\ g # "ok"
  BY <1>1, <1>2
<1>6. FirstFault(<<<<FALSE, v.err>>, <<y, f>>, <<z, g>>>>) # "ok"
  BY <1>5, FirstDecides, Zenon
<1>q. QED  BY <1>4, <1>5, <1>6

(* The validators f[0], f[1] .. f[n] of a tar stream b that comes in n     *)
(* chunks, cut at the places of cut.                                       *)
Chunked(b, m, n, cut, f) ==
    /\ cut[0] = 0 /\ cut[n] = Len(b) /\ f[0] = NewArchive(<<m>>)
    /\ \A i \in 1..n :
         /\ cut[i - 1] <= cut[i] /\ cut[i] - cut[i - 1] <= MaxChunkBytes
         /\ f[i] = FeedArchive(f[i - 1], SubSeq(b, cut[i - 1] + 1, cut[i]))

(* The tar validator (new, feed, finish) for one file: whatever the chunks *)
(* a stream comes in, empty ones included, it accepts the stream if and    *)
(* only if it is laid out as a whole archive, and then with its counts.    *)
THEOREM TarValidatorIsExact ==
  ASSUME NEW S, NEW b \in Seq(S), NEW m, m.size \in Nat,
         NEW n \in Nat, NEW cut \in [0..n -> 0..Len(b)], NEW f, Chunked(b, m, n, cut, f)
  PROVE  /\ FinishArchive(f[n]).err = "ok" <=> WellFormedTar(b, <<m>>)
         /\ FinishArchive(f[n]).err = "ok" =>
              /\ FinishArchive(f[n]).files = 1 /\ FinishArchive(f[n]).payload = m.size
              /\ FinishArchive(f[n]).archive = Len(b)
<1>0. Len(b) \in Nat /\ \A i \in 0..n : cut[i] \in Nat /\ cut[i] <= Len(b)
  OBVIOUS
<1> DEFINE T == {i \in 0..n : ~FedTo(f[i], b, m, cut[i])}
<1>1. T = {}
  <2>1. SUFFICES ASSUME T # {} PROVE FALSE
    OBVIOUS
  <2>2. PICK j \in T : \A y \in T : j <= y
    <3>1. T \subseteq Nat
      OBVIOUS
    <3>h. HIDE DEF T
    <3>q. QED  BY <2>1, <3>1, Least
  <2>3. j # 0
    <3>1. Fed(NewArchive(<<m>>), b, m, 0)
      BY NewIsFed, Zenon
    <3>2. NewArchive(<<m>>).err = "ok"
      BY DEF NewArchive
    <3>3. FedTo(f[0], b, m, cut[0])
      BY <3>1, <3>2 DEF Chunked, FedTo
    <3>q. QED  BY <3>3
  <2>4. PICK i \in Nat : i = j - 1 /\ i \in 0..n /\ j \in 1..n
    BY <2>3
  <2>5. FedTo(f[i], b, m, cut[i])
    BY <2>2, <2>4
  <2>6. /\ cut[i] <= cut[j] /\ cut[j] - cut[i] <= MaxChunkBytes
        /\ f[j] = FeedArchive(f[i], SubSeq(b, cut[i] + 1, cut[j]))
    BY <2>4 DEF Chunked
  <2>7. CASE f[i].err # "ok" /\ ~OneFile(b, m)
    <3>1. f[j] = f[i]
      BY <2>6, <2>7 DEF FeedArchive
    <3>2. FedTo(f[j], b, m, cut[j])
      BY <2>7, <3>1 DEF FedTo
    <3>q. QED  BY <3>2
  <2>8. CASE f[i].err = "ok" /\ Fed(f[i], b, m, cut[i])
    <3>1. PICK x \in Nat, y \in Nat : x = cut[i] /\ y = cut[j] /\ x <= y /\ y <= Len(b) /\ y - x <= MaxChunkBytes
      BY <1>0, <2>4, <2>6
    <3>2. Fed(f[i], b, m, x)
      BY <2>8, <3>1
    <3>3. FedTo(FeedArchive(f[i], SubSeq(b, x + 1, y)), b, m, y)
      BY <3>1, <3>2, FeedPlaced, Zenon
    <3>q. QED  BY <2>6, <3>1, <3>3
  <2>q. QED  BY <2>5, <2>7, <2>8 DEF FedTo
<1>2. PICK v : v = f[n]
  OBVIOUS
<1>3. FedTo(v, b, m, Len(b))
  <2>1. n \in 0..n
    OBVIOUS
  <2>2. FedTo(f[n], b, m, cut[n])
    BY <1>1, <2>1
  <2>q. QED  BY <1>2, <2>2 DEF Chunked
<1>4. WellFormedTar(b, <<m>>) <=> OneFile(b, m)
  BY Layout
<1>5. CASE v.err # "ok" /\ ~OneFile(b, m)
  <2>1. FinishArchive(v).err # "ok"
    BY <1>5, FailureStays
  <2>q. QED  BY <1>2, <1>4, <1>5, <2>1
<1>6. CASE v.err = "ok" /\ Fed(v, b, m, Len(b))
  <2>1. /\ FinishArchive(v).err = "ok" <=> OneFile(b, m)
        /\ FinishArchive(v).files = 1 /\ FinishArchive(v).payload = m.size
        /\ FinishArchive(v).archive = Len(b)
    BY <1>6, FinishPlaced
  <2>q. QED  BY <1>2, <1>4, <2>1
<1>q. QED  BY <1>3, <1>5, <1>6 DEF FedTo

-----------------------------------------------------------------------------
(***************************************************************************)
(* The verdict of a thread on a tar capture. The sealer and the inspection *)
(* feed the same bytes to two validators in different chunks; what the     *)
(* first accepted the second accepts, so only the budget, a fault, the     *)
(* limits of the cipher or the record can come between them.               *)
(***************************************************************************)

(* A capture in the terms of the validator: its file, whether it is whole, *)
(* its record, what can be sealed and inspected, and its counts.           *)
File(c) == [path |-> SystemPath, size |-> c.size]
Sound(c) == OneFile(c.bytes, File(c))
WholeOf(c) == [length |-> Len(c.bytes), sound |-> TRUE]
CanSeal(c) == Sound(c) /\ Len(c.bytes) <= InputLimit /\ Len(c.bytes) + CipherOverhead <= OutputLimit
CanInspect(r, c) ==
    r = WholeOf(c) /\ Sound(c) /\ Len(c.bytes) + CipherOverhead <= InputLimit /\ Len(c.bytes) <= OutputLimit
Exact(k, c) ==
    k = [source |-> Len(c.bytes), expanded |-> Len(c.bytes), payload |-> c.size, files |-> 1]

(* What a thread with this plan should answer, and what one that seals     *)
(* should publish.                                                         *)
Wanted(t, c) ==
    IF t.plan = <<"inspect">> THEN CanInspect(t.before, c)
    ELSE CanSeal(c) /\ t.before = None /\ CanInspect(WholeOf(c), c)
Published(t, c) ==
    t.plan # <<"inspect">> => (t.publication = "Durable" <=> CanSeal(c) /\ t.before = None)
(* The verdict of a thread, unless it is excused.                          *)
Verdict(t, r, c, excused) ==
    /\ t.result = "ok" => CanInspect(r, c) /\ Exact(t.counts, c)
    /\ excused \/ (Published(t, c) /\ (t.result = "ok" <=> Wanted(t, c)))

(* What a thread that has come so far may assume of the capture c, the     *)
(* record r and its own budget.                                            *)
Sealing == {"seal", "read", "finish", "publish", "append", "writing", "synced"}
Judged(t, r, spent, c) ==
    /\ t.publication = "Durable" => CanSeal(c)
    /\ t.pc \in Sealing => t.plan # <<"inspect">>
    /\ t.pc \in {"start", "open", "seal"} => t.fed = 0
    /\ t.pc \in {"append", "writing", "synced"} => t.before = None
    /\ t.pc \in Inspecting /\ t.plan # <<"inspect">> =>
         t.before = None /\ t.publication = "Durable" /\ r = WholeOf(c)
    /\ t.pc \in Inspecting /\ t.plan = <<"inspect">> => t.before = r
    /\ t.pc \in {"read", "finish", "feed"} =>
         t.fed \in 0..Len(c.bytes) /\ Fed(t.check, c.bytes, File(c), t.fed)
    /\ t.pc \in {"read", "finish"} => t.fed <= InputLimit
    /\ t.pc = "finish" => t.fed = Len(c.bytes) /\ Len(c.bytes) + CipherOverhead <= OutputLimit
    /\ t.pc \in {"publish", "append", "writing", "synced"} => CanSeal(c) /\ Exact(t.counts, c)
    /\ t.pc \in {"decrypt", "compare", "feed"} => t.staging <= OutputLimit
    /\ t.pc \in {"compare", "feed"} => r.length + CipherOverhead <= InputLimit
    /\ t.pc = "feed" => t.staging = Len(c.bytes)
    /\ t.pc = "end" => Verdict(t, r, c, spent \/ t.fault)
    /\ t.pc = "exited" => Verdict(t, t.after, c, t.fault \/ t.result \in {"Cancelled", "Deadline"})

(* The judgement of every thread. Another thread may have changed the      *)
(* record since; none works at the same time.                              *)
VInv ==
    /\ DOMAIN budget = Owners
    /\ Captured.format = "Tar" => \A o \in Owners : Judged(thread[o], record, Spent(o), Captured)

(* What the operators of the workflow are for a tar capture.               *)
LEMMA TarFacts ==
  ASSUME TypeOK, Captured.format = "Tar", NEW c, c = Captured
  PROVE  /\ c.bytes \in Seq(Range(c.bytes)) /\ c.size \in Nat /\ Len(c.bytes) \in Nat
         /\ File(c).size = c.size /\ Manifest = <<File(c)>>
         /\ source_bytes = Len(c.bytes) /\ Whole = WholeOf(c)
         /\ NewCheck = NewArchive(<<File(c)>>)
         /\ Sound(c) => ManifestFits
         /\ WellFormed(c) <=> Sound(c)
<1>1. c.bytes \in Seq(Range(c.bytes)) /\ c.size \in Nat /\ c.plain = c.bytes
  BY BackupAssumption DEF TypeOK, Captured
<1>2. Len(c.bytes) \in Nat
  BY <1>1
<1>3. File(c).size = c.size /\ Manifest = <<File(c)>>
  BY DEF File, Manifest
<1>4. source_bytes = Len(c.bytes) /\ Whole = WholeOf(c)
  BY DEF source_bytes, Whole, WholeOf
<1>5. NewCheck = NewArchive(<<File(c)>>)
  BY <1>3 DEF NewCheck
<1>6. PICK m : m = File(c) /\ m.size \in Nat
  BY <1>1, <1>3
<1>7. ASSUME Sound(c) PROVE ManifestFits
  <2>1. OneFile(c.bytes, m)
    BY <1>6, <1>7 DEF Sound
  <2>2. ExpectedFile(m) = "ok" /\ ExpectedArchive(<<m>>) = "ok"
    BY <1>1, <1>6, <2>1, ManifestIsOne
  <2>q. QED  BY <1>3, <1>6, <2>2 DEF ManifestFits
<1>8. WellFormed(c) <=> Sound(c)
  <2>1. WellFormedTar(c.bytes, <<m>>) <=> OneFile(c.bytes, m)
    BY <1>1, <1>6, Layout
  <2>2. c.format = "Tar" /\ c.format # "Gzip"
    OBVIOUS
  <2>q. QED  BY <1>1, <1>6, <2>1, <2>2 DEF WellFormed, Sound, File
<1>q. QED  BY <1>1, <1>2, <1>3, <1>4, <1>5, <1>7, <1>8

(* The counts of a whole archive pass the sealer's checks.                 *)
LEMMA ExactCounts ==
  ASSUME NEW c, c.bytes \in Seq(Range(c.bytes)), c.size \in Nat, Sound(c), NEW k, Exact(k, c)
  PROVE  CountsAreValid(k, Len(c.bytes))
<1>00. File(c).size = c.size
  BY DEF File
<1>0. PICK m : m = File(c) /\ m.size = c.size
  BY <1>00
<1>1. OneFile(c.bytes, m)
  BY <1>0 DEF Sound
<1>2. k.source = Len(c.bytes) /\ k.expanded = Len(c.bytes) /\ k.payload = c.size /\ k.files = 1
  BY DEF Exact
<1>3. PICK B \in Nat, d \in Nat, e \in Nat, n \in Nat :
        /\ B = BlockBytes /\ B > 0 /\ n = Len(c.bytes) /\ d = BodyEnd(m) /\ e = EntryEnd(m)
        /\ d <= e /\ d = B + c.size
  <2>1. /\ BlockBytes \in Nat /\ BlockBytes > 0 /\ BodyEnd(m) \in Nat /\ EntryEnd(m) \in Nat
        /\ BodyEnd(m) <= EntryEnd(m)
    BY <1>0, Ends
  <2>2. BodyEnd(m) = BlockBytes + c.size
    BY <1>0 DEF BodyEnd
  <2>q. QED  BY <2>1, <2>2
<1>4. n - e >= 2 * B
  BY <1>1, <1>3 DEF OneFile
<1>5. n <= MaxArchiveBytes
  BY <1>1, <1>3 DEF OneFile
<1>6. n >= 1 /\ c.size <= n
  BY <1>3, <1>4
<1>7. c.size <= MaxPayloadBytes
  <2>1. m.size \in Nat
    BY <1>0
  <2>2. m.size <= MaxPayloadBytes
    BY <1>1, <2>1, ManifestIsOne
  <2>q. QED  BY <1>0, <2>2
<1>8. MaxArchiveBytes \in Nat /\ MaxFiles \in Nat /\ MaxFiles > 0
  BY ArchiveAssumption
<1>9. 1 \in 1..MaxFiles /\ n \in 1..MaxArchiveBytes
  BY <1>5, <1>6, <1>8
<1>q. QED  BY <1>2, <1>3, <1>6, <1>7, <1>9 DEF CountsAreValid

(* finish of the validator that was fed the whole capture.                 *)
LEMMA FinishCounts ==
  ASSUME TypeOK, Captured.format = "Tar", NEW c, c = Captured,
         NEW v, Fed(v, c.bytes, File(c), Len(c.bytes))
  PROVE  IF Sound(c) THEN FinishCheck(v) # None /\ Exact(FinishCheck(v), c) ELSE FinishCheck(v) = None
<1>0. c.bytes \in Seq(Range(c.bytes)) /\ c.size \in Nat /\ File(c).size = c.size /\ Len(c.bytes) \in Nat
  BY TarFacts
<1>1. PICK m : m = File(c) /\ m.size = c.size
  BY <1>0
<1>2. PICK s : s = FinishArchive(v)
  OBVIOUS
<1>3. (s.err = "ok" <=> Sound(c)) /\ s.files = 1 /\ s.payload = c.size /\ s.archive = Len(c.bytes)
  <2>1. Fed(v, c.bytes, m, Len(c.bytes))
    BY <1>1
  <2>2. (s.err = "ok" <=> OneFile(c.bytes, m)) /\ s.files = 1 /\ s.payload = m.size /\ s.archive = Len(c.bytes)
    BY <1>0, <1>1, <1>2, <2>1, FinishPlaced
  <2>q. QED  BY <1>1, <2>2 DEF Sound
<1>4. FinishCheck(v) = IF s.err # "ok" THEN None
                       ELSE [source |-> s.archive, expanded |-> s.archive, payload |-> s.payload, files |-> s.files]
  BY <1>2 DEF FinishCheck
<1>5. CASE Sound(c)
  <2>1. FinishCheck(v) = [source |-> Len(c.bytes), expanded |-> Len(c.bytes), payload |-> c.size, files |-> 1]
    BY <1>3, <1>4, <1>5
  <2>2. FinishCheck(v) \in [source : Nat, expanded : Nat, payload : Nat, files : Nat]
    BY <1>0, <2>1
  <2>3. FinishCheck(v) # None
    BY <2>2, BackupAssumption
  <2>q. QED  BY <1>5, <2>1, <2>3 DEF Exact
<1>6. CASE ~Sound(c)
  BY <1>3, <1>4, <1>6
<1>q. QED  BY <1>5, <1>6

(* One chunk of the capture.                                               *)
LEMMA FeedCounts ==
  ASSUME TypeOK, Captured.format = "Tar", NEW c, c = Captured,
         NEW v, NEW n \in Nat, Fed(v, c.bytes, File(c), n),
         NEW q \in Nat, n <= q, q <= Len(c.bytes), q - n <= MaxChunkBytes,
         NEW r, r = SubSeq(c.bytes, n + 1, q)
  PROVE  FedTo(FeedCheck(v, r), c.bytes, File(c), q)
<1>0. c.bytes \in Seq(Range(c.bytes)) /\ c.size \in Nat /\ File(c).size = c.size
  BY TarFacts
<1>1. PICK m : m = File(c) /\ m.size \in Nat
  BY <1>0
<1>2. FeedCheck(v, r) = FeedArchive(v, r)
  BY DEF FeedCheck
<1>3. Fed(v, c.bytes, m, n)
  BY <1>1
<1>4. FedTo(FeedArchive(v, r), c.bytes, m, q)
  <2>1. c.bytes \in Seq(Range(c.bytes)) /\ m.size \in Nat
    BY <1>0, <1>1
  <2>q. QED  BY <1>3, <2>1, FeedPlaced, Zenon
<1>q. QED  BY <1>1, <1>2, <1>4

(* A thread that does not work is judged by what it kept.                  *)
LEMMA JudgedLater ==
  ASSUME NEW t, NEW r, NEW s, NEW c, Judged(t, r, s, c), t.pc \in {"none", "exited"}, NEW x, NEW z
  PROVE  Judged(t, x, z, c)
BY DEF Judged, Sealing, Inspecting

(* A budget that is spent excuses a thread.                                *)
LEMMA JudgedSpent ==
  ASSUME NEW t, NEW r, NEW s \in BOOLEAN, NEW c, Judged(t, r, s, c)
  PROVE  Judged(t, r, TRUE, c)
<1>1. Verdict(t, r, c, s \/ t.fault) => Verdict(t, r, c, TRUE \/ t.fault)
  BY DEF Verdict
<1>q. QED  BY <1>1 DEF Judged

(* A thread t whose seal failed, with a reason for it.                     *)
SealFailed(u, t, p, f, s, c) ==
    /\ u = [t EXCEPT !.pc = "end", !.result = "Unknown", !.publication = p, !.fault = @ \/ f]
    /\ p = "Durable" => CanSeal(c) /\ t.before = None
    /\ s \/ f \/ ~CanSeal(c) \/ t.before # None

(* A thread t whose inspection was refused, with a reason or by a fault.   *)
Refused(u, t, e, r, s, c) ==
    \/ /\ u = [t EXCEPT !.pc = "end", !.result = e]
       /\ s \/ ~CanInspect(r, c)
    \/ u = [t EXCEPT !.pc = "end", !.result = e, !.fault = TRUE]

(* A thread t that exits, with the result of its work or an excuse.        *)
Exited(u, t, e, r, s) ==
    \/ /\ u = [t EXCEPT !.pc = "exited", !.result = e, !.after = r]
       /\ \/ e \in {"Cancelled", "Deadline"}
          \/ t.pc = "end" /\ ~s /\ e = t.result
    \/ u = [t EXCEPT !.pc = "exited", !.result = e, !.fault = TRUE, !.after = r] /\ e # "ok"

(* A failure of seal_capture: for the budget, for a fault, for a capture   *)
(* that cannot be sealed or for a record that was there.                   *)
LEMMA SealFailJudged ==
  ASSUME NEW t, DOMAIN t = Fields, NEW r, NEW x, NEW s \in BOOLEAN, NEW c, Judged(t, r, s, c), t.pc \in Sealing,
         NEW p, NEW f, NEW u, SealFailed(u, t, p, f, s, c)
  PROVE  Judged(u, x, s, c)
<1>1. /\ u.pc = "end" /\ u.result = "Unknown" /\ u.publication = p /\ u.plan = t.plan /\ u.before = t.before
      /\ u.fault = (t.fault \/ f)
      /\ p = "Durable" => CanSeal(c) /\ t.before = None
      /\ s \/ f \/ ~CanSeal(c) \/ t.before # None
  BY DEF Fields, SealFailed
<1>2. u.plan # <<"inspect">>
  BY <1>1 DEF Judged
<1>3. s \/ u.fault \/ (Published(u, c) /\ ~Wanted(u, c))
  BY <1>1, <1>2 DEF Wanted, Published
<1>4. Verdict(u, x, c, s \/ u.fault)
  BY <1>1, <1>3 DEF Verdict
<1>q. QED  BY <1>1, <1>4 DEF Judged, Sealing, Inspecting

(* An error of restore_inspect: for the budget, for a fault or for a       *)
(* record that cannot be inspected.                                        *)
LEMMA RefuseJudged ==
  ASSUME NEW t, DOMAIN t = Fields, NEW r, NEW s \in BOOLEAN, NEW c, Judged(t, r, s, c), t.pc \in Inspecting,
         NEW e, e # "ok", NEW u, Refused(u, t, e, r, s, c)
  PROVE  Judged(u, r, s, c)
<1>1. /\ u.pc = "end" /\ u.result = e /\ u.publication = t.publication /\ u.plan = t.plan /\ u.before = t.before
      /\ (s \/ ~CanInspect(r, c)) \/ u.fault
  BY DEF Fields, Refused
<1>2. /\ u.plan = <<"inspect">> => u.before = r
      /\ u.plan # <<"inspect">> =>
           u.before = None /\ u.publication = "Durable" /\ r = WholeOf(c) /\ CanSeal(c)
  BY <1>1 DEF Judged
<1>3. s \/ u.fault \/ (Published(u, c) /\ ~Wanted(u, c))
  BY <1>1, <1>2 DEF Wanted, Published
<1>4. Verdict(u, r, c, s \/ u.fault)
  BY <1>1, <1>3 DEF Verdict
<1>5. u.publication = "Durable" => CanSeal(c)
  BY <1>1 DEF Judged
<1>q. QED  BY <1>1, <1>4, <1>5 DEF Judged, Sealing, Inspecting

(* The end of a thread: with an excuse, or with the result of its work.    *)
LEMMA ExitJudged ==
  ASSUME NEW t, DOMAIN t = Fields, NEW r, NEW s \in BOOLEAN, NEW c, Judged(t, r, s, c),
         NEW e, NEW u, Exited(u, t, e, r, s)
  PROVE  Judged(u, r, s, c)
<1>1. /\ u.pc = "exited" /\ u.result = e /\ u.publication = t.publication /\ u.plan = t.plan
      /\ u.before = t.before /\ u.counts = t.counts /\ u.after = r
  BY DEF Fields, Exited
<1>2. Verdict(u, r, c, u.fault \/ u.result \in {"Cancelled", "Deadline"})
  <2>1. CASE e \in {"Cancelled", "Deadline"}
    BY <1>1, <2>1 DEF Verdict
  <2>2. CASE t.pc = "end" /\ ~s /\ e = t.result /\ u = [t EXCEPT !.pc = "exited", !.result = e, !.after = r]
    <3>1. u.fault = t.fault
      BY <2>2 DEF Fields
    <3>2. Verdict(t, r, c, t.fault)
      BY <2>2 DEF Judged, Verdict
    <3>3. Wanted(u, c) = Wanted(t, c) /\ Published(u, c) = Published(t, c)
      BY <1>1 DEF Wanted, Published
    <3>q. QED  BY <1>1, <2>2, <3>1, <3>2, <3>3 DEF Verdict
  <2>3. CASE u = [t EXCEPT !.pc = "exited", !.result = e, !.fault = TRUE, !.after = r] /\ e # "ok"
    <3>1. u.fault
      BY <2>3 DEF Fields
    <3>q. QED  BY <1>1, <2>3, <3>1 DEF Verdict
  <2>q. QED  BY <2>1, <2>2, <2>3 DEF Exited
<1>3. u.publication = "Durable" => CanSeal(c)
  BY <1>1 DEF Judged
<1>q. QED  BY <1>1, <1>2, <1>3 DEF Judged, Sealing, Inspecting

(* A step of a thread after which its judgement holds.                     *)
Settles(o) == \E u : thread' = [thread EXCEPT ![o] = u] /\ Judged(u, record', Spent(o), Captured)

(* What a step of a thread starts from.                                    *)
LEMMA Ready ==
  ASSUME IInv, VInv, Captured.format = "Tar", NEW o \in Owners
  PROVE  /\ TypeOK /\ DOMAIN thread[o] = Fields /\ thread[o].staging \in Int /\ Spent(o) \in BOOLEAN
         /\ Knows(thread[o], record, Whole) /\ Judged(thread[o], record, Spent(o), Captured)
BY DEF IInv, TypeOK, VInv, Spent

(* A seal that fails for a reason.                                         *)
LEMMA SealFailsSettles ==
  ASSUME IInv, VInv, Captured.format = "Tar", NEW o \in Owners, thread[o].pc \in Sealing,
         NEW p, NEW f, SealFails(o, p, f),
         p = "Durable" => CanSeal(Captured) /\ thread[o].before = None,
         Spent(o) \/ f \/ ~CanSeal(Captured) \/ thread[o].before # None
  PROVE  Settles(o)
<1>0. DOMAIN thread[o] = Fields /\ Spent(o) \in BOOLEAN /\ Judged(thread[o], record, Spent(o), Captured)
  BY Ready
<1>1. PICK u : thread' = [thread EXCEPT ![o] = u] /\ SealFailed(u, thread[o], p, f, Spent(o), Captured)
  BY DEF SealFails, Continue, SealFailed
<1>2. Judged(u, record', Spent(o), Captured)
  BY <1>0, <1>1, SealFailJudged, Zenon
<1>q. QED  BY <1>1, <1>2 DEF Settles

(* An inspection that is refused for a reason, or fails by a fault.        *)
LEMMA RefuseSettles ==
  ASSUME IInv, VInv, Captured.format = "Tar", NEW o \in Owners, thread[o].pc \in Inspecting,
         NEW e, e # "ok",
         \/ Refuse(o, e) /\ (Spent(o) \/ ~CanInspect(record, Captured))
         \/ Fault(o, e)
  PROVE  Settles(o)
<1>0. DOMAIN thread[o] = Fields /\ Spent(o) \in BOOLEAN /\ Judged(thread[o], record, Spent(o), Captured)
  BY Ready
<1>1. PICK u : /\ thread' = [thread EXCEPT ![o] = u]
               /\ Refused(u, thread[o], e, record, Spent(o), Captured)
  BY DEF Refuse, Fault, Continue, Refused
<1>2. record' = record
  BY DEF Refuse, Fault, Continue
<1>3. Judged(u, record, Spent(o), Captured)
  BY <1>0, <1>1, RefuseJudged, Zenon
<1>q. QED  BY <1>1, <1>2, <1>3 DEF Settles

(* The start of a thread, its end and its panic.                           *)
LEMMA EndsSettle ==
  ASSUME IInv, VInv, Captured.format = "Tar", NEW o \in Owners, Begin(o) \/ End(o) \/ Panic(o)
  PROVE  Settles(o)
<1>0. /\ DOMAIN thread[o] = Fields /\ Spent(o) \in BOOLEAN /\ Knows(thread[o], record, Whole)
      /\ Judged(thread[o], record, Spent(o), Captured)
  BY Ready
<1>1. record' = record
  BY DEF Begin, End, Panic
<1>2. Cause(o) \in {"Cancelled", "Deadline"}
  BY DEF Cause
<1>3. ASSUME NEW e, e \in {"Cancelled", "Deadline"} \/ (thread[o].pc = "end" /\ ~Spent(o) /\ e = thread[o].result),
             Exit(o, e)
      PROVE  Settles(o)
  <2>1. PICK u : thread' = [thread EXCEPT ![o] = u] /\ Exited(u, thread[o], e, record, Spent(o))
    BY <1>3 DEF Exit, Exited
  <2>2. Judged(u, record, Spent(o), Captured)
    BY <1>0, <2>1, ExitJudged, Zenon
  <2>q. QED  BY <1>1, <2>1, <2>2 DEF Settles
<1>4. CASE Begin(o) /\ Spent(o)
  BY <1>2, <1>3, <1>4 DEF Begin
<1>5. CASE Begin(o) /\ ~Spent(o)
  <2>1. thread[o].pc = "start" /\ thread' = [thread EXCEPT ![o].pc = "open"]
    BY <1>5 DEF Begin, At
  <2>2. thread[o].publication = None /\ thread[o].fed = 0
    BY <1>0, <2>1 DEF Knows, Unpublished, Judged
  <2>3. PICK u : thread' = [thread EXCEPT ![o] = u] /\ u = [thread[o] EXCEPT !.pc = "open"]
    BY <2>1
  <2>4. u.pc = "open" /\ u.publication = None /\ u.fed = 0
    BY <1>0, <2>2, <2>3 DEF Fields
  <2>5. Judged(u, record, Spent(o), Captured)
    BY <2>4, BackupAssumption DEF Judged, Sealing, Inspecting
  <2>q. QED  BY <1>1, <2>3, <2>5 DEF Settles
<1>6. CASE End(o)
  <2>1. thread[o].pc = "end" /\ Exit(o, IF Spent(o) THEN Cause(o) ELSE thread[o].result)
    BY <1>6 DEF End, At
  <2>2. CASE Spent(o)
    BY <1>2, <1>3, <2>1, <2>2
  <2>3. CASE ~Spent(o)
    BY <1>3, <2>1, <2>3
  <2>q. QED  BY <2>2, <2>3
<1>7. CASE Panic(o)
  <2>1. PICK e : e = "Unavailable"
    OBVIOUS
  <2>2. PICK u : thread' = [thread EXCEPT ![o] = u] /\ Exited(u, thread[o], e, record, Spent(o))
    BY <1>7, <2>1 DEF Panic, Exited
  <2>3. Judged(u, record, Spent(o), Captured)
    BY <1>0, <2>2, ExitJudged, Zenon
  <2>q. QED  BY <1>1, <2>2, <2>3 DEF Settles
<1>q. QED  BY <1>4, <1>5, <1>6, <1>7

(* The store is opened, or it is torn: then nothing is wanted of it.       *)
LEMMA OpenSettles ==
  ASSUME IInv, VInv, Captured.format = "Tar", NEW o \in Owners, OpenStore(o)
  PROVE  Settles(o)
<1>0. /\ TypeOK /\ DOMAIN thread[o] = Fields /\ Knows(thread[o], record, Whole)
      /\ Judged(thread[o], record, Spent(o), Captured) /\ Spent(o) \in BOOLEAN
  BY Ready
<1>1. PICK c : c = Captured
  OBVIOUS
<1>2. PICK t : t = thread[o]
  OBVIOUS
<1>3. /\ t.pc = "open" /\ t.plan \in Plans /\ t.publication = None /\ record = t.before
      /\ t.fed = 0
  BY <1>0, <1>2 DEF OpenStore, At, Knows, Unpublished, Judged
<1>4. Torn # WholeOf(c) /\ Torn # None
  <2>1. Whole # Torn
    BY <1>0, Counted
  <2>q. QED  BY <1>0, <1>1, <2>1, TarFacts, BackupAssumption
<1>5. ASSUME NEW e, e # "ok", \/ Refuse(o, e) /\ (Spent(o) \/ record = Torn)
                              \/ Fault(o, e)
      PROVE  Settles(o)
  <2>1. PICK u : /\ thread' = [thread EXCEPT ![o] = u]
                 /\ \/ u = [t EXCEPT !.pc = "end", !.result = e] /\ (Spent(o) \/ record = Torn)
                    \/ u = [t EXCEPT !.pc = "end", !.result = e, !.fault = TRUE]
    BY <1>2, <1>5 DEF Refuse, Fault, Continue
  <2>2. /\ u.pc = "end" /\ u.result = e /\ u.publication = None /\ u.plan = t.plan /\ u.before = record
        /\ Spent(o) \/ u.fault \/ record = Torn
    BY <1>0, <1>2, <1>3, <2>1 DEF Fields
  <2>3. record = Torn => Published(u, c) /\ ~Wanted(u, c)
    BY <1>4, <2>2, BackupAssumption DEF Published, Wanted, CanInspect
  <2>4. Verdict(u, record, c, Spent(o) \/ u.fault)
    BY <1>5, <2>2, <2>3 DEF Verdict
  <2>5. Judged(u, record, Spent(o), c)
    BY <2>2, <2>4, BackupAssumption DEF Judged, Sealing, Inspecting
  <2>6. record' = record
    BY <1>5 DEF Refuse, Fault, Continue
  <2>q. QED  BY <1>1, <2>1, <2>5, <2>6 DEF Settles
<1>6. ASSUME Continue(o, [t EXCEPT !.pc = Head(t.plan)]) PROVE Settles(o)
  <2>1. \/ Head(t.plan) = "seal" /\ t.plan # <<"inspect">>
        \/ Head(t.plan) = "inspect" /\ t.plan = <<"inspect">>
    BY <1>3 DEF Plans
  <2>2. PICK u : u = [t EXCEPT !.pc = Head(t.plan)]
    OBVIOUS
  <2>3. /\ u.pc = Head(t.plan) /\ u.plan = t.plan /\ u.before = t.before
        /\ u.publication = None /\ u.fed = 0
    BY <1>0, <1>2, <1>3, <2>2 DEF Fields
  <2>4. Judged(u, record, Spent(o), c)
    BY <1>3, <2>1, <2>3, BackupAssumption DEF Judged, Sealing, Inspecting
  <2>q. QED  BY <1>1, <1>6, <2>2, <2>4 DEF Settles, Continue
<1>7. \A e \in {Cause(o), "Integrity"} : e # "ok"
  BY DEF Cause
<1>8. \/ Fault(o, "Integrity")
      \/ IF Spent(o) THEN Refuse(o, Cause(o))
         ELSE IF record = Torn THEN Refuse(o, "Integrity")
         ELSE Continue(o, [t EXCEPT !.pc = Head(t.plan)])
  BY <1>2 DEF OpenStore
<1>q. QED  BY <1>5, <1>6, <1>7, <1>8

(* seal_capture before the first byte.                                     *)
LEMMA SealBeginsSettles ==
  ASSUME IInv, VInv, Captured.format = "Tar", NEW o \in Owners, SealBegins(o)
  PROVE  Settles(o)
<1>0. /\ TypeOK /\ DOMAIN thread[o] = Fields /\ Knows(thread[o], record, Whole)
      /\ Judged(thread[o], record, Spent(o), Captured)
  BY Ready
<1>1. thread[o].pc = "seal" /\ thread[o].publication = None /\ thread[o].fed = 0 /\ thread[o].plan # <<"inspect">>
  BY <1>0 DEF SealBegins, At, Knows, Unpublished, Judged, Sealing
<1>2. PICK c : c = Captured
  OBVIOUS
<1>3. /\ c.bytes \in Seq(Range(c.bytes)) /\ Len(c.bytes) \in Nat /\ NewCheck = NewArchive(<<File(c)>>)
      /\ Sound(c) => ManifestFits
  BY <1>0, <1>2, TarFacts
<1>4. CASE Spent(o) \/ ~ManifestFits
  <2>1. PICK p : p = "NotPublished"
    OBVIOUS
  <2>2. SealFails(o, p, FALSE)
    BY <1>4, <2>1 DEF SealBegins
  <2>3. Spent(o) \/ ~CanSeal(Captured)
    BY <1>2, <1>3, <1>4 DEF CanSeal
  <2>4. thread[o].pc \in Sealing /\ (p = "Durable" => CanSeal(Captured) /\ thread[o].before = None)
    BY <1>1, <2>1 DEF Sealing
  <2>q. QED  BY <2>2, <2>3, <2>4, SealFailsSettles
<1>5. CASE ~(Spent(o) \/ ~ManifestFits)
  <2>1. PICK u : u = [thread[o] EXCEPT !.pc = "read", !.check = NewCheck]
    OBVIOUS
  <2>2. thread' = [thread EXCEPT ![o] = u] /\ record' = record
    BY <1>5, <2>1 DEF SealBegins, Continue
  <2>3. /\ u.pc = "read" /\ u.check = NewCheck /\ u.fed = 0 /\ u.publication = None /\ u.plan = thread[o].plan
    BY <1>0, <1>1, <2>1 DEF Fields
  <2>4. Fed(u.check, c.bytes, File(c), u.fed)
    <3>1. Fed(NewArchive(<<File(c)>>), c.bytes, File(c), 0)
      BY <1>3, NewIsFed, Zenon
    <3>q. QED  BY <1>3, <2>3, <3>1
  <2>5. u.fed \in 0..Len(c.bytes) /\ u.fed <= InputLimit
    BY <1>3, <2>3, BackupAssumption
  <2>6. Judged(u, record, Spent(o), c)
    BY <1>1, <2>3, <2>4, <2>5, BackupAssumption DEF Judged, Sealing, Inspecting
  <2>q. QED  BY <1>2, <2>2, <2>6 DEF Settles
<1>q. QED  BY <1>4, <1>5

(* The cipher reads the source: only what cannot be sealed is refused.     *)
LEMMA SealReadsSettles ==
  ASSUME IInv, VInv, Captured.format = "Tar", NEW o \in Owners, SealReads(o)
  PROVE  Settles(o)
<1>0. /\ TypeOK /\ DOMAIN thread[o] = Fields /\ Knows(thread[o], record, Whole)
      /\ Judged(thread[o], record, Spent(o), Captured)
  BY Ready
<1>1. PICK c : c = Captured
  OBVIOUS
<1>2. /\ c.bytes \in Seq(Range(c.bytes)) /\ Len(c.bytes) \in Nat /\ source_bytes = Len(c.bytes)
  BY <1>0, <1>1, TarFacts
<1>3. PICK t : t = thread[o]
  OBVIOUS
<1>4. t.pc = "read" /\ t.publication = None
  BY <1>0, <1>3 DEF SealReads, At, Knows, Unpublished
<1>5. t.plan # <<"inspect">> /\ Fed(t.check, c.bytes, File(c), t.fed)
  BY <1>0, <1>1, <1>3, <1>4 DEF Judged, Sealing
<1>6. PICK n \in Nat, l \in Nat, i \in Nat, w \in Nat :
        n = t.fed /\ l = Len(c.bytes) /\ i = InputLimit /\ w = OutputLimit /\ n <= l /\ n <= i
  <2>1. t.fed \in 0..Len(c.bytes) /\ t.fed <= InputLimit
    BY <1>0, <1>1, <1>3, <1>4 DEF Judged
  <2>q. QED  BY <1>2, <2>1, BackupAssumption
<1>7. ASSUME NEW f, SealFails(o, "NotPublished", f), Spent(o) \/ f \/ ~CanSeal(c) PROVE Settles(o)
  <2>1. PICK p : p = "NotPublished"
    OBVIOUS
  <2>2. SealFails(o, p, f) /\ (p = "Durable" => CanSeal(Captured) /\ thread[o].before = None) /\ thread[o].pc \in Sealing
    BY <1>3, <1>4, <1>7, <2>1 DEF Sealing
  <2>q. QED  BY <1>1, <1>7, <2>2, SealFailsSettles
<1>8. ASSUME NEW u, Continue(o, u), Judged(u, record, Spent(o), c) PROVE Settles(o)
  BY <1>1, <1>8 DEF Settles, Continue
<1>9. CASE SealFails(o, "NotPublished", TRUE)
  BY <1>7, <1>9
<1>10. CASE /\ Spent(o) \/ (source_bytes - t.fed > 0 /\ ~InputFits(t.fed + 1))
            /\ SealFails(o, "NotPublished", FALSE)
  <2>1. ASSUME l - n > 0, ~(n + 1 <= i) PROVE ~CanSeal(c)
    <3>1. ~(l <= i)
      BY <2>1
    <3>q. QED  BY <1>6, <3>1 DEF CanSeal
  <2>2. Spent(o) \/ ~CanSeal(c)
    BY <1>2, <1>6, <1>10, <2>1 DEF InputFits
  <2>q. QED  BY <1>7, <1>10, <2>2
<1>11. ASSUME ~Spent(o), NEW k \in 1..Lesser(Lesser(SealChunk, source_bytes - t.fed), InputLimit - t.fed),
              NEW v, v = FeedCheck(t.check, SubSeq(c.bytes, t.fed + 1, t.fed + k)),
              IF v.err # "ok" THEN SealFails(o, "NotPublished", FALSE)
              ELSE Continue(o, [t EXCEPT !.check = v, !.fed = @ + k])
       PROVE  Settles(o)
  <2>1. PICK q \in Nat : q = n + k /\ n <= q /\ q <= l /\ q <= i /\ q - n <= MaxChunkBytes
    <3>1. PICK x \in Nat, y \in Nat : x = SealChunk /\ y = MaxChunkBytes /\ x <= y
      <4>1. SealChunk \in 1..MaxChunkBytes /\ MaxChunkBytes \in Nat
        BY BackupAssumption, ArchiveAssumption
      <4>2. SealChunk \in Nat /\ SealChunk <= MaxChunkBytes
        BY <4>1
      <4>q. QED  BY <4>1, <4>2
    <3>2. k \in 1..Lesser(Lesser(x, l - n), i - n)
      BY <1>2, <1>6, <1>11, <3>1
    <3>3. k \in Nat /\ k <= x /\ k <= l - n /\ k <= i - n
      BY <3>1, <3>2 DEF Lesser
    <3>4. PICK j \in Nat : j = k /\ j <= x /\ j <= l - n /\ j <= i - n
      BY <3>3
    <3>5. x <= y
      BY <3>1
    <3>6. n + j \in Nat /\ n <= n + j /\ n + j <= l /\ n + j <= i /\ (n + j) - n <= y
      BY <3>4, <3>5
    <3>q. QED  BY <3>1, <3>4, <3>6
  <2>2. PICK b : b = SubSeq(c.bytes, n + 1, q)
    OBVIOUS
  <2>3. v = FeedCheck(t.check, b)
    BY <1>6, <1>11, <2>1, <2>2
  <2>4. \/ v.err # "ok" /\ ~Sound(c)
        \/ v.err = "ok" /\ Fed(v, c.bytes, File(c), q)
    <3>1. Fed(t.check, c.bytes, File(c), n) /\ q <= Len(c.bytes)
      BY <1>5, <1>6, <2>1
    <3>2. FedTo(FeedCheck(t.check, b), c.bytes, File(c), q)
      BY <1>0, <1>1, <2>1, <2>2, <3>1, FeedCounts, Zenon
    <3>q. QED  BY <2>3, <3>2 DEF FedTo, Sound
  <2>5. CASE v.err # "ok" /\ ~Sound(c)
    BY <1>7, <1>11, <2>5 DEF CanSeal
  <2>6. CASE v.err = "ok" /\ Fed(v, c.bytes, File(c), q)
    <3>1. PICK u : u = [t EXCEPT !.check = v, !.fed = @ + k]
      OBVIOUS
    <3>2. u.pc = "read" /\ u.plan = t.plan /\ u.publication = None /\ u.check = v /\ u.fed = q
      BY <1>0, <1>3, <1>4, <1>6, <2>1, <3>1 DEF Fields
    <3>3. u.fed \in 0..Len(c.bytes) /\ u.fed <= InputLimit
      BY <1>6, <2>1, <3>2
    <3>4. Fed(u.check, c.bytes, File(c), u.fed)
      BY <2>6, <3>2
    <3>5. Judged(u, record, Spent(o), c)
      BY <1>5, <3>2, <3>3, <3>4, BackupAssumption DEF Judged, Sealing, Inspecting
    <3>q. QED  BY <1>8, <1>11, <2>6, <3>1, <3>5
  <2>q. QED  BY <2>4, <2>5, <2>6
<1>12. CASE /\ ~Spent(o) /\ source_bytes - t.fed = 0
            /\ IF ~OutputFits(source_bytes + CipherOverhead)
               THEN SealFails(o, "NotPublished", FALSE)
               ELSE Continue(o, [t EXCEPT !.pc = "finish"])
  <2>1. n = l
    BY <1>2, <1>6, <1>12
  <2>2. CASE ~OutputFits(source_bytes + CipherOverhead)
    <3>1. ~CanSeal(c)
      BY <1>2, <2>2 DEF CanSeal, OutputFits
    <3>q. QED  BY <1>7, <1>12, <2>2, <3>1
  <2>3. CASE OutputFits(source_bytes + CipherOverhead)
    <3>1. PICK u : u = [t EXCEPT !.pc = "finish"]
      OBVIOUS
    <3>2. u.pc = "finish" /\ u.plan = t.plan /\ u.publication = None /\ u.check = t.check /\ u.fed = t.fed
      BY <1>0, <1>3, <1>4, <3>1 DEF Fields
    <3>z1. u.fed = l
      BY <1>6, <2>1, <3>2
    <3>z2. l <= i
      BY <1>6, <2>1
    <3>z3. l \in 0..l
      OBVIOUS
    <3>0. l \in 0..l /\ u.fed = l /\ l <= i
      BY <3>z1, <3>z2, <3>z3
    <3>3. /\ u.fed \in 0..Len(c.bytes) /\ u.fed <= InputLimit /\ u.fed = Len(c.bytes)
      BY <1>6, <3>0
    <3>4. Len(c.bytes) + CipherOverhead <= OutputLimit
      BY <1>2, <2>3 DEF OutputFits
    <3>5. Fed(u.check, c.bytes, File(c), u.fed)
      BY <1>5, <3>2
    <3>6. Judged(u, record, Spent(o), c)
      BY <1>5, <3>2, <3>3, <3>4, <3>5, BackupAssumption DEF Judged, Sealing, Inspecting
    <3>q. QED  BY <1>8, <1>12, <2>3, <3>1, <3>6
  <2>q. QED  BY <2>2, <2>3
<1>q. QED  BY <1>1, <1>3, <1>9, <1>10, <1>11, <1>12 DEF SealReads

(* finish, and the counts the sealer asks for.                             *)
LEMMA SealFinishesSettles ==
  ASSUME IInv, VInv, Captured.format = "Tar", NEW o \in Owners, SealFinishes(o)
  PROVE  Settles(o)
<1>0. /\ TypeOK /\ DOMAIN thread[o] = Fields /\ Knows(thread[o], record, Whole)
      /\ Judged(thread[o], record, Spent(o), Captured)
  BY Ready
<1>1. PICK c : c = Captured
  OBVIOUS
<1>2. c.bytes \in Seq(Range(c.bytes)) /\ c.size \in Nat
  BY <1>0, <1>1, TarFacts
<1>3. PICK t : t = thread[o]
  OBVIOUS
<1>4. t.pc = "finish" /\ t.publication = None
  BY <1>0, <1>3 DEF SealFinishes, At, Knows, Unpublished
<1>5. /\ t.plan # <<"inspect">> /\ Fed(t.check, c.bytes, File(c), t.fed)
      /\ t.fed = Len(c.bytes) /\ t.fed <= InputLimit /\ Len(c.bytes) + CipherOverhead <= OutputLimit
  BY <1>0, <1>1, <1>3, <1>4 DEF Judged, Sealing
<1>6. PICK k : k = FinishCheck(t.check)
  OBVIOUS
<1>7. IF Sound(c) THEN k # None /\ Exact(k, c) ELSE k = None
  BY <1>0, <1>1, <1>5, <1>6, FinishCounts
<1>8. CASE SealFails(o, "NotPublished", FALSE) /\ (Spent(o) \/ ~Sound(c))
  <2>1. PICK p : p = "NotPublished"
    OBVIOUS
  <2>2. SealFails(o, p, FALSE) /\ (p = "Durable" => CanSeal(Captured) /\ thread[o].before = None) /\ thread[o].pc \in Sealing
    BY <1>3, <1>4, <1>8, <2>1 DEF Sealing
  <2>3. Spent(o) \/ ~CanSeal(Captured)
    BY <1>1, <1>8 DEF CanSeal
  <2>q. QED  BY <2>2, <2>3, SealFailsSettles
<1>9. CASE Sound(c) /\ Continue(o, [t EXCEPT !.pc = "publish", !.counts = k, !.check = None])
  <2>1. PICK u : u = [t EXCEPT !.pc = "publish", !.counts = k, !.check = None]
    OBVIOUS
  <2>2. u.pc = "publish" /\ u.plan = t.plan /\ u.publication = None /\ u.counts = k
    BY <1>0, <1>3, <1>4, <2>1 DEF Fields
  <2>3. CanSeal(c) /\ Exact(u.counts, c)
    BY <1>5, <1>7, <1>9, <2>2 DEF CanSeal
  <2>4. Judged(u, record, Spent(o), c)
    BY <1>5, <2>2, <2>3, BackupAssumption DEF Judged, Sealing, Inspecting
  <2>q. QED  BY <1>1, <1>9, <2>1, <2>4 DEF Settles, Continue
<1>10. Sound(c) => CountsAreValid(k, t.fed)
  BY <1>2, <1>5, <1>7, ExactCounts
<1>11. IF Spent(o) \/ k = None THEN SealFails(o, "NotPublished", FALSE)
       ELSE IF ~CountsAreValid(k, t.fed) THEN SealFails(o, "NotPublished", FALSE)
       ELSE Continue(o, [t EXCEPT !.pc = "publish", !.counts = k, !.check = None])
  BY <1>3, <1>6 DEF SealFinishes
<1>q. QED  BY <1>7, <1>8, <1>9, <1>10, <1>11

(* publish, up to the append: it refuses a capture that was there.         *)
LEMMA SealPublishesSettles ==
  ASSUME IInv, VInv, Captured.format = "Tar", NEW o \in Owners, SealPublishes(o)
  PROVE  Settles(o)
<1>0. /\ TypeOK /\ DOMAIN thread[o] = Fields /\ Knows(thread[o], record, Whole)
      /\ Judged(thread[o], record, Spent(o), Captured)
  BY Ready
<1>1. PICK c : c = Captured
  OBVIOUS
<1>2. source_bytes = Len(c.bytes)
  BY <1>0, <1>1, TarFacts
<1>3. PICK t : t = thread[o]
  OBVIOUS
<1>4. t.pc = "publish" /\ t.publication = None /\ record = t.before
  BY <1>0, <1>3 DEF SealPublishes, At, Knows, Unpublished
<1>5. t.plan # <<"inspect">> /\ CanSeal(c) /\ Exact(t.counts, c)
  BY <1>0, <1>1, <1>3, <1>4 DEF Judged, Sealing
<1>6. t.counts.source = source_bytes /\ t.counts.payload = Captured.size /\ t.counts.files = 1
  BY <1>1, <1>2, <1>5 DEF Exact
<1>7. ASSUME NEW p \in {"NotPublished", "Unknown"}, NEW f, SealFails(o, p, f), Spent(o) \/ f \/ record # None
      PROVE  Settles(o)
  <2>1. (p = "Durable" => CanSeal(Captured) /\ thread[o].before = None) /\ thread[o].pc \in Sealing
    BY <1>3, <1>4, <1>7 DEF Sealing
  <2>2. Spent(o) \/ f \/ thread[o].before # None
    BY <1>3, <1>4, <1>7
  <2>q. QED  BY <1>7, <2>1, <2>2, SealFailsSettles
<1>8. CASE record = None /\ Continue(o, [t EXCEPT !.pc = "append"])
  <2>1. PICK u : u = [t EXCEPT !.pc = "append"]
    OBVIOUS
  <2>2. u.pc = "append" /\ u.plan = t.plan /\ u.publication = None /\ u.counts = t.counts /\ u.before = None
    BY <1>0, <1>3, <1>4, <1>8, <2>1 DEF Fields
  <2>3. Judged(u, record, Spent(o), c)
    BY <1>5, <2>2, BackupAssumption DEF Judged, Sealing, Inspecting
  <2>q. QED  BY <1>1, <1>8, <2>1, <2>3 DEF Settles, Continue
<1>9. \/ SealFails(o, "Unknown", TRUE)
      \/ IF Spent(o) THEN SealFails(o, "Unknown", FALSE)
         ELSE IF record # None THEN SealFails(o, "NotPublished", FALSE)
         ELSE Continue(o, [t EXCEPT !.pc = "append"])
  BY <1>3, <1>6 DEF SealPublishes
<1>q. QED  BY <1>7, <1>8, <1>9

(* The appends and the last check of publish.                              *)
LEMMA AppendSettles ==
  ASSUME IInv, VInv, Captured.format = "Tar", NEW o \in Owners,
         SealAppends(o) \/ SealWrites(o) \/ SealReturns(o)
  PROVE  Settles(o)
<1>0. /\ TypeOK /\ DOMAIN thread[o] = Fields /\ Knows(thread[o], record, Whole)
      /\ Judged(thread[o], record, Spent(o), Captured) /\ Spent(o) \in BOOLEAN
  BY Ready
<1>1. PICK c : c = Captured
  OBVIOUS
<1>3. PICK t : t = thread[o]
  OBVIOUS
<1>4. t.pc \in {"append", "writing", "synced"} /\ t.publication = None
  BY <1>0, <1>3 DEF SealAppends, SealWrites, SealReturns, At, Knows, Unpublished
<1>5. t.plan # <<"inspect">> /\ CanSeal(c) /\ Exact(t.counts, c) /\ t.before = None
  BY <1>0, <1>1, <1>3, <1>4 DEF Judged, Sealing
<1>6. ASSUME NEW p \in {"NotPublished", "Unknown", "Durable"}, NEW f, SealFails(o, p, f), Spent(o) \/ f
      PROVE  Settles(o)
  <2>1. (p = "Durable" => CanSeal(Captured) /\ thread[o].before = None) /\ thread[o].pc \in Sealing
    BY <1>1, <1>3, <1>4, <1>5 DEF Sealing
  <2>q. QED  BY <1>6, <2>1, SealFailsSettles
<1>7. ASSUME NEW u, thread' = [thread EXCEPT ![o] = u], Judged(u, record', Spent(o), c) PROVE Settles(o)
  BY <1>1, <1>7 DEF Settles
<1>d. ASSUME InDoubt(o) PROVE Settles(o)
  <2>1. PICK u : u = [t EXCEPT !.pc = "end", !.result = "Unknown", !.publication = "Unknown", !.fault = TRUE]
    OBVIOUS
  <2>2. u.pc = "end" /\ u.result = "Unknown" /\ u.publication = "Unknown" /\ u.fault
    BY <1>0, <1>3, <2>1 DEF Fields
  <2>3. Judged(u, record', Spent(o), c)
    BY <2>2 DEF Judged, Sealing, Inspecting, Verdict
  <2>q. QED  BY <1>3, <1>7, <1>d, <2>1, <2>3 DEF InDoubt
<1>w. ASSUME NEW q \in {"writing", "synced"}, thread' = [thread EXCEPT ![o].pc = q] PROVE Settles(o)
  <2>1. PICK u : u = [t EXCEPT !.pc = q]
    OBVIOUS
  <2>2. u.pc = q /\ u.plan = t.plan /\ u.publication = None /\ u.counts = t.counts /\ u.before = None
    BY <1>0, <1>3, <1>4, <1>5, <2>1 DEF Fields
  <2>3. Judged(u, record', Spent(o), c)
    BY <1>5, <1>w, <2>2, BackupAssumption DEF Judged, Sealing, Inspecting
  <2>4. thread' = [thread EXCEPT ![o] = u]
    BY <1>3, <1>w, <2>1
  <2>q. QED  BY <1>7, <2>3, <2>4
<1>8. CASE SealAppends(o)
  BY <1>6, <1>8, <1>d, <1>w DEF SealAppends
<1>s. CASE SealWrites(o)
  BY <1>6, <1>s, <1>d, <1>w DEF SealWrites
<1>9. CASE SealReturns(o)
  <2>1. ASSUME Continue(o, [t EXCEPT !.pc = "inspect", !.publication = "Durable"])
        PROVE  Settles(o)
    <3>1. PICK u : u = [t EXCEPT !.pc = "inspect", !.publication = "Durable"]
      OBVIOUS
    <3>2. u.pc = "inspect" /\ u.plan = t.plan /\ u.before = None /\ u.publication = "Durable"
      BY <1>0, <1>3, <1>5, <3>1 DEF Fields
    <3>3. record' = WholeOf(c)
      <4>1. record = Whole /\ Whole = WholeOf(c)
        BY <1>0, <1>1, <1>9, TarFacts DEF SealReturns, At, Knows
      <4>q. QED  BY <2>1, <4>1 DEF Continue
    <3>4. Judged(u, record', Spent(o), c)
      BY <1>5, <3>2, <3>3 DEF Judged, Sealing, Inspecting
    <3>q. QED  BY <1>7, <2>1, <3>1, <3>4 DEF Continue
  <2>q. QED  BY <1>3, <1>6, <1>9, <2>1 DEF SealReturns
<1>q. QED  BY <1>8, <1>9, <1>s

(* The plaintext of the whole record is the capture, stretch by stretch.   *)
LEMMA PlainOfWhole ==
  ASSUME NEW S, NEW b \in Seq(S), NEW n \in Nat, NEW q \in Nat, n <= q, q <= Len(b), NEW x
  PROVE  SubSeq(SubSeq(Append(b, x), 1, Len(b)), n + 1, q) = SubSeq(b, n + 1, q)
<1>1. PICK a : a = SubSeq(Append(b, x), 1, Len(b))
  OBVIOUS
<1>2. Len(b) \in Nat /\ Len(Append(b, x)) = Len(b) + 1
  OBVIOUS
<1>3. Len(a) = Len(b) /\ \A i \in 1..Len(b) : a[i] = b[i]
  <2>1. \A i \in 1..Len(b) : Append(b, x)[i] = b[i]
    OBVIOUS
  <2>2. Append(b, x) \in Seq(S \cup {x})
    OBVIOUS
  <2>3. PICK d : d = Append(b, x) /\ d \in Seq(S \cup {x}) /\ Len(d) = Len(b) + 1
    BY <1>2, <2>2
  <2>4. Len(SubSeq(d, 1, Len(b))) = Len(b) /\ \A i \in 1..Len(b) : SubSeq(d, 1, Len(b))[i] = d[i]
    BY <1>2, <2>3
  <2>q. QED  BY <1>1, <2>1, <2>3, <2>4
<1>4. a = b
  <2>1. a \in Seq(S \cup {x}) /\ b \in Seq(S \cup {x})
    BY <1>1, <1>2
  <2>q. QED  BY <1>2, <1>3, <2>1
<1>q. QED  BY <1>1, <1>4

(* A record that is there, and one that is whole.                          *)
LEMMA RecordFacts ==
  ASSUME TypeOK, Captured.format = "Tar", NEW c, c = Captured
  PROVE  /\ None # WholeOf(c)
         /\ WholeOf(c).length = Len(c.bytes) /\ WholeOf(c).sound
         /\ record \notin {None, Torn} => record.length \in Int
<1>1. Len(c.bytes) \in Nat
  BY TarFacts
<1>2. WholeOf(c).length = Len(c.bytes) /\ WholeOf(c).sound
  BY DEF WholeOf
<1>3. WholeOf(c) \in [length : Int, sound : BOOLEAN]
  BY <1>1 DEF WholeOf
<1>q. QED  BY <1>2, <1>3, BackupAssumption DEF TypeOK

(* An inspection that goes on to decrypt keeps its judgement.              *)
LEMMA InspectionGoesOn ==
  ASSUME NEW t, NEW r, NEW s, NEW c, Judged(t, r, s, c), t.pc \in Inspecting,
         NEW u, u.pc \in {"decrypt", "compare"}, u.publication = t.publication, u.plan = t.plan,
         u.before = t.before, u.staging <= OutputLimit,
         u.pc = "compare" => r.length + CipherOverhead <= InputLimit
  PROVE  Judged(u, r, s, c)
<1>1. /\ t.publication = "Durable" => CanSeal(c)
      /\ t.plan # <<"inspect">> => t.before = None /\ t.publication = "Durable" /\ r = WholeOf(c)
      /\ t.plan = <<"inspect">> => t.before = r
  BY DEF Judged
<1>q. QED  BY <1>1 DEF Judged, Sealing, Inspecting

(* The scan, and the copy loop of the decryption.                          *)
LEMMA DecryptSettles ==
  ASSUME IInv, VInv, Captured.format = "Tar", NEW o \in Owners, InspectBegins(o) \/ Decrypts(o)
  PROVE  Settles(o)
<1>0. /\ TypeOK /\ DOMAIN thread[o] = Fields /\ Knows(thread[o], record, Whole)
      /\ Judged(thread[o], record, Spent(o), Captured) /\ thread[o].staging \in Int
  BY Ready
<1>1. PICK c : c = Captured
  OBVIOUS
<1>2. /\ Len(c.bytes) \in Nat /\ source_bytes = Len(c.bytes)
  BY <1>0, <1>1, TarFacts
<1>3. PICK t : t = thread[o]
  OBVIOUS
<1>4. t.pc \in Inspecting
  BY <1>3 DEF InspectBegins, Decrypts, At, Inspecting
<1>5. None # WholeOf(c) /\ WholeOf(c).length = Len(c.bytes) /\ WholeOf(c).sound
      /\ (record \notin {None, Torn} => record.length \in Int) /\ record # Torn
  <2>1. record # Torn
    BY <1>0, <1>3, <1>4 DEF Knows
  <2>q. QED  BY <1>0, <1>1, <2>1, RecordFacts
<1>6. ASSUME NEW e, e # "ok", \/ Refuse(o, e) /\ (Spent(o) \/ ~CanInspect(record, c))
                              \/ Fault(o, e)
      PROVE  Settles(o)
  BY <1>1, <1>3, <1>4, <1>6, RefuseSettles
<1>7. Cause(o) # "ok"
  BY DEF Cause
<1>8. ASSUME NEW e \in {"Integrity", "Unknown"}, \/ Refuse(o, e) /\ (Spent(o) \/ ~CanInspect(record, c))
                                                 \/ Fault(o, e)
      PROVE  Settles(o)
  BY <1>6, <1>8
<1>9. ASSUME NEW u, Continue(o, u), Judged(u, record, Spent(o), c) PROVE Settles(o)
  BY <1>1, <1>9 DEF Settles, Continue
<1>10. Judged(t, record, Spent(o), c)
  BY <1>0, <1>1, <1>3
<1>11. CASE InspectBegins(o)
  <2>1. record = None => ~CanInspect(record, c)
    BY <1>5 DEF CanInspect
  <2>2. ASSUME Continue(o, [t EXCEPT !.pc = "decrypt", !.staging = 0]) PROVE Settles(o)
    <3>1. PICK u : u = [t EXCEPT !.pc = "decrypt", !.staging = 0]
      OBVIOUS
    <3>2. /\ u.pc = "decrypt" /\ u.staging = 0 /\ u.plan = t.plan /\ u.publication = t.publication
          /\ u.before = t.before
      BY <1>0, <1>3, <3>1 DEF Fields
    <3>3. u.staging <= OutputLimit
      BY <3>2, BackupAssumption
    <3>4. Judged(u, record, Spent(o), c)
      BY <1>4, <1>10, <3>2, <3>3, InspectionGoesOn
    <3>q. QED  BY <1>9, <2>2, <3>1, <3>4
  <2>3. \/ Fault(o, "Integrity")
        \/ IF Spent(o) THEN Refuse(o, Cause(o))
           ELSE IF record = None THEN Refuse(o, "Unknown")
           ELSE Continue(o, [t EXCEPT !.pc = "decrypt", !.staging = 0])
    BY <1>3, <1>11 DEF InspectBegins
  <2>q. QED  BY <1>6, <1>7, <1>8, <2>1, <2>2, <2>3
<1>12. CASE Decrypts(o)
  <2>1. t.pc = "decrypt" /\ record # None
    BY <1>0, <1>3, <1>12 DEF Decrypts, At, Knows
  <2>2. PICK n \in Int, g \in Int, l \in Nat, y \in Nat :
          n = record.length /\ g = t.staging /\ l = Len(c.bytes) /\ y = OutputLimit
    BY <1>0, <1>2, <1>3, <1>5, <2>1, BackupAssumption
  <2>3. t.staging <= OutputLimit
    BY <1>10, <2>1 DEF Judged
  <2>4. PICK k \in Int : k = Lesser(CopyBytes, n - g) /\ k <= n - g
    <3>1. CopyBytes \in Int /\ n - g \in Int
      BY BackupAssumption
    <3>2. Lesser(CopyBytes, n - g) \in Int /\ Lesser(CopyBytes, n - g) <= n - g
      BY <3>1 DEF Lesser
    <3>q. QED  BY <3>2
  <2>5. CanInspect(record, c) => n = l /\ record.sound /\ n + CipherOverhead <= InputLimit /\ l <= y
    BY <1>5, <2>2 DEF CanInspect
  <2>6. CASE Refuse(o, "Integrity") /\ (Spent(o) \/ ~InputFits(n + CipherOverhead))
    BY <1>8, <2>5, <2>6 DEF InputFits
  <2>7. CASE Refuse(o, "Integrity") /\ ~record.sound
    BY <1>8, <2>5, <2>7
  <2>8. CASE Refuse(o, "Integrity") /\ (~OutputFits(g + k) \/ g + k > l)
    <3>1. g + k <= n
      BY <2>4
    <3>2. ASSUME n = l, l <= y PROVE g + k <= y /\ ~(g + k > l)
      BY <3>1, <3>2
    <3>3. ~CanInspect(record, c)
      BY <2>2, <2>5, <2>8, <3>2 DEF OutputFits
    <3>q. QED  BY <1>8, <2>8, <3>3
  <2>9. ASSUME InputFits(n + CipherOverhead), Continue(o, [t EXCEPT !.pc = "compare"]) PROVE Settles(o)
    <3>1. PICK u : u = [t EXCEPT !.pc = "compare"]
      OBVIOUS
    <3>2. /\ u.pc = "compare" /\ u.staging = t.staging /\ u.plan = t.plan /\ u.publication = t.publication
          /\ u.before = t.before
      BY <1>0, <1>3, <3>1 DEF Fields
    <3>3. u.staging <= OutputLimit /\ record.length + CipherOverhead <= InputLimit
      BY <2>2, <2>3, <2>9, <3>2 DEF InputFits
    <3>4. Judged(u, record, Spent(o), c)
      BY <1>4, <1>10, <3>2, <3>3, InspectionGoesOn
    <3>q. QED  BY <1>9, <2>9, <3>1, <3>4
  <2>10. ASSUME OutputFits(g + k), Continue(o, [t EXCEPT !.staging = @ + k]) PROVE Settles(o)
    <3>1. PICK u : u = [t EXCEPT !.staging = @ + k]
      OBVIOUS
    <3>2. /\ u.pc = "decrypt" /\ u.staging = g + k /\ u.plan = t.plan /\ u.publication = t.publication
          /\ u.before = t.before
      BY <1>0, <1>3, <2>1, <2>2, <3>1 DEF Fields
    <3>3. u.staging <= OutputLimit
      BY <2>10, <3>2 DEF OutputFits
    <3>4. Judged(u, record, Spent(o), c)
      BY <1>4, <1>10, <3>2, <3>3, InspectionGoesOn
    <3>q. QED  BY <1>9, <2>10, <3>1, <3>4
  <2>11. \/ Fault(o, "Integrity")
         \/ IF Spent(o) \/ ~InputFits(n + CipherOverhead) THEN Refuse(o, "Integrity")
            ELSE IF k = 0
            THEN IF record.sound THEN Continue(o, [t EXCEPT !.pc = "compare"]) ELSE Refuse(o, "Integrity")
            ELSE IF ~OutputFits(g + k) \/ g + k > l
            THEN Refuse(o, "Integrity")
            ELSE Continue(o, [t EXCEPT !.staging = @ + k])
    BY <1>2, <1>3, <1>12, <2>2, <2>4 DEF Decrypts
  <2>q. QED  BY <1>8, <2>6, <2>7, <2>8, <2>9, <2>10, <2>11
<1>q. QED  BY <1>11, <1>12

(* The comparison with the binding, and the second validator.              *)
LEMMA CompareSettles ==
  ASSUME IInv, VInv, Captured.format = "Tar", NEW o \in Owners, Compares(o)
  PROVE  Settles(o)
<1>0. /\ TypeOK /\ DOMAIN thread[o] = Fields /\ Knows(thread[o], record, Whole)
      /\ Judged(thread[o], record, Spent(o), Captured)
  BY Ready
<1>1. PICK c : c = Captured
  OBVIOUS
<1>2. /\ c.bytes \in Seq(Range(c.bytes)) /\ Len(c.bytes) \in Nat /\ source_bytes = Len(c.bytes)
      /\ NewCheck = NewArchive(<<File(c)>>) /\ (Sound(c) => ManifestFits)
  BY <1>0, <1>1, TarFacts
<1>3. PICK t : t = thread[o]
  OBVIOUS
<1>4. t.pc = "compare" /\ t.pc \in Inspecting /\ t.staging = record.length
  BY <1>0, <1>3 DEF Compares, At, Inspecting, Knows
<1>5. WholeOf(c).length = Len(c.bytes)
  BY <1>0, <1>1, RecordFacts
<1>6. Judged(t, record, Spent(o), c)
  BY <1>0, <1>1, <1>3
<1>7. ASSUME NEW e, e # "ok", Refuse(o, e), Spent(o) \/ ~CanInspect(record, c) PROVE Settles(o)
  BY <1>1, <1>3, <1>4, <1>7, RefuseSettles
<1>8. ASSUME NEW e \in {"Integrity", "Invalid"}, Refuse(o, e), ~CanInspect(record, c) PROVE Settles(o)
  BY <1>7, <1>8
<1>9. CASE Spent(o) /\ Refuse(o, Cause(o))
  <2>1. Cause(o) # "ok"
    BY DEF Cause
  <2>q. QED  BY <1>7, <1>9, <2>1
<1>10. CASE Refuse(o, "Integrity") /\ t.staging # source_bytes
  <2>1. ~CanInspect(record, c)
    BY <1>2, <1>4, <1>5, <1>10 DEF CanInspect
  <2>q. QED  BY <1>8, <1>10, <2>1
<1>11. CASE Refuse(o, "Invalid") /\ ~ManifestFits
  <2>1. ~CanInspect(record, c)
    BY <1>2, <1>11 DEF CanInspect
  <2>q. QED  BY <1>8, <1>11, <2>1
<1>12. CASE t.staging = source_bytes /\ Continue(o, [t EXCEPT !.pc = "feed", !.check = NewCheck, !.fed = 0])
  <2>1. PICK u : u = [t EXCEPT !.pc = "feed", !.check = NewCheck, !.fed = 0]
    OBVIOUS
  <2>2. /\ u.pc = "feed" /\ u.staging = t.staging /\ u.plan = t.plan /\ u.publication = t.publication
        /\ u.before = t.before /\ u.check = NewCheck /\ u.fed = 0
    BY <1>0, <1>3, <2>1 DEF Fields
  <2>3. Fed(u.check, c.bytes, File(c), u.fed)
    <3>1. Fed(NewArchive(<<File(c)>>), c.bytes, File(c), 0)
      BY <1>2, NewIsFed, Zenon
    <3>q. QED  BY <1>2, <2>2, <3>1
  <2>4. t.staging <= OutputLimit /\ record.length + CipherOverhead <= InputLimit
    BY <1>4, <1>6 DEF Judged
  <2>5. u.staging <= OutputLimit /\ u.staging = Len(c.bytes) /\ u.fed \in 0..Len(c.bytes)
    BY <1>2, <1>12, <2>2, <2>4
  <2>6. Judged(u, record, Spent(o), c)
    <3>1. /\ t.publication = "Durable" => CanSeal(c)
          /\ t.plan # <<"inspect">> =>
               t.before = None /\ t.publication = "Durable" /\ record = WholeOf(c)
          /\ t.plan = <<"inspect">> => t.before = record
      BY <1>4, <1>6 DEF Judged
    <3>q. QED  BY <2>2, <2>3, <2>4, <2>5, <3>1 DEF Judged, Sealing, Inspecting
  <2>q. QED  BY <1>1, <1>12, <2>1, <2>6 DEF Settles, Continue
<1>13. IF Spent(o) THEN Refuse(o, Cause(o))
       ELSE IF t.staging # source_bytes THEN Refuse(o, "Integrity")
       ELSE IF ~ManifestFits THEN Refuse(o, "Invalid")
       ELSE Continue(o, [t EXCEPT !.pc = "feed", !.check = NewCheck, !.fed = 0])
  BY <1>3 DEF Compares
<1>q. QED  BY <1>9, <1>10, <1>11, <1>12, <1>13

(* The second validator reads what the first did, in its own chunks.       *)
LEMMA FeedSettles ==
  ASSUME IInv, VInv, Captured.format = "Tar", NEW o \in Owners, InspectFeeds(o)
  PROVE  Settles(o)
<1>0. /\ TypeOK /\ DOMAIN thread[o] = Fields /\ Knows(thread[o], record, Whole)
      /\ Judged(thread[o], record, Spent(o), Captured)
  BY Ready
<1>1. PICK c : c = Captured
  OBVIOUS
<1>2. /\ c.bytes \in Seq(Range(c.bytes)) /\ Len(c.bytes) \in Nat /\ Whole = WholeOf(c)
  BY <1>0, <1>1, TarFacts
<1>3. PICK t : t = thread[o]
  OBVIOUS
<1>4. /\ t.pc = "feed" /\ t.pc \in Inspecting /\ record = WholeOf(c)
      /\ t.plan = <<"inspect">> \/ t.publication = "Durable"
  BY <1>0, <1>2, <1>3 DEF InspectFeeds, At, Inspecting, Knows
<1>5. /\ t.publication = "Durable" => CanSeal(c)
      /\ t.plan # <<"inspect">> => t.before = None /\ t.publication = "Durable"
      /\ t.plan = <<"inspect">> => t.before = record
      /\ Fed(t.check, c.bytes, File(c), t.fed) /\ t.staging = Len(c.bytes)
      /\ t.staging <= OutputLimit /\ record.length + CipherOverhead <= InputLimit
  BY <1>0, <1>1, <1>3, <1>4 DEF Judged
<1>6. PICK n \in Nat, l \in Nat, y \in Nat :
        n = t.fed /\ l = Len(c.bytes) /\ y = MaxChunkBytes /\ n <= l
  <2>1. t.fed \in 0..Len(c.bytes)
    BY <1>0, <1>1, <1>3, <1>4 DEF Judged
  <2>q. QED  BY <1>2, <2>1, ArchiveAssumption
<1>7. PICK k \in Nat : k = Lesser(y, l - n) /\ k <= y /\ k <= l - n /\ (~(k > 0) => n = l)
  <2>1. y > 0
    BY <1>6, ArchiveAssumption
  <2>2. l - n \in Nat
    BY <1>6
  <2>3. Lesser(y, l - n) \in Nat /\ Lesser(y, l - n) <= y /\ Lesser(y, l - n) <= l - n
        /\ (~(Lesser(y, l - n) > 0) => n = l)
    BY <2>1, <2>2 DEF Lesser
  <2>q. QED  BY <2>3
<1>8. PICK q \in Nat : q = n + k /\ n <= q /\ q <= l /\ q - n <= y
  <2>1. n + k \in Nat /\ n <= n + k /\ n + k <= l /\ (n + k) - n <= y
    BY <1>7
  <2>q. QED  BY <2>1
<1>9. SubSeq(Plaintext(record), t.fed + 1, t.fed + k) = SubSeq(c.bytes, n + 1, q)
  <2>1. Plaintext(record) = SubSeq(Append(c.bytes, ZeroByte), 1, Len(c.bytes))
    BY <1>1, <1>4 DEF Plaintext, WholeOf
  <2>2. q <= Len(c.bytes)
    BY <1>6, <1>8
  <2>3. SubSeq(SubSeq(Append(c.bytes, ZeroByte), 1, Len(c.bytes)), n + 1, q) = SubSeq(c.bytes, n + 1, q)
    BY <1>2, <1>8, <2>2, PlainOfWhole
  <2>q. QED  BY <1>6, <1>8, <2>1, <2>3
<1>10. PICK b : b = SubSeq(c.bytes, n + 1, q)
  OBVIOUS
<1>11. PICK v : v = FeedCheck(t.check, b)
  OBVIOUS
<1>12. \/ v.err # "ok" /\ ~Sound(c)
       \/ v.err = "ok" /\ Fed(v, c.bytes, File(c), q)
  <2>1. Fed(t.check, c.bytes, File(c), n) /\ q <= Len(c.bytes) /\ q - n <= MaxChunkBytes
    BY <1>5, <1>6, <1>8
  <2>2. FedTo(FeedCheck(t.check, b), c.bytes, File(c), q)
    BY <1>0, <1>1, <1>8, <1>10, <2>1, FeedCounts, Zenon
  <2>q. QED  BY <1>11, <2>2 DEF FedTo, Sound
<1>13. ASSUME Refuse(o, "Integrity"), Spent(o) \/ ~Sound(c) PROVE Settles(o)
  <2>1. PICK e : e = "Integrity"
    OBVIOUS
  <2>2. Refuse(o, e) /\ e # "ok" /\ (Spent(o) \/ ~CanInspect(record, Captured)) /\ thread[o].pc \in Inspecting
    BY <1>1, <1>3, <1>4, <1>13, <2>1 DEF CanInspect
  <2>q. QED  BY <2>2, RefuseSettles
<1>14. ASSUME Continue(o, [t EXCEPT !.check = v, !.fed = @ + k]), v.err = "ok" PROVE Settles(o)
  <2>1. PICK u : u = [t EXCEPT !.check = v, !.fed = @ + k]
    OBVIOUS
  <2>2. /\ u.pc = "feed" /\ u.staging = t.staging /\ u.plan = t.plan /\ u.publication = t.publication
        /\ u.before = t.before /\ u.check = v /\ u.fed = q
    BY <1>0, <1>3, <1>4, <1>6, <1>8, <2>1 DEF Fields
  <2>3. u.fed \in 0..Len(c.bytes)
    BY <1>6, <1>8, <2>2
  <2>4. Fed(u.check, c.bytes, File(c), u.fed)
    BY <1>12, <1>14, <2>2
  <2>5. u.staging <= OutputLimit /\ u.staging = Len(c.bytes)
    BY <1>5, <2>2
  <2>6. Judged(u, record, Spent(o), c)
    BY <1>4, <1>5, <2>2, <2>3, <2>4, <2>5 DEF Judged, Sealing, Inspecting
  <2>q. QED  BY <1>1, <1>14, <2>1, <2>6 DEF Settles, Continue
<1>15. ASSUME ~(k > 0)
       PROVE  IF Sound(c) THEN FinishCheck(t.check) # None /\ Exact(FinishCheck(t.check), c)
              ELSE FinishCheck(t.check) = None
  <2>1. Fed(t.check, c.bytes, File(c), Len(c.bytes))
    BY <1>5, <1>6, <1>7, <1>15
  <2>q. QED  BY <1>0, <1>1, <2>1, FinishCounts
<1>16. PICK d : d = FinishCheck(t.check)
  OBVIOUS
<1>17. ASSUME Continue(o, [t EXCEPT !.pc = "end", !.counts = d, !.result = "ok"]), Sound(c), Exact(d, c)
       PROVE  Settles(o)
  <2>1. PICK u : u = [t EXCEPT !.pc = "end", !.counts = d, !.result = "ok"]
    OBVIOUS
  <2>2. /\ u.pc = "end" /\ u.plan = t.plan /\ u.publication = t.publication
        /\ u.before = t.before /\ u.counts = d /\ u.result = "ok"
    BY <1>0, <1>3, <2>1 DEF Fields
  <2>3. CanInspect(record, c)
    <3>1. record.length = Len(c.bytes)
      BY <1>4 DEF WholeOf
    <3>q. QED  BY <1>4, <1>5, <1>17, <3>1 DEF CanInspect
  <2>4. Wanted(u, c) /\ Published(u, c)
    BY <1>4, <1>5, <2>2, <2>3 DEF Wanted, Published
  <2>5. Verdict(u, record, c, Spent(o) \/ u.fault)
    BY <1>17, <2>2, <2>3, <2>4 DEF Verdict
  <2>6. Judged(u, record, Spent(o), c)
    BY <1>5, <2>2, <2>5 DEF Judged, Sealing, Inspecting
  <2>q. QED  BY <1>1, <1>17, <2>1, <2>6 DEF Settles, Continue
<1>18. IF Spent(o) THEN Refuse(o, "Integrity")
       ELSE IF k > 0
       THEN IF v.err # "ok" THEN Refuse(o, "Integrity")
            ELSE Continue(o, [t EXCEPT !.check = v, !.fed = @ + k])
       ELSE IF d = None THEN Refuse(o, "Integrity")
       ELSE Continue(o, [t EXCEPT !.pc = "end", !.counts = d, !.result = "ok"])
  <2>1. k = Lesser(MaxChunkBytes, t.staging - t.fed)
    BY <1>5, <1>6, <1>7
  <2>2. v = FeedCheck(t.check, SubSeq(Plaintext(record), t.fed + 1, t.fed + k))
    BY <1>9, <1>10, <1>11
  <2>q. QED  BY <1>3, <1>16, <2>1, <2>2, Zenon DEF InspectFeeds
<1>q. QED  BY <1>12, <1>13, <1>14, <1>15, <1>16, <1>17, <1>18

(* Every step of a thread.                                                 *)
LEMMA WorkSettles ==
  ASSUME IInv, VInv, Captured.format = "Tar", NEW o \in Owners, Work(o)
  PROVE  Settles(o)
BY EndsSettle, OpenSettles, SealBeginsSettles, SealReadsSettles, SealFinishesSettles, SealPublishesSettles, AppendSettles,
   DecryptSettles, CompareSettles, FeedSettles DEF Work

(* A thread that takes a step works, and the step is its own.              *)
LEMMA WorkIsAlone ==
  ASSUME NEW o \in Owners, Work(o)
  PROVE  UNCHANGED <<active, own, budget, capture>> /\ Alive(o)
BY DEF Work, Begin, OpenStore, End, Panic, SealBegins, SealReads, SealFinishes, SealPublishes, SealAppends,
       SealWrites, SealReturns,
       InspectBegins, Decrypts, Compares, InspectFeeds, At, Alive

(* The judgement of every thread outlives the step of one.                 *)
LEMMA WorkKeepsVerdict ==
  ASSUME IInv, VInv, NEW o \in Owners, Work(o)
  PROVE  VInv'
<1>1. UNCHANGED <<active, own, budget, capture>> /\ Alive(o)
  BY WorkIsAlone
<1>2. DOMAIN budget' = Owners
  BY <1>1 DEF VInv
<1>3. ASSUME Captured'.format = "Tar" PROVE \A q \in Owners : Judged(thread'[q], record', Spent(q)', Captured')
  <2>0. Captured' = Captured /\ \A q \in Owners : Spent(q)' = Spent(q) /\ Spent(q) \in BOOLEAN
    BY <1>1 DEF Captured, Spent
  <2>1. Captured.format = "Tar"
    BY <1>3, <2>0
  <2>2. PICK u : thread' = [thread EXCEPT ![o] = u] /\ Judged(u, record', Spent(o), Captured)
    BY <2>1, WorkSettles DEF Settles
  <2>3. thread'[o] = u /\ \A q \in Owners : q # o => thread'[q] = thread[q]
    BY <2>2 DEF IInv, TypeOK
  <2>4. ASSUME NEW q \in Owners, q # o PROVE Judged(thread[q], record', Spent(q), Captured)
    <3>1. ~Alive(q)
      BY <1>1, <2>4 DEF IInv, SlotInv, Standing
    <3>2. thread[q].pc \in {"none", "exited"}
      BY <3>1 DEF Alive
    <3>3. Judged(thread[q], record, Spent(q), Captured)
      BY <2>1 DEF VInv
    <3>q. QED  BY <3>2, <3>3, JudgedLater, Zenon
  <2>q. QED  BY <2>0, <2>2, <2>3, <2>4
<1>q. QED  BY <1>2, <1>3 DEF VInv

(* A budget that is spent stays spent while its thread works.              *)
LEMMA OwnerKeepsVerdict ==
  ASSUME IInv, VInv, NEW o \in Owners,
         \/ (\E spent \in BOOLEAN : Claim(o, spent)) \/ Cancel(o) \/ Join(o) \/ Drop(o)
         \/ Joined(o) \/ Expire(o)
  PROVE  VInv'
<1>1. UNCHANGED <<thread, capture, record>>
  BY DEF Claim, Cancel, Join, Drop, Joined, Expire
<1>2. DOMAIN budget' = Owners /\ \A q \in Owners : Spent(q) => Spent(q)'
  <2>1. CASE UNCHANGED budget
    BY <2>1 DEF VInv, Spent
  <2>2. ASSUME NEW x \in {"late", "cancelled"}, budget' = [budget EXCEPT ![o] = x]
        PROVE  DOMAIN budget' = Owners /\ \A q \in Owners : Spent(q) => Spent(q)'
    BY <2>2 DEF VInv, Spent
  <2>q. QED  BY <2>1, <2>2 DEF Claim, Cancel, Join, Drop, Joined, Expire, cancel
<1>3. ASSUME Captured'.format = "Tar", NEW q \in Owners
      PROVE  Judged(thread'[q], record', Spent(q)', Captured')
  <2>1. Captured' = Captured
    BY <1>1 DEF Captured
  <2>2. Judged(thread[q], record, Spent(q), Captured)
    BY <1>3, <2>1 DEF VInv
  <2>3. Spent(q) \in BOOLEAN /\ (Spent(q)' = Spent(q) \/ Spent(q)' = TRUE)
    BY <1>2 DEF Spent
  <2>4. Judged(thread[q], record, TRUE, Captured)
    BY <2>2, <2>3, JudgedSpent, Zenon
  <2>q. QED  BY <1>1, <2>1, <2>2, <2>3, <2>4
<1>q. QED  BY <1>2, <1>3 DEF VInv

(* A thread that was never started, and one that was started just now,     *)
(* have nothing to be judged for.                                          *)
LEMMA FreshIsJudged ==
  ASSUME NEW t, t.pc \in {"none", "start"}, t.publication = None, t.fed = 0, NEW r, NEW s, NEW c
  PROVE  Judged(t, r, s, c)
BY BackupAssumption DEF Judged, Sealing, Inspecting

(* A new thread joins those that were judged.                              *)
LEMMA StartKeepsVerdict ==
  ASSUME IInv, VInv, NEW o \in Owners, Start(o)
  PROVE  VInv'
<1>1. UNCHANGED <<budget, capture, record>> /\ DOMAIN thread = Owners
  BY DEF Start, IInv, TypeOK
<1>2. DOMAIN budget' = Owners /\ Captured' = Captured /\ \A q \in Owners : Spent(q)' = Spent(q)
  BY <1>1 DEF VInv, Captured, Spent
<1>3. \A q \in Owners : \/ thread'[q] = thread[q]
                        \/ thread'[q].pc = "start" /\ thread'[q].publication = None /\ thread'[q].fed = 0
  <2>1. ASSUME NEW plan, Started(o, plan)
        PROVE  \A q \in Owners :
                 \/ thread'[q] = thread[q]
                 \/ thread'[q].pc = "start" /\ thread'[q].publication = None /\ thread'[q].fed = 0
    <3>1. PICK u : /\ thread' = [thread EXCEPT ![o] = u]
                   /\ u = [NoThread EXCEPT !.pc = "start", !.plan = plan, !.before = record]
      BY <2>1 DEF Started
    <3>2. u.pc = "start" /\ u.publication = None /\ u.fed = 0
      BY <3>1 DEF NoThread
    <3>q. QED  BY <1>1, <3>1, <3>2
  <2>q. QED  BY <2>1 DEF Start
<1>4. ASSUME Captured'.format = "Tar", NEW q \in Owners
      PROVE  Judged(thread'[q], record', Spent(q)', Captured')
  <2>1. CASE thread'[q] = thread[q]
    <3>1. Judged(thread[q], record, Spent(q), Captured)
      BY <1>2, <1>4 DEF VInv
    <3>q. QED  BY <1>1, <1>2, <2>1, <3>1
  <2>2. CASE thread'[q].pc = "start" /\ thread'[q].publication = None /\ thread'[q].fed = 0
    BY <2>2, FreshIsJudged
  <2>q. QED  BY <1>3, <2>1, <2>2
<1>q. QED  BY <1>2, <1>4 DEF VInv

(* The budget of the next thread is a new one; the last has exited.        *)
LEMMA FreeKeepsVerdict ==
  ASSUME IInv, VInv, NEW o \in Owners, Free(o)
  PROVE  VInv'
<1>1. /\ UNCHANGED <<capture, record>> /\ DOMAIN thread = Owners /\ own[o] = "joined"
      /\ budget' = [budget EXCEPT ![o] = "ok"]
      /\ thread' = [thread EXCEPT ![o] = IF thread[o].pc = "exited" THEN NoThread ELSE thread[o]]
  BY DEF Free, IInv, TypeOK
<1>2. DOMAIN budget' = Owners /\ Captured' = Captured
  BY <1>1 DEF VInv, Captured
<1>3. ~Alive(o)
  BY <1>1 DEF IInv, SlotInv
<1>4. ASSUME Captured'.format = "Tar", NEW q \in Owners
      PROVE  Judged(thread'[q], record', Spent(q)', Captured')
  <2>0. Judged(thread[q], record, Spent(q), Captured)
    BY <1>2, <1>4 DEF VInv
  <2>1. CASE thread'[q] = NoThread
    <3>1. NoThread.pc = "none" /\ NoThread.publication = None /\ NoThread.fed = 0
      BY DEF NoThread
    <3>q. QED  BY <2>1, <3>1, FreshIsJudged
  <2>2. CASE thread'[q] = thread[q]
    <3>1. CASE q = o
      <4>1. thread[q].pc \in {"none", "exited"}
        BY <1>3, <3>1 DEF Alive
      <4>2. PICK z : z = Spent(q)'
        OBVIOUS
      <4>3. Judged(thread[q], record, z, Captured)
        BY <2>0, <4>1, JudgedLater, Zenon
      <4>q. QED  BY <1>1, <1>2, <2>2, <4>2, <4>3
    <3>2. CASE q # o
      <4>1. Spent(q)' = Spent(q)
        BY <1>1, <3>2 DEF Spent, VInv
      <4>q. QED  BY <1>1, <1>2, <2>0, <2>2, <4>1
    <3>q. QED  BY <3>1, <3>2
  <2>q. QED  BY <1>1, <2>1, <2>2
<1>q. QED  BY <1>2, <1>4 DEF VInv

(* At the start no thread has anything to be judged for.                   *)
LEMMA InitVInv == Init => VInv
<1> SUFFICES ASSUME Init PROVE VInv
  OBVIOUS
<1>1. NoThread.pc = "none" /\ NoThread.publication = None /\ NoThread.fed = 0
  BY DEF NoThread
<1>2. DOMAIN budget = Owners /\ \A o \in Owners : thread[o] = NoThread
  BY DEF Init
<1>3. \A o \in Owners : Judged(thread[o], record, Spent(o), Captured)
  BY <1>1, <1>2, FreshIsJudged
<1>q. QED  BY <1>2, <1>3 DEF VInv

(* Every step keeps the judgement.                                         *)
LEMMA StepVInv == IInv /\ VInv /\ [Next]_vars => VInv'
<1> SUFFICES ASSUME IInv, VInv, [Next]_vars PROVE VInv'
  OBVIOUS
<1>1. CASE UNCHANGED vars
  BY <1>1 DEF vars, VInv, Captured, Spent
<1>2. ASSUME NEW o \in Owners,
             \/ (\E spent \in BOOLEAN : Claim(o, spent)) \/ Start(o) \/ Cancel(o) \/ Join(o) \/ Drop(o)
             \/ Joined(o) \/ Free(o) \/ Expire(o) \/ Work(o)
      PROVE  VInv'
  BY <1>2, OwnerKeepsVerdict, StartKeepsVerdict, FreeKeepsVerdict, WorkKeepsVerdict
<1>q. QED  BY <1>1, <1>2 DEF Next, Finished

(* What a thread knows of the store, and the judgement its validator and   *)
(* the limits allow at each of its steps, hold in every reachable state.   *)
THEOREM VerdictInvariant == Spec => [](IInv /\ VInv)
<1>1. Init => VInv
  BY InitVInv
<1>2. IInv /\ VInv /\ [Next]_vars => VInv'
  BY StepVInv
<1>q. QED  BY <1>1, <1>2, InvariantHolds, PTL DEF Spec

(* The verdict of restore_inspect and seal_capture on a tar capture, for   *)
(* captures, limits and chunks of every size and any number of owners,     *)
(* through faults, panics and spent budgets: success means a whole record  *)
(* of a well-formed archive with its exact counts; without a fault and     *)
(* with time left, a store that can be read and has no record of the       *)
(* capture gets one if and only if the capture is well formed and within   *)
(* the limits of the cipher, and the inspection succeeds if and only if    *)
(* the record is whole, well formed and within them.                       *)
THEOREM TarVerdict == Spec => [](Captured.format = "Tar" => VerdictIsExact)
<1>1. ASSUME IInv, VInv, Captured.format = "Tar" PROVE VerdictIsExact
  <2>1. PICK c : c = Captured
    OBVIOUS
  <2>2. /\ source_bytes = Len(c.bytes) /\ Whole = WholeOf(c) /\ (WellFormed(c) <=> Sound(c))
    BY <1>1, <2>1, TarFacts DEF IInv
  <2>3. c.plain = c.bytes
    BY <1>1, <2>1, BackupAssumption DEF IInv, TypeOK, Captured
  <2>4. Sealable <=> CanSeal(c)
    BY <2>1, <2>2 DEF Sealable, CanSeal
  <2>5. \A r : Inspectable(r) <=> CanInspect(r, c)
    BY <2>1, <2>2 DEF Inspectable, CanInspect
  <2>6. ASSUME NEW o \in Owners, NEW t, t = thread[o], t.pc = "exited"
        PROVE  /\ t.result = "ok" =>
                    /\ Inspectable(t.after)
                    /\ t.counts.source = source_bytes /\ t.counts.payload = Captured.size /\ t.counts.files = 1
                    /\ t.counts.expanded = Len(Captured.plain)
               /\ (~t.fault /\ t.result \notin {"Cancelled", "Deadline"}) =>
                    IF t.plan = <<"inspect">> THEN t.result = "ok" <=> Inspectable(t.before)
                    ELSE /\ t.publication = "Durable" <=> Sealable /\ t.before = None
                         /\ t.result = "ok" <=> Sealable /\ t.before = None /\ Inspectable(Whole)
               /\ t.publication = "Durable" => Sealable
    <3>1. /\ t.publication = "Durable" => CanSeal(c)
          /\ Verdict(t, t.after, c, t.fault \/ t.result \in {"Cancelled", "Deadline"})
      BY <1>1, <2>1, <2>6 DEF VInv, Judged
    <3>2. /\ t.result = "ok" => CanInspect(t.after, c) /\ Exact(t.counts, c)
          /\ (t.fault \/ t.result \in {"Cancelled", "Deadline"}) \/ (Published(t, c) /\ (t.result = "ok" <=> Wanted(t, c)))
      BY <3>1 DEF Verdict
    <3>3. Exact(t.counts, c) =>
            /\ t.counts.source = source_bytes /\ t.counts.payload = Captured.size /\ t.counts.files = 1
            /\ t.counts.expanded = Len(Captured.plain)
      BY <2>1, <2>2, <2>3 DEF Exact
    <3>4. /\ Wanted(t, c) <=>
               IF t.plan = <<"inspect">> THEN Inspectable(t.before)
               ELSE Sealable /\ t.before = None /\ Inspectable(Whole)
          /\ Published(t, c) /\ t.plan # <<"inspect">> =>
               (t.publication = "Durable" <=> Sealable /\ t.before = None)
      BY <2>2, <2>4, <2>5 DEF Wanted, Published
    <3>q. QED  BY <2>4, <2>5, <3>1, <3>2, <3>3, <3>4
  <2>q. QED  BY <2>6 DEF VerdictIsExact
<1>q. QED  BY <1>1, VerdictInvariant, PTL
=============================================================================
