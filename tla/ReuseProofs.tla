------------------------------ MODULE ReuseProofs ------------------------------
(***************************************************************************)
(* Theorems about the reuse of results: for any requests, commands, edits, *)
(* deletions and crashes.                                                  *)
(***************************************************************************)
EXTENDS WorkReuse, FiniteSetTheorems, TLAPS

(***************************************************************************)
(* The invariant.                                                          *)
(***************************************************************************)
Locked == {"locked", "lookup", "hit", "leader", "running", "finalize"}
Keyed  == {"pruning", "pruned", "entering", "locking"} \cup Locked
Places == {"new", "keyless", "bare", "barerun", "orphan", "done", "reused", "dead"} \cup Keyed

Digests  == Commands \X (Requests \cup {None}) \X Nat
Written  == [by : Requests, cmd : Commands, of : SUBSET Nat]
Receipts == [name : Digests, src : Nat, out : Written \cup {None}, fresh : BOOLEAN,
             begun : SUBSET Requests, by : Requests, of : SUBSET Nat]

Typed ==
    /\ src \in Nat \ {0} /\ edits \in 0..MaxEdits /\ meddled \in 0..MaxMeddling
    /\ out \in Written \cup {None}
    /\ keyFile \in Requests \cup {None} /\ key \in [Requests -> Requests \cup {None}]
    /\ receipts \subseteq Receipts /\ \A r, s \in receipts : r.name = s.name => r = s
    /\ at \in [Requests -> Places] /\ cmd \in [Requests -> Commands]
    /\ found \in [Requests -> [lock : Nat, exec : Nat]]
    /\ attempt \in [Requests -> 0..MaxAttempts]
    /\ \A p \in Requests : attempt[p] < MaxAttempts \/ at[p] = "done"
    /\ held \in [Requests -> Digests \cup {NoName}] /\ begun \subseteq Requests
    /\ reads \in [Requests -> [n : Nat, of : SUBSET Nat]] /\ DOMAIN vouched = Requests

\* Whoever is past the lock holds it under its name, and all have read one key.
OneHolder ==
    /\ \A p \in Requests : /\ at[p] \in Keyed => key[p] = keyFile /\ keyFile # None
                           /\ held[p] = IF at[p] \in Locked THEN Name(p, found[p].lock) ELSE NoName
    /\ \A p, q \in Requests : p # q /\ held[p] # NoName => held[p] # held[q]

SingleInv == Typed /\ OneHolder

\* What a command under way has read, and what the sources were before.
ReadSound(p) ==
    /\ found[p].lock <= src /\ found[p].exec <= src
    /\ at[p] \notin Running \cup {"finalize", "done", "dead"} => reads[p].of = {}
    /\ at[p] \in {"running", "finalize"} /\ found[p].exec # 0 =>
          \A s \in reads[p].of : found[p].exec <= s /\ s <= src
    /\ at[p] = "finalize" => reads[p].of # {}

\* The output is what the last writer read.
OutputSound ==
    out # None => /\ at[out.by] \in {"finalize", "done", "dead"}
                  /\ out.of = reads[out.by].of /\ out.cmd = cmd[out.by]

ReceiptSound(r) ==
    /\ r.of = {r.src} /\ r.name[1] = cmd[r.by]
    /\ r.out # None /\ r.out.by = r.by => r.out.of = r.of /\ r.out.cmd = cmd[r.by]

\* A hit is a sound receipt for the sources the request has found.
HitSound(p) ==
    at[p] \in {"hit", "reused"} => \A v \in vouched[p] :
        /\ v[1].of = {found[p].lock}
        /\ cmd[p] \in Output /\ v[1].out.by = v[1].by =>
              v[2] # None /\ v[2].cmd = cmd[p] /\ v[2].of = {found[p].lock}

ExactInv == /\ \A p \in Requests : ReadSound(p) /\ HitSound(p)
            /\ OutputSound
            /\ \A r \in receipts : ReceiptSound(r)

(***************************************************************************)
(* Names, and the place a request has.                                     *)
(***************************************************************************)
LEMMA NameTyped ==
    ASSUME Typed, NEW p \in Requests, NEW s \in Nat
    PROVE  Name(p, s) \in Digests /\ Name(p, s) # NoName /\ Name(p, s)[1] = cmd[p]
<1>1. cmd[p] \in Commands /\ key[p] \in Requests \cup {None}
  BY DEF Typed
<1>2. Name(p, s) = <<cmd[p], key[p], 0>> \/ Name(p, s) = <<cmd[p], key[p], s>>
  BY DEF Name, ExpressReusePath, WorkReusePath
<1>. QED BY <1>1, <1>2 DEF Digests, NoName

\* A request moves itself only.
LEMMA OthersStay ==
    ASSUME Typed, NEW p \in Requests, Request(p) \/ Crash(p)
    PROVE  /\ UNCHANGED <<src, edits, meddled, cmd>>
           /\ \A q \in Requests \ {p} :
                 /\ at'[q] = at[q] /\ key'[q] = key[q] /\ found'[q] = found[q] /\ attempt'[q] = attempt[q]
                 /\ held'[q] = held[q] /\ reads'[q] = reads[q] /\ vouched'[q] = vouched[q]
           /\ DOMAIN vouched' = Requests
BY DEF Typed, Request, Crash, Begin, ReadOrCreateWorkReuseKey, PruneRead, PruneRemove, Enter, AcquireLock,
       LockTimeout, SnapshotExpressSource, RefingerprintBatch, LookUp, ReuseHit, RunRefused, Prepare,
       ChildStep, ChildFails, Finalize, FinalizeFails, Goto, Keep, Leave, World, Mine, Files

LEMMA PlaceTyped ==
    ASSUME Typed, NEW p \in Requests, Request(p) \/ Crash(p)
    PROVE  at' \in [Requests -> Places]
<1>1. \E l \in Places : at' = [at EXCEPT ![p] = l] \/ UNCHANGED at
  BY DEF Request, Crash, Begin, ReadOrCreateWorkReuseKey, PruneRead, PruneRemove, Enter, AcquireLock,
       LockTimeout, SnapshotExpressSource, RefingerprintBatch, LookUp, ReuseHit, RunRefused, Prepare,
       ChildStep, ChildFails, Finalize, FinalizeFails, Goto, Leave, Places, Keyed, Locked, Running
<1>. QED BY <1>1 DEF Typed

LEMMA KeyTyped ==
    ASSUME Typed, OneHolder, NEW p \in Requests, Request(p) \/ Crash(p)
    PROVE  /\ keyFile' \in Requests \cup {None} /\ key' \in [Requests -> Requests \cup {None}]
           /\ keyFile # None => keyFile' = keyFile
           /\ at'[p] \in Keyed => key'[p] = keyFile' /\ keyFile' # None
           /\ at[p] \in Keyed => key'[p] = key[p]
<1>. USE NoneAssumption DEF Typed, OneHolder
<1>1. CASE Begin(p)
  BY <1>1 DEF Begin, Goto, Files, Keyed, Locked
<1>2. CASE ReadOrCreateWorkReuseKey(p)
  BY <1>2 DEF ReadOrCreateWorkReuseKey, Goto, Keyed, Locked
<1>3. CASE UNCHANGED <<key, keyFile>> /\ (at[p] \in Keyed \/ at'[p] \notin Keyed)
  BY <1>3
<1>4. CASE PruneRead(p) \/ PruneRemove(p) \/ Enter(p) \/ AcquireLock(p) \/ LockTimeout(p)
  BY <1>3, <1>4 DEF PruneRead, PruneRemove, Enter, AcquireLock, LockTimeout, Mine, Files, Keyed, Locked
<1>5. CASE SnapshotExpressSource(p) \/ RefingerprintBatch(p) \/ LookUp(p) \/ ReuseHit(p)
  BY <1>3, <1>5 DEF SnapshotExpressSource, RefingerprintBatch, LookUp, ReuseHit, Mine, Files, Keyed, Locked
<1>6. CASE RunRefused(p) \/ Prepare(p) \/ ChildStep(p) \/ ChildFails(p) \/ Finalize(p) \/ FinalizeFails(p)
           \/ Crash(p)
  <2>1. at[p] \in Keyed \/ at'[p] \notin Keyed
    BY <1>6 DEF RunRefused, Prepare, ChildStep, ChildFails, Finalize, FinalizeFails, Crash, Goto, Leave,
                Keyed, Locked, Running
  <2>. QED BY <1>3, <1>6, <2>1 DEF RunRefused, Prepare, ChildStep, ChildFails, Finalize, FinalizeFails, Crash,
                Mine, Files
<1>. QED BY <1>1, <1>2, <1>4, <1>5, <1>6 DEF Request

\* What it finds, how often it tries, and what its command reads.
LEMMA FoundTyped ==
    ASSUME Typed, NEW p \in Requests, Request(p) \/ Crash(p)
    PROVE  /\ found' \in [Requests -> [lock : Nat, exec : Nat]]
           /\ reads' \in [Requests -> [n : Nat, of : SUBSET Nat]]
           /\ begun' \subseteq Requests
           /\ out' \in Written \cup {None}
<1>. USE DEF Typed
<1>1. found' \in [Requests -> [lock : Nat, exec : Nat]]
  <2>1. UNCHANGED found \/ \E f \in [lock : Nat, exec : Nat] : found' = [found EXCEPT ![p] = f]
    BY DEF Request, Crash, Begin, ReadOrCreateWorkReuseKey, PruneRead, PruneRemove, Enter, AcquireLock,
       LockTimeout, SnapshotExpressSource, RefingerprintBatch, LookUp, ReuseHit, RunRefused, Prepare,
       ChildStep, ChildFails, Finalize, FinalizeFails
  <2>. QED BY <2>1
<1>2. CASE ChildStep(p)
  <2>. DEFINE r == [n |-> Times(p) + 1, of |-> reads[p].of \cup {src}]
  <2>1. r \in [n : Nat, of : SUBSET Nat] /\ reads' = [reads EXCEPT ![p] = r]
    BY <1>2 DEF ChildStep, Times
  <2>2. reads[p].of \cup {src} \subseteq Nat
    OBVIOUS
  <2>3. [by |-> p, cmd |-> cmd[p], of |-> reads[p].of \cup {src}] \in Written
    BY <2>2 DEF Written
  <2>4. out' \in Written \cup {None}
    BY <1>2, <2>3 DEF ChildStep
  <2>. HIDE DEF r
  <2>5. reads' \in [Requests -> [n : Nat, of : SUBSET Nat]]
    BY <2>1
  <2>. QED BY <1>1, <1>2, <2>4, <2>5 DEF ChildStep, Mine
<1>3. CASE ~ChildStep(p)
  <2>1. UNCHANGED <<reads, out>> /\ begun' \in {begun, begun \cup {p}}
    BY <1>3 DEF Request, Crash, Begin, ReadOrCreateWorkReuseKey, PruneRead, PruneRemove, Enter, AcquireLock,
       LockTimeout, SnapshotExpressSource, RefingerprintBatch, LookUp, ReuseHit, RunRefused, Prepare,
       ChildFails, Finalize, FinalizeFails, World, Mine
  <2>. QED BY <1>1, <2>1
<1>. QED BY <1>2, <1>3

LEMMA AttemptTyped ==
    ASSUME Typed, NEW p \in Requests, Request(p) \/ Crash(p)
    PROVE  /\ attempt' \in [Requests -> 0..MaxAttempts]
           /\ attempt'[p] < MaxAttempts \/ at'[p] = "done"
<1>. USE DEF Typed, MaxAttempts
<1>0. at[p] # "done"
  BY DEF Request, Crash, Begin, ReadOrCreateWorkReuseKey, PruneRead, PruneRemove, Enter, AcquireLock,
       LockTimeout, SnapshotExpressSource, RefingerprintBatch, LookUp, ReuseHit, RunRefused, Prepare,
       ChildStep, ChildFails, Finalize, FinalizeFails, Running
<1>1. CASE UNCHANGED attempt
  BY <1>0, <1>1
<1>2. CASE RefingerprintBatch(p) /\ ~UNCHANGED attempt
  <2>1. attempt' = [attempt EXCEPT ![p] = @ + 1] /\ Leave(p, IF attempt'[p] = MaxAttempts THEN "done" ELSE "entering")
    BY <1>2 DEF RefingerprintBatch
  <2>2. attempt[p] \in 0..2 /\ attempt[p] + 1 \in 0..3
    BY <1>0
  <2>. QED BY <2>1, <2>2 DEF Leave, Goto
<1>3. RefingerprintBatch(p) \/ UNCHANGED attempt
  BY DEF Request, Crash, Begin, ReadOrCreateWorkReuseKey, PruneRead, PruneRemove, Enter, AcquireLock,
       LockTimeout, SnapshotExpressSource, LookUp, ReuseHit, RunRefused, Prepare,
       ChildStep, ChildFails, Finalize, FinalizeFails
<1>. QED BY <1>1, <1>2, <1>3

\* The lock is taken, given back, or kept under its name.
LEMMA HeldMoves ==
    ASSUME Typed, NEW p \in Requests, Request(p) \/ Crash(p)
    PROVE  \/ AcquireLock(p)
           \/ \E l \in Places \ Locked : Leave(p, l)
           \/ /\ UNCHANGED held /\ (at[p] \in Locked <=> at'[p] \in Locked)
              /\ at[p] \in Locked => found'[p].lock = found[p].lock \/ IsExpress(p)
<1>. USE DEF Typed, Places, Keyed, Locked, Goto
<1>1. CASE Begin(p) \/ ReadOrCreateWorkReuseKey(p) \/ PruneRead(p) \/ PruneRemove(p) \/ Enter(p)
  <2>1. UNCHANGED held /\ at[p] \notin Locked /\ at'[p] \notin Locked
    BY <1>1 DEF Begin, ReadOrCreateWorkReuseKey, PruneRead, PruneRemove, Enter
  <2>. QED BY <2>1
<1>2. CASE LockTimeout(p)
  BY <1>2 DEF LockTimeout
<1>3. CASE SnapshotExpressSource(p)
  BY <1>3 DEF SnapshotExpressSource
<1>4. CASE RefingerprintBatch(p)
  BY <1>4 DEF RefingerprintBatch
<1>5. CASE LookUp(p) \/ ReuseHit(p)
  BY <1>5 DEF LookUp, ReuseHit
<1>6. CASE Prepare(p)
  <2>1. PICK s \in Nat \cup {src} : found' = [found EXCEPT ![p].exec = s]
    BY <1>6 DEF Prepare
  <2>2. found'[p].lock = found[p].lock
    BY <2>1
  <2>. QED BY <1>6, <2>2 DEF Prepare
<1>7. CASE ChildStep(p)
  BY <1>7 DEF ChildStep, Running
<1>8. CASE RunRefused(p) \/ ChildFails(p) \/ Finalize(p) \/ FinalizeFails(p) \/ Crash(p)
  BY <1>8 DEF RunRefused, ChildFails, Finalize, FinalizeFails, Crash
<1>. QED BY <1>1, <1>2, <1>3, <1>4, <1>5, <1>6, <1>7, <1>8 DEF Request

LEMMA HeldStep ==
    ASSUME Typed, OneHolder, NEW p \in Requests, Request(p) \/ Crash(p)
    PROVE  held' \in [Requests -> Digests \cup {NoName}] /\ OneHolder'
<1>0. /\ \A q \in Requests \ {p} : /\ at'[q] = at[q] /\ key'[q] = key[q] /\ found'[q] = found[q]
                                   /\ held'[q] = held[q]
      /\ UNCHANGED cmd /\ at' \in [Requests -> Places]
  BY OthersStay, PlaceTyped
<1>1. /\ \A q \in Requests \ {p} : at'[q] \in Keyed => key'[q] = keyFile' /\ keyFile' # None
      /\ at'[p] \in Keyed => key'[p] = keyFile' /\ keyFile' # None
      /\ at[p] \in Keyed => key'[p] = key[p]
  BY <1>0, KeyTyped DEF OneHolder
<1>2. \A q \in Requests \ {p} : held'[q] = IF at'[q] \in Locked THEN Name(q, found[q].lock)' ELSE NoName
  BY <1>0 DEF OneHolder, Name, IsExpress, ExpressReusePath, WorkReusePath
<1>3. CASE AcquireLock(p)
  <2>. DEFINE n == Name(p, found[p].lock)
  <2>1. /\ held' = [held EXCEPT ![p] = n] /\ at'[p] = "locked" /\ at[p] = "locking"
        /\ UNCHANGED found /\ \A q \in Requests : held[q] # n
    BY <1>3 DEF AcquireLock, Keep, Goto, Unlocked, Typed
  <2>2. n \in Digests /\ Name(p, found[p].lock)' = n
    <3>1. found[p].lock \in Nat
      BY DEF Typed
    <3>. QED BY <1>0, <1>1, <2>1, <3>1, NameTyped DEF Name, IsExpress, ExpressReusePath, WorkReusePath, Keyed
  <2>. HIDE DEF n
  <2>3. held'[p] = n /\ held' \in [Requests -> Digests \cup {NoName}]
    BY <2>1, <2>2 DEF Typed
  <2>4. held'[p] = IF at'[p] \in Locked THEN Name(p, found[p].lock)' ELSE NoName
    BY <2>1, <2>2, <2>3 DEF Locked
  <2>5. \A q, r \in Requests : q # r /\ held'[q] # NoName => held'[q] # held'[r]
    BY <1>0, <2>1, <2>3 DEF OneHolder
  <2>. QED BY <1>1, <1>2, <2>3, <2>4, <2>5 DEF OneHolder
<1>4. ASSUME NEW l \in Places \ Locked, Leave(p, l)
      PROVE  held' \in [Requests -> Digests \cup {NoName}] /\ OneHolder'
  <2>1. held'[p] = NoName /\ at'[p] = l /\ held' \in [Requests -> Digests \cup {NoName}]
    BY <1>4 DEF Leave, Goto, Keep, Typed
  <2>2. \A q, r \in Requests : q # r /\ held'[q] # NoName => held'[q] # held'[r]
    BY <1>0, <2>1 DEF OneHolder
  <2>3. held'[p] = IF at'[p] \in Locked THEN Name(p, found[p].lock)' ELSE NoName
    BY <1>4, <2>1
  <2>. QED BY <1>1, <1>2, <2>1, <2>2, <2>3 DEF OneHolder
<1>5. CASE /\ UNCHANGED held /\ (at[p] \in Locked <=> at'[p] \in Locked)
           /\ at[p] \in Locked => found'[p].lock = found[p].lock \/ IsExpress(p)
  <2>1. at[p] \in Locked => Name(p, found[p].lock)' = Name(p, found[p].lock)
    BY <1>0, <1>1, <1>5 DEF Name, IsExpress, ExpressReusePath, WorkReusePath, Keyed
  <2>2. held'[p] = IF at'[p] \in Locked THEN Name(p, found[p].lock)' ELSE NoName
    BY <1>5, <2>1 DEF OneHolder
  <2>. QED BY <1>1, <1>2, <1>5, <2>2 DEF OneHolder, Typed
<1>. QED BY <1>3, <1>4, <1>5, HeldMoves

\* The receipts: one is written, or some are removed.
LEMMA ReceiptMoves ==
    ASSUME Typed, NEW p \in Requests, Request(p) \/ Crash(p)
    PROVE  \/ receipts' \subseteq receipts
           \/ /\ Finalize(p) /\ Publishable(p)
              /\ receipts' = {r \in receipts : r.name # Name(p, src)} \cup {Receipt(p)}
BY DEF Request, Crash, Begin, ReadOrCreateWorkReuseKey, PruneRead, PruneRemove, Enter, AcquireLock,
       LockTimeout, SnapshotExpressSource, RefingerprintBatch, LookUp, ReuseHit, RunRefused, Prepare,
       ChildStep, ChildFails, Finalize, FinalizeFails, Files

LEMMA ReceiptTyped ==
    ASSUME Typed, NEW p \in Requests
    PROVE  /\ Receipt(p) \in Receipts
           /\ Receipt(p).name = Name(p, src) /\ Receipt(p).src = src /\ Receipt(p).by = p
           /\ Receipt(p).of = reads[p].of /\ Receipt(p).out = IF cmd[p] \in Output THEN out ELSE None
<1>1. Name(p, src) \in Digests
  BY NameTyped DEF Typed
<1>2. /\ src \in Nat /\ begun \subseteq Requests /\ reads[p].of \subseteq Nat
      /\ (IF cmd[p] \in Output THEN out ELSE None) \in Written \cup {None}
  BY DEF Typed
<1>. QED BY <1>1, <1>2 DEF Receipt, Receipts

LEMMA ReceiptsStep ==
    ASSUME Typed, NEW p \in Requests, Request(p) \/ Crash(p)
    PROVE  receipts' \subseteq Receipts /\ \A r, s \in receipts' : r.name = s.name => r = s
<1>1. CASE receipts' \subseteq receipts
  BY <1>1 DEF Typed
<1>2. CASE receipts' = {r \in receipts : r.name # Name(p, src)} \cup {Receipt(p)}
  <2>1. Receipt(p) \in Receipts /\ Receipt(p).name = Name(p, src)
    BY ReceiptTyped
  <2>. QED BY <1>2, <2>1 DEF Typed
<1>. QED BY <1>1, <1>2, ReceiptMoves

(***************************************************************************)
(* One request at a time.                                                  *)
(***************************************************************************)
LEMMA WorldStep ==
    ASSUME SingleInv, Edit \/ DeleteOutput \/ ReceiptExpires \/ UNCHANGED vars
    PROVE  SingleInv'
<1>. USE DEF SingleInv
<1>1. UNCHANGED <<keyFile, at, cmd, key, found, attempt, held, reads, begun, vouched>>
  BY DEF Edit, DeleteOutput, ReceiptExpires, vars, Mine, Files
<1>2. OneHolder'
  BY <1>1 DEF OneHolder, Name, IsExpress, ExpressReusePath, WorkReusePath
<1>3. src' \in Nat \ {0} /\ edits' \in 0..MaxEdits /\ meddled' \in 0..MaxMeddling /\ out' \in Written \cup {None}
  <2>1. \A s \in Sources : s \in Nat \ {0}
    BY ReuseAssumption, FS_CardinalityType
  <2>2. MaxEdits \in Nat /\ MaxMeddling \in Nat
    BY ReuseAssumption
  <2>. QED BY <2>1, <2>2 DEF Edit, DeleteOutput, ReceiptExpires, vars, Typed
<1>4. receipts' \subseteq Receipts /\ \A r, s \in receipts' : r.name = s.name => r = s
  <2>1. CASE UNCHANGED receipts
    BY <2>1 DEF Typed
  <2>2. CASE ReceiptExpires
    <3>1. PICK r \in receipts : receipts' = (receipts \ {r}) \cup {[r EXCEPT !.fresh = FALSE]}
      BY <2>2 DEF ReceiptExpires
    <3>2. r \in Receipts
      BY DEF Typed
    <3>. DEFINE e == [r EXCEPT !.fresh = FALSE]
    <3>3. e \in Receipts /\ e.name = r.name
      BY <3>2 DEF Receipts
    <3>. HIDE DEF e
    <3>. QED BY <3>1, <3>3 DEF Typed, e
  <2>. QED BY <2>1, <2>2 DEF Edit, DeleteOutput, Files, vars
<1>. QED BY <1>1, <1>2, <1>3, <1>4 DEF Typed

LEMMA SingleStep == SingleInv /\ [Next]_vars => SingleInv'
<1>. SUFFICES ASSUME SingleInv, [Next]_vars PROVE SingleInv'
  OBVIOUS
<1>. USE DEF SingleInv
<1>1. ASSUME NEW p \in Requests, Request(p) \/ Crash(p) PROVE SingleInv'
  <2>1. OneHolder' /\ held' \in [Requests -> Digests \cup {NoName}]
    BY <1>1, HeldStep
  <2>2. \A q \in Requests : attempt'[q] < MaxAttempts \/ at'[q] = "done"
    BY <1>1, OthersStay, AttemptTyped DEF Typed
  <2>3. /\ UNCHANGED <<src, edits, meddled, cmd>> /\ DOMAIN vouched' = Requests
        /\ at' \in [Requests -> Places] /\ attempt' \in [Requests -> 0..MaxAttempts]
    BY <1>1, OthersStay, PlaceTyped, AttemptTyped
  <2>4. /\ found' \in [Requests -> [lock : Nat, exec : Nat]] /\ reads' \in [Requests -> [n : Nat, of : SUBSET Nat]]
        /\ begun' \subseteq Requests /\ out' \in Written \cup {None}
        /\ keyFile' \in Requests \cup {None} /\ key' \in [Requests -> Requests \cup {None}]
        /\ receipts' \subseteq Receipts /\ \A r, s \in receipts' : r.name = s.name => r = s
    BY <1>1, FoundTyped, KeyTyped, ReceiptsStep
  <2>. QED BY <2>1, <2>2, <2>3, <2>4 DEF Typed
<1>. QED BY <1>1, WorldStep DEF Next, Over

LEMMA SingleInit == Init => SingleInv
<1>. SUFFICES ASSUME Init PROVE SingleInv
  OBVIOUS
<1>1. cmd \in [Requests -> Commands] /\ MaxEdits \in Nat /\ MaxMeddling \in Nat
  BY ReuseAssumption DEF Init
<1>2. Typed
  BY <1>1 DEF Init, Typed, Places, MaxAttempts, NoRequest
<1>. QED BY <1>2 DEF Init, SingleInv, OneHolder, Keyed, Locked

\* Requests for one command never run it at the same time under the lock, whoever made the
\* key, whatever was removed, edited or killed meanwhile: the lock of RunWorkBatch and
\* RunWorkCommandWithExpressReuse is singleflight for any number of requests.
THEOREM SingleFlight == Spec => []OneLeader
<1>1. ASSUME SingleInv PROVE OneLeader
  <2>. USE <1>1 DEF SingleInv
  <2>1. TypeOK
    <3>1. \A r \in receipts : r.of \subseteq Nat /\ r.begun \subseteq Requests
      BY DEF Typed, Receipts
    <3>. QED BY <3>1 DEF Typed, TypeOK
  <2>2. ASSUME NEW p \in Requests, NEW q \in Requests, p # q, Leading(p), Leading(q), cmd[p] = cmd[q],
               IsExpress(p) \/ found[p].lock = found[q].lock
        PROVE  FALSE
    <3>1. at[p] \in Locked /\ at[q] \in Locked
      BY <2>2 DEF Leading, Locked
    <3>2. /\ key[p] = key[q] /\ held[p] = Name(p, found[p].lock) /\ held[q] = Name(q, found[q].lock)
      BY <3>1 DEF OneHolder, Keyed
    <3>3. held[p] = held[q]
      BY <2>2, <3>2 DEF Name, IsExpress, ExpressReusePath, WorkReusePath
    <3>4. held[p] # NoName
      BY <3>2, NameTyped DEF Typed
    <3>. QED BY <2>2, <3>3, <3>4 DEF OneHolder
  <2>. QED BY <2>1, <2>2 DEF OneLeader
<1>. QED BY <1>1, SingleInit, SingleStep, PTL DEF Spec

(***************************************************************************)
(* What a result stands for.                                               *)
(***************************************************************************)
\* What a request has found and read, and where it goes with it.
LEMMA ReadStep ==
    ASSUME Typed, NEW p \in Requests, ReadSound(p), Request(p) \/ Crash(p)
    PROVE  ReadSound(p)'
<1>. USE DEF ReadSound, Running
<1>0. UNCHANGED <<src, cmd>> /\ src \in Nat
  BY OthersStay DEF Typed
<1>1. CASE Enter(p)
  BY <1>0, <1>1 DEF Enter, Goto, Typed
<1>2. CASE SnapshotExpressSource(p)
  BY <1>0, <1>2 DEF SnapshotExpressSource, Goto, Leave, Typed
<1>3. CASE Prepare(p)
  <2>1. PICK s : found' = [found EXCEPT ![p].exec = s] /\ s \in {0, src, found[p].lock}
    BY <1>3 DEF Prepare
  <2>2. found'[p].lock = found[p].lock /\ found'[p].exec <= src
    BY <1>0, <2>1 DEF Typed
  <2>. QED BY <1>0, <1>3, <2>2 DEF Prepare, Goto, Typed
<1>4. CASE ChildStep(p)
  <2>1. UNCHANGED found /\ reads'[p].of = reads[p].of \cup {src}
    BY <1>4 DEF ChildStep, Typed
  <2>2. at'[p] \in Running \cup {"finalize", "done", "dead"}
    BY <1>4 DEF ChildStep, Goto, Typed
  <2>3. at'[p] \in {"running", "finalize"} => at[p] = "running"
    BY <1>4 DEF ChildStep, Goto, Typed
  <2>4. at[p] = "running" /\ found[p].exec # 0 => \A s \in reads[p].of \cup {src} : found[p].exec <= s /\ s <= src
    BY <1>0
  <2>. QED BY <1>0, <2>1, <2>2, <2>3, <2>4
<1>5. CASE /\ UNCHANGED <<found, reads>>
           /\ at'[p] \notin {"running", "finalize"} /\ (at[p] \in Running \cup {"finalize", "done", "dead"}
                 => at'[p] \in Running \cup {"finalize", "done", "dead"})
  BY <1>0, <1>5
<1>6. CASE \/ Begin(p) \/ ReadOrCreateWorkReuseKey(p) \/ PruneRead(p) \/ PruneRemove(p) \/ AcquireLock(p)
           \/ LockTimeout(p) \/ RefingerprintBatch(p) \/ LookUp(p) \/ ReuseHit(p)
  BY <1>5, <1>6 DEF Typed, Begin, ReadOrCreateWorkReuseKey, PruneRead, PruneRemove, AcquireLock, LockTimeout,
                    RefingerprintBatch, LookUp, ReuseHit, Goto, Leave
<1>7. CASE RunRefused(p) \/ ChildFails(p) \/ Finalize(p) \/ FinalizeFails(p) \/ Crash(p)
  BY <1>5, <1>7 DEF Typed, RunRefused, ChildFails, Finalize, FinalizeFails, Crash, Goto, Leave
<1>. QED BY <1>1, <1>2, <1>3, <1>4, <1>6, <1>7 DEF Request

\* The output is the one of the process that wrote it last.
LEMMA OutputStep ==
    ASSUME Typed, OutputSound, NEW p \in Requests, Request(p) \/ Crash(p)
    PROVE  OutputSound'
<1>. USE DEF OutputSound
<1>0. /\ UNCHANGED cmd
      /\ out # None => out.by \in Requests
      /\ \A q \in Requests \ {p} : at'[q] = at[q] /\ reads'[q] = reads[q]
  BY OthersStay DEF Typed, Written
<1>1. CASE ChildStep(p)
  <2>1. CASE UNCHANGED out
    <3>1. out # None => out.by # p
      BY <1>0, <1>1 DEF ChildStep, Running
    <3>. QED BY <1>0, <2>1, <3>1
  <2>2. CASE ~UNCHANGED out
    <3>1. out' = [by |-> p, cmd |-> cmd[p], of |-> reads[p].of \cup {src}]
      BY <1>1, <2>2 DEF ChildStep
    <3>2. reads'[p].of = reads[p].of \cup {src} /\ at'[p] \in {"finalize", "done", "dead"}
      BY <1>1, <2>2 DEF ChildStep, Goto, Typed, Running
    <3>. QED BY <1>0, <3>1, <3>2
  <2>. QED BY <2>1, <2>2
<1>2. CASE ~ChildStep(p)
  <2>1. UNCHANGED <<reads, out>>
    BY <1>2 DEF Request, Crash, Begin, ReadOrCreateWorkReuseKey, PruneRead, PruneRemove, Enter, AcquireLock,
       LockTimeout, SnapshotExpressSource, RefingerprintBatch, LookUp, ReuseHit, RunRefused, Prepare,
       ChildFails, Finalize, FinalizeFails, World
  <2>2. at[p] \in {"finalize", "done", "dead"} => at'[p] \in {"finalize", "done", "dead"}
    BY <1>2 DEF Typed, Request, Crash, Begin, ReadOrCreateWorkReuseKey, PruneRead, PruneRemove, Enter, AcquireLock,
       LockTimeout, SnapshotExpressSource, RefingerprintBatch, LookUp, ReuseHit, RunRefused, Prepare,
       ChildFails, Finalize, FinalizeFails, Goto, Leave, Running
  <2>. QED BY <1>0, <2>1, <2>2
<1>. QED BY <1>1, <1>2

\* Publishing compares the sources with those of the start of the command: it read nothing else.
LEMMA ReceiptStep ==
    ASSUME Typed, OutputSound, \A q \in Requests : ReadSound(q), \A r \in receipts : ReceiptSound(r),
           NEW p \in Requests, Request(p) \/ Crash(p)
    PROVE  \A r \in receipts' : ReceiptSound(r)'
<1>1. \A r : ReceiptSound(r)' <=> ReceiptSound(r)
  BY OthersStay DEF ReceiptSound
<1>2. CASE Finalize(p) /\ Publishable(p)
  <2>1. found[p].exec # 0 /\ src = found[p].exec /\ at[p] = "finalize" /\ src \in Nat /\ reads[p].of \subseteq Nat
    BY <1>2 DEF Finalize, Publishable, Typed
  <2>2. reads[p].of = {src}
    <3>1. /\ reads[p].of # {} /\ \A s \in reads[p].of : src <= s /\ s <= src
      BY <2>1 DEF ReadSound
    <3>. QED BY <2>1, <3>1
  <2>3. Name(p, src)[1] = cmd[p]
    BY <2>1, NameTyped
  <2>4. ReceiptSound(Receipt(p))
    <3>1. /\ Receipt(p).name = Name(p, src) /\ Receipt(p).src = src /\ Receipt(p).by = p
          /\ Receipt(p).of = reads[p].of /\ Receipt(p).out = IF cmd[p] \in Output THEN out ELSE None
      BY ReceiptTyped
    <3>2. Receipt(p).out # None => Receipt(p).out = out
      BY <3>1
    <3>. QED BY <2>2, <2>3, <3>1, <3>2 DEF ReceiptSound, OutputSound
  <2>. QED BY <1>1, <2>4, ReceiptMoves
<1>. QED BY <1>1, <1>2, ReceiptMoves

\* A hit finds its own command's receipt, for the sources and the output that are there.
LEMMA HitStep ==
    ASSUME Typed, \A r \in receipts : ReceiptSound(r), NEW p \in Requests, HitSound(p), Request(p) \/ Crash(p)
    PROVE  HitSound(p)'
<1>. USE DEF HitSound
<1>0. UNCHANGED cmd
  BY OthersStay
<1>1. CASE LookUp(p) /\ at'[p] \in {"hit", "reused"}
  <2>. DEFINE own == {r \in receipts : r.name = Name(p, found[p].lock)}
              hit == {r \in own : Usable(p, r) /\ ~TooEarly(p, r)}
  <2>1. vouched' = [vouched EXCEPT ![p] = {<<r, out>> : r \in hit}] /\ UNCHANGED found
    BY <1>1 DEF LookUp, Leave, Goto, Typed
  <2>2. Name(p, found[p].lock)[1] = cmd[p]
    <3>1. found[p].lock \in Nat
      BY DEF Typed
    <3>. QED BY <3>1, NameTyped
  <2>3. ASSUME NEW r \in hit
        PROVE  /\ r.of = {found[p].lock}
               /\ cmd[p] \in Output /\ r.out.by = r.by => out # None /\ out.cmd = cmd[p] /\ out.of = {found[p].lock}
    BY <2>2 DEF ReceiptSound, Usable
  <2>4. vouched'[p] = {<<r, out>> : r \in hit}
    BY <2>1 DEF Typed
  <2>. HIDE DEF hit
  <2>. QED BY <1>0, <2>1, <2>3, <2>4
<1>2. CASE ReuseHit(p) /\ at'[p] \in {"hit", "reused"}
  <2>1. UNCHANGED <<vouched, found>> /\ at[p] = "hit"
    BY <1>2 DEF ReuseHit, Leave, Goto, Typed
  <2>. QED BY <1>0, <2>1
<1>3. at'[p] \in {"hit", "reused"} => LookUp(p) \/ ReuseHit(p)
  BY DEF Typed, Request, Crash, Begin, ReadOrCreateWorkReuseKey, PruneRead, PruneRemove, Enter, AcquireLock,
       LockTimeout, SnapshotExpressSource, RefingerprintBatch, RunRefused, Prepare,
       ChildStep, ChildFails, Finalize, FinalizeFails, Goto, Leave, Running
<1>. QED BY <1>1, <1>2, <1>3

LEMMA ExactStep ==
    ASSUME Restorable = FALSE
    PROVE  SingleInv /\ ExactInv /\ [Next]_vars => ExactInv'
<1>. SUFFICES ASSUME SingleInv, ExactInv, [Next]_vars PROVE ExactInv'
  OBVIOUS
<1>. USE DEF SingleInv
<1>1. ASSUME NEW p \in Requests, Request(p) \/ Crash(p) PROVE ExactInv'
  <2>0. /\ \A q \in Requests : ReadSound(q) /\ HitSound(q)
        /\ OutputSound /\ \A r \in receipts : ReceiptSound(r)
    BY DEF ExactInv
  <2>1. ReadSound(p)' /\ HitSound(p)' /\ OutputSound'
    BY <1>1, <2>0, ReadStep, HitStep, OutputStep
  <2>2. \A r \in receipts' : ReceiptSound(r)'
    BY <1>1, <2>0, ReceiptStep
  <2>3. ASSUME NEW q \in Requests, q # p PROVE ReadSound(q)' /\ HitSound(q)'
    <3>1. /\ UNCHANGED <<src, cmd>> /\ at'[q] = at[q] /\ found'[q] = found[q]
          /\ reads'[q] = reads[q] /\ vouched'[q] = vouched[q]
      BY <1>1, <2>3, OthersStay
    <3>. QED BY <2>0, <3>1 DEF ReadSound, HitSound
  <2>. QED BY <2>1, <2>2, <2>3 DEF ExactInv
<1>2. CASE Edit \/ DeleteOutput \/ ReceiptExpires \/ UNCHANGED vars
  <2>1. UNCHANGED <<at, cmd, found, reads, vouched>> /\ (UNCHANGED out \/ out' = None)
    BY <1>2 DEF Edit, DeleteOutput, ReceiptExpires, vars, Mine, Files
  <2>2. ASSUME NEW q \in Requests PROVE ReadSound(q)' /\ HitSound(q)'
    <3>1. src' \in {src, src + 1} /\ src \in Nat
      BY <1>2 DEF Edit, DeleteOutput, ReceiptExpires, vars, Typed
    <3>2. ReadSound(q) /\ HitSound(q) /\ found[q].lock \in Nat /\ found[q].exec \in Nat /\ reads[q].of \subseteq Nat
      BY DEF ExactInv, Typed
    <3>. QED BY <2>1, <3>1, <3>2 DEF ReadSound, HitSound
  <2>3. OutputSound'
    BY <2>1 DEF ExactInv, OutputSound
  <2>4. \A r \in receipts' : ReceiptSound(r)'
    <3>1. \A r : ReceiptSound(r)' <=> ReceiptSound(r)
      BY <2>1 DEF ReceiptSound
    <3>2. CASE UNCHANGED receipts
      BY <3>1, <3>2 DEF ExactInv
    <3>3. CASE ReceiptExpires
      <4>1. PICK r \in receipts : receipts' = (receipts \ {r}) \cup {[r EXCEPT !.fresh = FALSE]}
        BY <3>3 DEF ReceiptExpires
      <4>2. r \in Receipts /\ ReceiptSound(r)
        BY DEF ExactInv, Typed
      <4>. DEFINE e == [r EXCEPT !.fresh = FALSE]
      <4>3. e.name = r.name /\ e.src = r.src /\ e.out = r.out /\ e.by = r.by /\ e.of = r.of
        BY <4>2 DEF Receipts
      <4>. HIDE DEF e
      <4>4. ReceiptSound(e)
        BY <4>2, <4>3 DEF ReceiptSound
      <4>. QED BY <3>1, <4>1, <4>4 DEF ExactInv, e
    <3>. QED BY <1>2, <3>2, <3>3 DEF Edit, DeleteOutput, Files, vars
  <2>. QED BY <2>2, <2>3, <2>4 DEF ExactInv
<1>. QED BY <1>1, <1>2 DEF Next, Over

LEMMA ExactInit == Init => ExactInv
<1>. SUFFICES ASSUME Init PROVE ExactInv
  OBVIOUS
<1>1. \A p \in Requests : at[p] = "new" /\ found[p] = [lock |-> 0, exec |-> 0] /\ reads[p].of = {} /\ vouched[p] = {}
  BY DEF Init, NoRequest
<1>. QED BY <1>1 DEF Init, ExactInv, ReadSound, HitSound, OutputSound

LEMMA Exactness == ASSUME Restorable = FALSE PROVE Spec => []ExactInv
BY ExactInit, ExactStep, SingleInit, SingleStep, PTL DEF Spec

\* A reused result of RunWorkBatch or RunWorkCommandWithExpressReuse stands for a run that read
\* the sources as the reusing request found them and nothing else: snapshotExpressSource before
\* and after the run, and the fingerprint of the batch.  An edit that brings an earlier content
\* back while the command runs is the one the comparison cannot see, hence the hypothesis.
THEOREM ReuseIsExact == ASSUME Restorable = FALSE PROVE Spec => []ReuseExact
<1>1. ExactInv => ReuseExact
  BY DEF ExactInv, HitSound, ReuseExact
<1>. QED BY <1>1, Exactness, PTL

\* A reused build (go build -o) leaves the output it would have written: the file is there and
\* was made by this command from these sources, unless another process wrote it between the end
\* of the run and its receipt (snapshotExpressArtifacts).  The hypothesis is that of ReuseIsExact.
THEOREM ReuseLeavesOutput == ASSUME Restorable = FALSE PROVE Spec => []HitOutput
<1>1. ExactInv => HitOutput
  BY DEF ExactInv, HitSound, HitOutput
<1>. QED BY <1>1, Exactness, PTL
=============================================================================
