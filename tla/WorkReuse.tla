----------------------------- MODULE WorkReuse ------------------------------
(***************************************************************************)
(* Reuse of successful results: RunWorkCommandWithExpressReuse             *)
(* (sessionpressure/work_express.go, work_express_integrity.go) and        *)
(* RunWorkBatch (workbatch.go).                                            *)
(*                                                                         *)
(* Requests for one command meet at a file lock named after a keyed digest *)
(* of the command.  The holder looks for a receipt; if there is none it    *)
(* runs the command and may leave one.  The sources, the output file and   *)
(* the clock change under everybody's feet, and a receipt must still only  *)
(* vouch for what a run of the command would do now.                       *)
(*                                                                         *)
(* A digest is the value it digests, and the sources are one value: a      *)
(* snapshot of many files is one step.  Queueing for capacity happens      *)
(* inside "leader" (WorkLease), the lock is FileLock's.                    *)
(***************************************************************************)
EXTENDS Integers, FiniteSets

CONSTANTS
    Requests,     \* processes that run `work run` or `work batch`
    Commands,     \* commands
    Asked,        \* what the requests may be asked to run: a set of assignments
    Express,      \* commands run with express reuse; the others are batches
    Output,       \* express commands that write the output file (go build -o)
    Joinable,     \* canonical make targets: only join a build that is under way
    Uncacheable,  \* express commands with an output nobody can name
    Steps,        \* how often a command reads the sources
    Sources,      \* contents of the sources
    MaxEdits,     \* bound on edits
    Restorable,   \* whether an edit may bring an earlier content back
    MaxMeddling,  \* bound on deletions of the output and on receipts that get too old
    Faults,       \* requests for which files may be unreadable or unwritable
    Mortal,       \* requests that may be killed
    None

ASSUME ReuseAssumption ==
    /\ Output \cup Joinable \cup Uncacheable \subseteq Express /\ Express \subseteq Commands
    /\ Output \cap Joinable = {} /\ Steps \in [Commands -> Nat \ {0}]
    /\ MaxEdits \in Nat /\ MaxMeddling \in Nat /\ Restorable \in BOOLEAN
    /\ Faults \cup Mortal \subseteq Requests /\ Asked \subseteq [Requests -> Commands]
    /\ IsFiniteSet(Sources) /\ Sources = 1..Cardinality(Sources)

ASSUME NoneAssumption == None \notin Requests

VARIABLES
    src, edits,  \* the sources, and how often they were edited
    out,         \* the output file: who wrote it and from what, or None
    keyFile,     \* the private key of the digests: its first owner's name, or None
    receipts,    \* the receipt files of both directories
    at, cmd,     \* where a request is, and what it runs
    key,         \* the key it has read
    found,       \* sources as it found them: under the lock, and when the command started
    attempt,     \* singleflight attempts of a batch
    held,        \* the lock it holds
    doomed,      \* receipts it found too old and is about to remove
    reads,       \* contents its command has read, one per step
    begun,       \* requests that have taken their start time
    vouched,     \* history: the receipt a reusing request relied on, and the output then
    meddled      \* deletions and expiries so far

vars == <<src, edits, out, keyFile, receipts, at, cmd, key, found, attempt, held, doomed,
          reads, begun, vouched, meddled>>

MaxAttempts == 3   \* workBatchSingleflightRetries
NoRequest   == [lock |-> 0, exec |-> 0]
NoName      == <<>>

IsExpress(p) == cmd[p] \in Express
\* Keyed digests: the one of a batch covers its sources, that of an express command does not.
ExpressReusePath(p) == <<cmd[p], key[p], 0>>
WorkReusePath(p, s) == <<cmd[p], key[p], s>>
Name(p, s) == IF IsExpress(p) THEN ExpressReusePath(p) ELSE WorkReusePath(p, s)
Unlocked(n) == \A q \in Requests : held[q] # n

Goto(p, l) == at' = [at EXCEPT ![p] = l]
Keep(p, n) == held' = [held EXCEPT ![p] = n]
\* Every return passes the unlock.
Leave(p, l) == Goto(p, l) /\ Keep(p, NoName)
World  == UNCHANGED <<src, edits, out, meddled>>
Mine   == UNCHANGED <<cmd, key, begun>>
Files  == UNCHANGED <<keyFile, receipts>>

(***************************************************************************)
(* Entering: the key, old receipts, the lock.                              *)
(***************************************************************************)
\* A request that may not reuse, or for which no digest can be made, just runs.
Begin(p) ==
    /\ at[p] = "new"
    /\ \/ Goto(p, "bare") /\ UNCHANGED key
       \/ /\ keyFile # None
          /\ key' = [key EXCEPT ![p] = keyFile] /\ Goto(p, "pruning")
       \/ keyFile = None /\ Goto(p, "keyless") /\ UNCHANGED key
    /\ UNCHANGED <<cmd, begun, found, attempt, held, doomed, reads, vouched>> /\ World /\ Files

\* Mutant: the key is written without looking again.
CreateKeyBlindly(p) ==
    /\ at[p] = "keyless" /\ keyFile' = p
    /\ key' = [key EXCEPT ![p] = p]
    /\ Goto(p, "pruning")
    /\ UNCHANGED <<cmd, begun, found, attempt, held, doomed, reads, vouched, receipts>> /\ World
\* Under the creation lock, and looking again.
ReadOrCreateWorkReuseKey(p) ==
    /\ at[p] = "keyless"
    /\ keyFile' = IF keyFile = None THEN p ELSE keyFile
    /\ key' = [key EXCEPT ![p] = keyFile']
    /\ Goto(p, "pruning")
    /\ UNCHANGED <<cmd, begun, found, attempt, held, doomed, reads, vouched, receipts>> /\ World

\* An environment, a tool or a form of command for which no result is kept.
ReuseRefused(p) == cmd[p] \in Uncacheable
\* Nobody's lock is held here: what is read now is removed later.
PruneRead(p) ==
    /\ at[p] = "pruning"
    /\ doomed' = [doomed EXCEPT ![p] =
            {r.name : r \in {s \in receipts : ~s.fresh /\ ~(IsExpress(p) /\ s.name = Name(p, 0))}}]
    /\ Goto(p, "pruned")
    /\ UNCHANGED <<found, attempt, held, reads, vouched>> /\ World /\ Mine /\ Files
PruneRemove(p) ==
    /\ at[p] = "pruned"
    /\ receipts' = {r \in receipts : r.name \notin doomed[p]}
    /\ doomed' = [doomed EXCEPT ![p] = {}]
    /\ begun' = begun \cup {p}
    /\ Goto(p, IF ReuseRefused(p) THEN "bare" ELSE "entering")
    /\ UNCHANGED <<keyFile, cmd, key, found, attempt, held, reads, vouched>> /\ World

\* The name of a batch's lock comes from a fingerprint taken outside it.
Enter(p) ==
    /\ at[p] = "entering"
    /\ \/ /\ found' = [found EXCEPT ![p] = [lock |-> src, exec |-> 0]] /\ Goto(p, "locking")
       \/ p \in Faults /\ Goto(p, IF IsExpress(p) THEN "bare" ELSE "done") /\ UNCHANGED found
    /\ UNCHANGED <<attempt, held, doomed, reads, vouched>> /\ World /\ Mine /\ Files
AcquireLock(p) ==
    /\ at[p] = "locking" /\ Unlocked(Name(p, found[p].lock))
    /\ Keep(p, Name(p, found[p].lock)) /\ Goto(p, "locked")
    /\ UNCHANGED <<found, attempt, doomed, reads, vouched>> /\ World /\ Mine /\ Files
\* wait=0 runs an express command anyway; everything else gives up.
LockTimeout(p) ==
    /\ at[p] = "locking" /\ ~Unlocked(Name(p, found[p].lock))
    /\ \/ IsExpress(p) /\ Goto(p, "bare")
       \/ Goto(p, "done")
    /\ UNCHANGED <<found, attempt, held, doomed, reads, vouched>> /\ World /\ Mine /\ Files

(***************************************************************************)
(* Under the lock.                                                         *)
(***************************************************************************)
SnapshotExpressSource(p) ==
    /\ at[p] = "locked" /\ IsExpress(p)
    /\ \/ found' = [found EXCEPT ![p].lock = src] /\ Goto(p, "lookup") /\ UNCHANGED held
       \/ p \in Faults /\ Leave(p, "bare") /\ UNCHANGED found
    /\ UNCHANGED <<attempt, doomed, reads, vouched>> /\ World /\ Mine /\ Files
\* The fingerprint again: the lock may be the one of other sources.
RefingerprintBatch(p) ==
    /\ at[p] = "locked" /\ ~IsExpress(p)
    /\ \/ src = found[p].lock /\ Goto(p, "lookup") /\ UNCHANGED <<held, attempt>>
       \/ /\ src # found[p].lock
          /\ attempt' = [attempt EXCEPT ![p] = @ + 1]
          /\ Leave(p, IF attempt'[p] = MaxAttempts THEN "done" ELSE "entering")
       \/ p \in Faults /\ Leave(p, "done") /\ UNCHANGED attempt
    /\ UNCHANGED <<found, doomed, reads, vouched>> /\ World /\ Mine /\ Files

\* Mutant: it is enough that the output exists.
OutputExists(p, r) == r.fresh /\ r.src = found[p].lock /\ (cmd[p] \in Output => out # None)
\* A receipt that readExpressReuseReceipt or readWorkReuseReceipt leaves in place.
Usable(p, r) ==
    /\ r.fresh /\ r.src = found[p].lock
    /\ cmd[p] \in Output => out # None /\ out = r.out
WorkReuseSingleflightOnly(p) == cmd[p] \in Joinable
\* The receipt is older than the request.
TooEarly(p, r) == WorkReuseSingleflightOnly(p) /\ p \notin r.begun

LookUp(p) ==
    /\ at[p] = "lookup"
    /\ LET own == {r \in receipts : r.name = Name(p, found[p].lock)}
           hit == {r \in own : Usable(p, r) /\ ~TooEarly(p, r)}
       IN  \/ /\ receipts' = receipts \ {r \in own : ~Usable(p, r)}
              /\ vouched' = [vouched EXCEPT ![p] = {<<r, out>> : r \in hit}]
              /\ Goto(p, IF hit = {} THEN "leader" ELSE "hit") /\ UNCHANGED held
           \/ /\ p \in Faults /\ own # {} /\ Leave(p, IF IsExpress(p) THEN "bare" ELSE "done")
              /\ UNCHANGED <<receipts, vouched>>
    /\ UNCHANGED <<keyFile, found, attempt, doomed, reads>> /\ World /\ Mine

\* An express hit is only given out while the host would admit work; the event comes first.
ReuseHit(p) ==
    /\ at[p] = "hit"
    /\ \/ Leave(p, "reused") /\ UNCHANGED vouched
       \/ /\ \/ IsExpress(p) /\ Leave(p, "bare")
             \/ p \in Faults /\ Leave(p, "done")
          /\ vouched' = [vouched EXCEPT ![p] = {}]
    /\ UNCHANGED <<found, attempt, doomed, reads>> /\ World /\ Mine /\ Files

(***************************************************************************)
(* Running the command.                                                    *)
(***************************************************************************)
\* No lease before the deadline, a denial, or a signal.
RunRefused(p) ==
    /\ at[p] \in {"leader", "bare"} /\ Leave(p, "done")
    /\ UNCHANGED <<found, attempt, doomed, reads, vouched>> /\ World /\ Mine /\ Files

\* reusePreparer runs once the lease is there.  A batch compares with its fingerprint
\* from before the wait.
Prepare(p) ==
    /\ at[p] \in {"leader", "bare"}
    /\ \E s \in (IF at[p] = "bare" THEN {0} ELSE IF IsExpress(p) THEN {src} ELSE {found[p].lock})
                \cup (IF at[p] = "leader" /\ IsExpress(p) /\ p \in Faults THEN {0} ELSE {}) :
            found' = [found EXCEPT ![p].exec = s]
    /\ Goto(p, IF at[p] = "leader" THEN "running" ELSE "barerun")
    /\ UNCHANGED <<attempt, held, doomed, reads, vouched>> /\ World /\ Mine /\ Files

Running == {"running", "barerun", "orphan"}
Times(p) == reads[p].n
\* One step of the command; the last one writes the output.
ChildStep(p) ==
    /\ at[p] \in Running
    /\ LET done == [n |-> Times(p) + 1, of |-> reads[p].of \cup {src}]
           last == done.n = Steps[cmd[p]]
       IN  /\ reads' = [reads EXCEPT ![p] = done]
           /\ out' = IF last /\ cmd[p] \in Output THEN [by |-> p, cmd |-> cmd[p], of |-> done.of]
                     ELSE out
           /\ IF last THEN Goto(p, CASE at[p] = "running" -> "finalize" [] at[p] = "barerun" -> "done"
                                     [] at[p] = "orphan" -> "dead")
              ELSE UNCHANGED at
    /\ UNCHANGED <<src, edits, meddled, found, attempt, held, doomed, vouched>> /\ Mine /\ Files
ChildFails(p) ==
    /\ at[p] \in Running /\ Leave(p, IF at[p] = "orphan" THEN "dead" ELSE "done")
    /\ UNCHANGED <<found, attempt, doomed, reads, vouched>> /\ World /\ Mine /\ Files

\* Mutant: the sources are not compared.
PublishAnyway(p) == found[p].exec # 0 /\ (cmd[p] \in Output => out # None)
\* reuseFinalizer, and the second half of RunWorkBatch.
Publishable(p) ==
    /\ found[p].exec # 0 /\ src = found[p].exec
    /\ cmd[p] \in Output => out # None
Receipt(p) ==
    [name |-> Name(p, src), src |-> src, out |-> IF cmd[p] \in Output THEN out ELSE None,
     fresh |-> TRUE, begun |-> begun, by |-> p, of |-> reads[p].of]
Finalize(p) ==
    /\ at[p] = "finalize"
    /\ receipts' = IF Publishable(p)
                   THEN {r \in receipts : r.name # Name(p, src)} \cup {Receipt(p)} ELSE receipts
    /\ Leave(p, "done")
    /\ UNCHANGED <<keyFile, found, attempt, doomed, reads, vouched>> /\ World /\ Mine
FinalizeFails(p) ==
    /\ at[p] = "finalize" /\ p \in Faults /\ Leave(p, "done")
    /\ UNCHANGED <<found, attempt, doomed, reads, vouched>> /\ World /\ Mine /\ Files

\* The kernel drops the lock; the command lives on.
Crash(p) ==
    /\ p \in Mortal /\ at[p] \notin {"new", "done", "reused", "dead", "orphan"}
    /\ Leave(p, IF at[p] \in Running THEN "orphan" ELSE "dead")
    /\ UNCHANGED <<found, attempt, doomed, reads, vouched>> /\ World /\ Mine /\ Files

(***************************************************************************)
(* The world.                                                              *)
(***************************************************************************)
Edit ==
    /\ edits < MaxEdits /\ edits' = edits + 1
    /\ src' \in IF Restorable THEN Sources \ {src} ELSE {src + 1}
    /\ UNCHANGED <<out, meddled, at, held, found, attempt, doomed, reads, vouched>> /\ Mine /\ Files
DeleteOutput ==
    /\ meddled < MaxMeddling /\ meddled' = meddled + 1 /\ out # None /\ out' = None
    /\ UNCHANGED <<src, edits, at, held, found, attempt, doomed, reads, vouched>> /\ Mine /\ Files
ReceiptExpires ==
    /\ meddled < MaxMeddling /\ meddled' = meddled + 1
    /\ \E r \in receipts : r.fresh /\ receipts' = (receipts \ {r}) \cup {[r EXCEPT !.fresh = FALSE]}
    /\ UNCHANGED <<src, edits, out, keyFile, at, held, found, attempt, doomed, reads, vouched>>
    /\ Mine

-----------------------------------------------------------------------------
Init ==
    /\ src = 1 /\ edits = 0 /\ out = None /\ keyFile = None /\ receipts = {} /\ meddled = 0
    /\ at       = [p \in Requests |-> "new"]
    /\ cmd      \in Asked
    /\ key      = [p \in Requests |-> None]
    /\ found    = [p \in Requests |-> NoRequest]
    /\ attempt  = [p \in Requests |-> 0]
    /\ held     = [p \in Requests |-> NoName]
    /\ doomed   = [p \in Requests |-> {}]
    /\ reads    = [p \in Requests |-> [n |-> 0, of |-> {}]]
    /\ begun    = {}
    /\ vouched  = [p \in Requests |-> {}]

Over == (\A p \in Requests : at[p] \in {"done", "reused", "dead"}) /\ UNCHANGED vars

Request(p) ==
    \/ Begin(p) \/ ReadOrCreateWorkReuseKey(p) \/ PruneRead(p) \/ PruneRemove(p) \/ Enter(p)
    \/ AcquireLock(p) \/ LockTimeout(p) \/ SnapshotExpressSource(p) \/ RefingerprintBatch(p)
    \/ LookUp(p) \/ ReuseHit(p) \/ RunRefused(p) \/ Prepare(p) \/ ChildStep(p) \/ ChildFails(p)
    \/ Finalize(p) \/ FinalizeFails(p)
Next ==
    \/ \E p \in Requests : Request(p) \/ Crash(p)
    \/ Edit \/ DeleteOutput \/ ReceiptExpires \/ Over
Spec == Init /\ [][Next]_vars

-----------------------------------------------------------------------------
(***************************************************************************)
(* Properties.                                                             *)
(***************************************************************************)
\* The types of the files and of the requests.
TypeOK ==
    /\ src \in Nat /\ edits \in 0..MaxEdits /\ meddled \in 0..MaxMeddling
    /\ keyFile \in Requests \cup {None} /\ key \in [Requests -> Requests \cup {None}]
    /\ cmd \in [Requests -> Commands] /\ attempt \in [Requests -> 0..MaxAttempts]
    /\ \A r, s \in receipts : r.name = s.name => r = s
    /\ \A r \in receipts : r.of \subseteq Nat /\ r.begun \subseteq Requests
    /\ begun \subseteq Requests

\* Identical requests never run the command at the same time under the lock, whoever made
\* the key and whatever was removed, edited or killed meanwhile (singleflight).
Leading(p) == at[p] \in {"leader", "running", "finalize"}
OneLeader ==
    /\ TypeOK
    /\ \A p, q \in Requests :
        p # q /\ Leading(p) /\ Leading(q) /\ cmd[p] = cmd[q]
            => ~IsExpress(p) /\ found[p].lock # found[q].lock

\* A reused result stands for a run that read the sources as the reusing request found them
\* and nothing else ("Successful reuse is exact", RunWorkBatch; snapshotExpressSource).
ReuseExact ==
    \A p \in Requests : at[p] = "reused" => \A v \in vouched[p] : v[1].of = {found[p].lock}

\* A reused build leaves the output it would have written: the file is there and was made by
\* this command from these sources, unless another process wrote it between the end of the
\* run and its receipt (snapshotExpressArtifacts).
HitOutput ==
    \A p \in Requests : at[p] = "reused" /\ cmd[p] \in Output =>
        \A v \in vouched[p] :
            v[1].out.by = v[1].by => v[2] # None /\ v[2].cmd = cmd[p] /\ v[2].of = {found[p].lock}
====
