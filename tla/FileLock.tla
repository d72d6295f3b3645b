------------------------------ MODULE FileLock ------------------------------
(***************************************************************************)
(* internal/filelock: the lock every ledger call takes (withState).  The   *)
(* callers of one process line up in a chain of channels, and the one      *)
(* whose turn it is competes with the other processes for the sidecar file *)
(* path + ".lock".  A file system call is a step of its own; what a        *)
(* thread read is stale by the time it acts on it.                         *)
(***************************************************************************)
EXTENDS Naturals, FiniteSets

CONSTANTS
    Threads,     \* callers of Acquire
    Procs,       \* processes
    Proc,        \* the process of a thread
    MaxChannels, \* channels a process may have open at a time
    None,        \* no channel, no thread
    Killable,    \* processes that may be killed
    Littered     \* TRUE: an n-1 writer may leave a malformed sidecar

ASSUME FileLockAssumption ==
    /\ Proc \in [Threads -> Procs]
    /\ Killable \subseteq Procs
    /\ None \notin Threads \cup (Procs \X (1..MaxChannels))
    /\ MaxChannels \in Nat
    /\ Littered \in BOOLEAN

VARIABLES
    tail,        \* queues[key], the newest channel of each process
    prev,        \* the channel each open channel waits for, None once that is closed
    mine,        \* the channel each thread has to close
    abandoned,   \* open channels whose caller left: a goroutine closes them in turn
    file,        \* the sidecar: what a reader finds, and the token of its owner
    pc           \* where each thread is in AcquireContext or unlock

queue    == <<tail, prev, mine, abandoned>>
lockVars == <<tail, prev, mine, abandoned, file, pc>>

\* "orphan": the PID in it is dead.  "reused": an unrelated process has that
\* PID.  "young", "old": malformed, within the initialization grace and after.
Sidecars == [state: {"none", "owned", "orphan", "reused", "young", "old"},
             by: Threads \cup {None}]
Missing  == [state |-> "none", by |-> None]

Channels == Procs \X (1..MaxChannels)
Open     == abandoned \cup ({mine[t] : t \in Threads} \ {None})

\* Threads that have their process's turn and have not given it back.
Turn == {t \in Threads : pc[t] \notin {"idle", "queued"}}

LockInit ==
    /\ tail = [p \in Procs |-> None]
    /\ prev = [c \in Channels |-> None]
    /\ mine = [t \in Threads |-> None]
    /\ abandoned = {}
    /\ file \in {Missing} \cup (IF Littered THEN {[state |-> "young", by |-> None]} ELSE {})
    /\ pc = [t \in Threads |-> "idle"]

Advance(t, from, to) == pc[t] = from /\ pc' = [pc EXCEPT ![t] = to]

(***************************************************************************)
(* The in-process chain.                                                   *)
(***************************************************************************)
\* enqueue: wait for the channel that was the newest, and become the newest.
Enqueue(t) ==
    LET free == {c \in Channels \ Open : c[1] = Proc[t]}
        c    == CHOOSE c \in free : TRUE
    IN  /\ free # {}
        /\ Advance(t, "idle", IF tail[Proc[t]] = None THEN "create" ELSE "queued")
        /\ prev' = [prev EXCEPT ![c] = tail[Proc[t]]]
        /\ tail' = [tail EXCEPT ![Proc[t]] = c]
        /\ mine' = [mine EXCEPT ![t] = c]
        /\ UNCHANGED <<abandoned, file>>

\* The previous channel is closed: the thread has its turn.
Granted(t) ==
    /\ Advance(t, "queued", "create") /\ prev[mine[t]] = None
    /\ UNCHANGED <<queue, file>>

\* Mutant: the map entry is deleted whoever is the newest by then.
CloseAndForget(c) ==
    /\ tail' = [tail EXCEPT ![c[1]] = None]
    /\ prev' = [d \in Channels |-> IF prev[d] = c THEN None ELSE prev[d]]
\* releaseFn: leave the map if still the newest, then close the channel.
Close(c) ==
    /\ tail' = [tail EXCEPT ![c[1]] = IF @ = c THEN None ELSE @]
    /\ prev' = [d \in Channels |-> IF prev[d] = c THEN None ELSE prev[d]]

ReleaseQueue(t) ==
    /\ Close(mine[t])
    /\ mine' = [mine EXCEPT ![t] = None]
    /\ UNCHANGED abandoned

\* Timeout or cancellation while queued: a goroutine inherits the channel ...
Abandon(t) ==
    /\ Advance(t, "queued", "idle")
    /\ abandoned' = abandoned \cup {mine[t]}
    /\ mine' = [mine EXCEPT ![t] = None]
    /\ UNCHANGED <<tail, prev, file>>

\* Mutant: nobody closes the channel of a caller that gave up.
HandOffLost(c) ==
    /\ c \in abandoned /\ prev[c] = None
    /\ abandoned' = abandoned \ {c}
    /\ UNCHANGED <<tail, prev, mine, file, pc>>
\* ... and closes it when its turn comes.
HandOff(c) ==
    /\ c \in abandoned /\ prev[c] = None
    /\ Close(c)
    /\ abandoned' = abandoned \ {c}
    /\ UNCHANGED <<mine, file, pc>>

(***************************************************************************)
(* The sidecar.                                                            *)
(***************************************************************************)
\* tryCreateLock: the hard link succeeds only if there is no sidecar.
TryCreateLock(t) ==
    /\ \/ /\ file = Missing
          /\ Advance(t, "create", "critical")
          /\ file' = [state |-> "owned", by |-> t]
       \/ /\ file # Missing
          /\ Advance(t, "create", "probe")
          /\ UNCHANGED file
    /\ UNCHANGED queue

\* isStale: missing, malformed and old, or the PID is dead.
Stale == file.state \in {"none", "old", "orphan"}

Probe(t) ==
    /\ Advance(t, "probe", IF Stale THEN "reclaim" ELSE "poll")
    /\ UNCHANGED <<queue, file>>

\* removeLock: whatever the sidecar is by now.
Reclaim(t) ==
    /\ Advance(t, "reclaim", "create")
    /\ file' = Missing
    /\ UNCHANGED queue

Poll(t) == Advance(t, "poll", "create") /\ UNCHANGED <<queue, file>>

\* The deadline has passed, checked before each poll.
Timeout(t) == Advance(t, "poll", "idle") /\ ReleaseQueue(t) /\ UNCHANGED file

\* The context ended, or the sidecar cannot be created at all.
Fail(t) == Advance(t, "create", "idle") /\ ReleaseQueue(t) /\ UNCHANGED file

(***************************************************************************)
(* unlock: removeOwnedLock reads the token, then removes; then the queue.  *)
(***************************************************************************)
ReadToken(t) ==
    /\ Advance(t, "critical", IF file.state = "owned" /\ file.by = t THEN "unlink" ELSE "leave")
    /\ UNCHANGED <<queue, file>>

Unlink(t) ==
    /\ Advance(t, "unlink", "leave")
    /\ file' = Missing
    /\ UNCHANGED queue

Leave(t) == Advance(t, "leave", "idle") /\ ReleaseQueue(t) /\ UNCHANGED file

(***************************************************************************)
(* The environment.                                                        *)
(***************************************************************************)
\* A process dies: its threads and its channels go, its sidecar stays.
Killed(p) ==
    LET dead == {t \in Threads : Proc[t] = p}
    IN  /\ p \in Killable /\ \E t \in dead : pc[t] # "idle"
        /\ tail' = [tail EXCEPT ![p] = None]
        /\ prev' = [c \in Channels |-> IF c[1] = p THEN None ELSE prev[c]]
        /\ mine' = [t \in Threads |-> IF t \in dead THEN None ELSE mine[t]]
        /\ abandoned' = {c \in abandoned : c[1] # p}
        /\ pc' = [t \in Threads |-> IF t \in dead THEN "idle" ELSE pc[t]]
        /\ file' = IF file.state = "owned" /\ file.by \in dead
                   THEN [state |-> "orphan", by |-> None] ELSE file

ReusePID ==
    /\ file.state = "orphan"
    /\ file' = [file EXCEPT !.state = "reused"]
    /\ UNCHANGED <<queue, pc>>

\* External: a sidecar without an owner, left by an n-1 writer, grows old.
AgeLitter ==
    /\ file.state = "young"
    /\ file' = [file EXCEPT !.state = "old"]
    /\ UNCHANGED <<queue, pc>>

\* External: whoever has the PID of a dead owner exits in the end.
ReuserExits ==
    /\ file.state = "reused"
    /\ file' = [file EXCEPT !.state = "orphan"]
    /\ UNCHANGED <<queue, pc>>

LockNext ==
    \/ \E t \in Threads :
        \/ Enqueue(t) \/ Granted(t) \/ Abandon(t) \/ TryCreateLock(t) \/ Probe(t)
        \/ Reclaim(t) \/ Poll(t) \/ Timeout(t) \/ Fail(t)
        \/ ReadToken(t) \/ Unlink(t) \/ Leave(t)
    \/ \E c \in Channels : HandOff(c)
    \/ \E p \in Procs : Killed(p)
    \/ ReusePID \/ ReuserExits \/ AgeLitter

LockSpec == LockInit /\ [][LockNext]_lockVars

\* Goroutines are scheduled, critical sections end, and a caller that keeps
\* polling meets its deadline.  Nobody has to give up while queued, and nobody
\* has to call Acquire.
LockFairness ==
    /\ \A t \in Threads :
        /\ WF_lockVars(Granted(t)) /\ WF_lockVars(TryCreateLock(t)) /\ WF_lockVars(Probe(t))
        /\ WF_lockVars(Reclaim(t)) /\ WF_lockVars(Poll(t)) /\ SF_lockVars(Timeout(t))
        /\ WF_lockVars(ReadToken(t)) /\ WF_lockVars(Unlink(t)) /\ WF_lockVars(Leave(t))
    /\ \A c \in Channels : WF_lockVars(HandOff(c))

LockFairSpec == LockSpec /\ LockFairness

(***************************************************************************)
(* Properties.                                                             *)
(***************************************************************************)

\* The shape of the chain and of the sidecar.
LockTypeOK ==
    /\ tail \in [Procs -> Channels \cup {None}]
    /\ prev \in [Channels -> Channels \cup {None}]
    /\ mine \in [Threads -> Channels \cup {None}]
    /\ abandoned \subseteq Channels
    /\ file \in Sidecars
    /\ pc \in [Threads -> {"idle", "queued", "create", "probe", "reclaim", "poll",
                           "critical", "unlink", "leave"}]

\* Nobody waits for a channel that nobody will close, no two wait for the
\* same one, and nobody waits for the newest.
ChainIntact ==
    /\ LockTypeOK
    /\ \A c \in Open : prev[c] \in Open \cup {None}
    /\ \A c, d \in Open : prev[c] = prev[d] /\ prev[c] # None => c = d
    /\ \A p \in Procs : tail[p] \in Open \cup {None}
    /\ \A c \in Open : prev[c] # None => prev[c] # tail[c[1]]

\* enqueue serializes the callers of a process: at most one of them is past
\* the queue, whatever was abandoned, timed out or handed off in between.
OneInside == \A t, u \in Turn : Proc[t] = Proc[u] => t = u

\* Time-outs, cancellations and crashes in any order leave the chain whole, and one
\* caller of a process past it (enqueue, and the abandonment in AcquireContext).
OneTurn == ChainIntact /\ OneInside

\* A turn in the chain is never lost: who waits is let through, even when the
\* callers before it gave up, and without giving up itself ("Don't stall the
\* queue").
TurnComes == \A t \in Threads : pc[t] = "queued" ~> pc[t] # "queued"

Inside == {t \in Threads : pc[t] \in {"critical", "unlink"}}

\* No two callers are in the critical section of a path at a time ("A live
\* owner is never preempted").
MutualExclusion == \A t, u \in Inside : t = u

=============================================================================
