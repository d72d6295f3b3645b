--------------------------- MODULE ControlServer ---------------------------
(***************************************************************************)
(* The local control server in front of host cleanup.                      *)
(*   sessionpressurecontrol/actions.go   preview, approve                  *)
(*   sessionpressurecontrol/store.go     preview files, audit, state hash  *)
(*   sessionpressurecontrol/server.go    one server process                *)
(* A preview names a command and carries the hash of the state directory   *)
(* it was taken on.  An approval, under the server's mutex, checks it and  *)
(* runs the command as a child process, here one of the cleanup policy     *)
(* verbs of HostCleanup, whose processes, passes and claims run beside it. *)
(***************************************************************************)
EXTENDS HostCleanup

CONSTANTS Terminals,   \* the commands that are typed
          Requests,      \* the commands that approval requests run
          Previews,      \* preview ids
          PreviewTTL,    \* in ticks
          MaxPreviewFiles

ASSUME ControlAssumption == /\ Commands = Terminals \cup Requests
                            /\ Requests \cap (Terminals \cup Passes) = {}
                            /\ PreviewTTL \in Nat \ {0} /\ MaxPreviewFiles \in Nat \ {0}

VARIABLES previews,    \* api/previews/*.json
          mu,            \* Server.mu: the approval that holds it
          approving,     \* the approval requests
          applied        \* history: the saves each preview's command has made, without
                         \* one whose verdict was lost with the server

controlVars == <<previews, mu, approving, applied>>
allVars == <<vars, controlVars>>

NoPreview == [status |-> "none", verb |-> "none", hash |-> "none", expires |-> 0]
Finished == {"approved", "failed", "stale", "expired"}
NotApproving == [at |-> "idle", preview |-> "none", verb |-> "none", seen |-> DefaultPolicy, outside |-> FALSE]

\* The parts of the state directory this module knows.  Any other file makes
\* a preview stale as well, see Refuse.
StateHash == <<policy, claims, ledger>>

\* ensureCapacityLocked: finished and expired files go, an unreadable one
\* stays and counts.
Kept(id) == previews[id].status = "torn" \/ (previews[id].status = "pending" /\ now < previews[id].expires)
Swept == [id \in Previews |-> IF previews[id] = NoPreview \/ Kept(id) THEN previews[id]
                              ELSE [NoPreview EXCEPT !.status = "removed"]]

\* A preview with a verdict; nothing else of it is read again.
Put(id, status) == previews' = [previews EXCEPT ![id] = [NoPreview EXCEPT !.status = status]]

Preview(id, verb) ==
    /\ previews[id] = NoPreview
    /\ left.previews > 0 /\ left' = [left EXCEPT !.previews = @ - 1]
    /\ Cardinality({i \in Previews : previews[i] # NoPreview /\ Kept(i)}) < MaxPreviewFiles
    /\ previews' = [Swept EXCEPT ![id] = [status |-> "pending", verb |-> verb, hash |-> StateHash,
                                          expires |-> now + PreviewTTL]]
    /\ UNCHANGED <<mu, approving, applied>>

\* Mutant: approvals do not exclude one another.
NotSerialised(a) == TRUE
Serialised(a) == mu = Free

\* handleActionApprove up to the command: mutex, status, expiry, state hash.
Approve(a, id) ==
    /\ approving[a].at = "idle" /\ Serialised(a)
    /\ previews[id].status = "pending" /\ now < previews[id].expires
    /\ previews[id].hash = StateHash
    /\ mu' = a
    /\ approving' = [approving EXCEPT ![a] = [at |-> "run", preview |-> id, verb |-> previews[id].verb,
                                              seen |-> previews[id].hash[1], outside |-> FALSE]]
    /\ UNCHANGED <<previews, applied>>

\* The refusals that are written to the preview: expired, or the state changed.
Refuse(a, id) ==
    /\ approving[a].at = "idle" /\ mu = Free /\ previews[id].status = "pending"
    /\ Put(id, IF now < previews[id].expires THEN "stale" ELSE "expired")
    /\ UNCHANGED <<mu, approving, applied>>

\* Runner.Run: the child loads the policy, or refuses and fails.
RunVerb(a) ==
    /\ approving[a].at = "run"
    /\ LoadForEdit(a, approving[a].verb)
    /\ approving' = [approving EXCEPT ![a].at = "running"]
    /\ UNCHANGED <<previews, mu, applied>>

\* Another process wrote the policy while the approval was on its way to it.
Outside(c) == approving' = [a \in Requests |->
                 IF a # c /\ approving[a].at = "run" THEN [approving[a] EXCEPT !.outside = TRUE] ELSE approving[a]]

SaveVerb(a) ==
    /\ approving[a].at = "running" /\ SavePolicy(a)
    /\ approving' = [approving EXCEPT ![a].at = "saved"]
    /\ applied' = [applied EXCEPT ![approving[a].preview] = @ + 1]
    /\ UNCHANGED <<previews, mu>>

\* The verdict: success after the child's exit, failure when it refused, when
\* the policy lock stayed busy, or when the request's context killed it, even
\* after its save.
Status(a) == IF approving[a].at = "saved" THEN {"approved", "failed"} ELSE {"failed"}

\* Mutant: the verdict of a killed command is not written.
VerdictOfExit(a) ==
    /\ approving[a].at \in {"run", "running", "saved"}
    /\ \/ approving[a].at = "saved" /\ Put(approving[a].preview, "approved")
       \/ UNCHANGED previews
    /\ mu' = Free
    /\ approving' = [approving EXCEPT ![a] = NotApproving]
    /\ cmd' = [cmd EXCEPT ![a] = NoCommand]
    /\ UNCHANGED applied

Verdict(a) ==
    LET id == approving[a].preview IN
    /\ approving[a].at \in {"run", "running", "saved"}
    /\ \E status \in Status(a) : Put(id, status)
    /\ mu' = Free
    /\ approving' = [approving EXCEPT ![a] = NotApproving]
    /\ cmd' = [cmd EXCEPT ![a] = NoCommand]
    /\ UNCHANGED applied

\* The server dies: the mutex goes with it and no verdict is written, or the
\* truncated preview file is left; a child it had started is lost with it.
ServerDies(a) ==
    /\ mu = a /\ left.deaths > 0 /\ left' = [left EXCEPT !.deaths = @ - 1]
    /\ \/ UNCHANGED previews
       \/ approving[a].at = "saved" /\ Put(approving[a].preview, "torn")
    /\ mu' = Free
    /\ approving' = [approving EXCEPT ![a] = NotApproving]
    /\ cmd' = [cmd EXCEPT ![a] = NoCommand]
    /\ applied' = IF approving[a].at = "saved" THEN [applied EXCEPT ![approving[a].preview] = @ - 1] ELSE applied

ControlInit == /\ Init
               /\ previews = [id \in Previews |-> NoPreview]
               /\ mu = Free
               /\ approving = [a \in Requests |-> NotApproving]
               /\ applied = [id \in Previews |-> 0]

ServerStep ==
    \/ /\ \E id \in Previews, verb \in Verbs : Preview(id, verb)
       /\ UNCHANGED <<now, policy, claims, damaged, ledger, lock, gen, idle, pass, cmd, reclaimed, rollout>>
    \/ /\ \E a \in Requests, id \in Previews : Approve(a, id) \/ Refuse(a, id)
       /\ UNCHANGED vars
    \/ /\ \E a \in Requests : ((RunVerb(a) \/ Verdict(a)) /\ UNCHANGED left) \/ ServerDies(a)
       /\ UNCHANGED <<now, policy, claims, damaged, ledger, lock, gen, idle, pass, reclaimed, rollout>>
    \/ /\ \E a \in Requests : SaveVerb(a)
       /\ UNCHANGED <<now, claims, damaged, ledger, lock, gen, idle, pass, left, reclaimed>>

ControlNext ==
    \/ ServerStep
    \/ \E c \in Terminals : TypedVerb(c) /\ UNCHANGED controlVars
    \/ \E c \in Terminals : SaveStep(c) /\ Outside(c) /\ UNCHANGED <<previews, mu, applied>>
    \/ \E c \in Terminals : AbandonStep(c) /\ UNCHANGED controlVars
    \/ \E p \in Passes : /\ PassStep(p)
                         /\ IF policy' = policy THEN UNCHANGED approving ELSE Outside(p)
                         /\ UNCHANGED <<previews, mu, applied>>
    \/ /\ ClaimStep \/ DamageClaim \/ Tick \/ \E r \in Resources : Restart(r) \/ Activity(r)
       /\ UNCHANGED controlVars

ControlSpec == ControlInit /\ [][ControlNext]_allVars

----------------------------------------------------------------------------
TypeOK == /\ CleanupTypeOK
          /\ mu \in Requests \cup {Free}
          /\ mu # Free => approving[mu].at # "idle"
          /\ \A a \in Requests : cmd[a].at = "save" <=> approving[a].at = "running"

\* An approved verb edits the policy the preview was taken on, unless a process
\* outside the server wrote it after the check: of two previews of one state
\* the second is refused (handleActionApprove holds the mutex from the hash
\* check to the verdict).
ApprovedOnSeen ==
    /\ TypeOK
    /\ \A a \in Requests :
        approving[a].at = "running" => \/ cmd[a].loaded = approving[a].seen
                                       \/ approving[a].outside

\* A preview's command is saved at most once, however it ended: only a server
\* that dies between the child's save and the verdict leaves a preview that can
\* be approved again, should the state be what it was.
AppliedOnce == \A id \in Previews : applied[id] <= 1
============================================================================
