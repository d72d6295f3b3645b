---------------------------- MODULE CleanupProofs ----------------------------
(***************************************************************************)
(* Theorems about host cleanup behind the control server: for any number   *)
(* of resources, claims, passes, commands and approvals, any budget, and   *)
(* any clock.                                                              *)
(***************************************************************************)
EXTENDS ControlServer, TLAPS

(***************************************************************************)
(* The invariant.                                                          *)
(***************************************************************************)
InRun      == {"plan", "boundary", "intent", "apply", "reclaim", "result"}
PastPolicy == {"intent", "apply", "reclaim", "result"}

PassRec == [at : InRun \cup {"idle", "graduate", "run"}, policy : Policy, began : Nat, checked : Nat,
            stamp : Nat, res : Resources \cup {"none"}, gen : Nat, claim : ClaimIds \cup {"none"}]
CmdRec  == [at : {"idle", "save"}, verb : Verbs \cup {"none"}, loaded : Policy, edited : Policy, stop : Nat]
Claim   == [res : Resources \cup {"none"}, expires : Int, gen : Nat, reap : BOOLEAN]

\* The policy is one the code can write, in the file and in every command.
PolicySound ==
    /\ now \in 0..MaxTime
    /\ policy \in Policy /\ Validate(policy)
    /\ cmd \in [Commands -> CmdRec]
    /\ \A c \in Commands : cmd[c].at = "save" => cmd[c].edited.persisted /\ Validate(cmd[c].edited)
    /\ rollout \in [stops : Nat, stopped : BOOLEAN, since : Nat, lost : BOOLEAN]

\* Verbs that a server was asked for are verbs.
ApprovalRec == [at : {"idle", "run", "running", "saved"}, preview : Previews \cup {"none"},
                verb : Verbs \cup {"none"}, seen : Policy, outside : BOOLEAN]
VerbsAsked ==
    /\ DOMAIN previews = Previews
    /\ \A id \in Previews : previews[id].status = "pending" => /\ previews[id].verb \in Verbs
                                                               /\ previews[id].hash[1] \in Policy
    /\ approving \in [Requests -> ApprovalRec]
    /\ \A a \in Requests : approving[a].at = "run" => approving[a].verb \in Verbs

HostTyped ==
    /\ gen \in [Resources -> Nat]
    /\ claims \in [ClaimIds -> Claim]
    /\ ledger \in [last : Int, torn : BOOLEAN]
    /\ reclaimed.at \in Int

\* A pass holds exactly the locks its place in the code says.
LocksHeld ==
    /\ lock \in [{"run", "policy", "claims"} -> Passes \cup {Free}]
    /\ pass \in [Passes -> PassRec]
    /\ \A p \in Passes : /\ pass[p].at \in InRun <=> lock["run"] = p
                         /\ pass[p].at \in PastPolicy <=> lock["policy"] = p
                         /\ pass[p].at = "reclaim" <=> lock["claims"] = p

\* What is about to be stopped is not claimed, and the claims are readable.
PassClear(p) == pass[p].at = "reclaim" => ~damaged /\ ~Claimed(pass[p].res)
Unclaimed == \A p \in Passes : PassClear(p)

\* The time of every reclaim is on record, up to the tick a pass may see.
ReclaimOnRecord ==
    /\ reclaimed.at <= now
    /\ reclaimed.at # Never => ledger.last # Never /\ reclaimed.at <= ledger.last + 1
PassOnRecord(p) ==
    /\ pass[p].at # "idle" => pass[p].began <= now /\ now <= pass[p].began + 1
    /\ pass[p].at \in InRun => pass[p].began <= pass[p].checked /\ pass[p].checked <= now
    /\ pass[p].at \in InRun \ {"result"} /\ reclaimed.at # Never =>
          pass[p].checked - reclaimed.at >= Cooldown
    /\ pass[p].at \in {"apply", "reclaim", "result"} =>
          pass[p].checked <= pass[p].stamp /\ ledger.last = pass[p].checked
OnRecord == ReclaimOnRecord /\ \A p \in Passes : PassOnRecord(p)

CleanupInv == PolicySound /\ VerbsAsked /\ HostTyped /\ LocksHeld /\ Unclaimed /\ OnRecord

(***************************************************************************)
(* The policy.                                                             *)
(***************************************************************************)
LEMMA DefaultTyped == DefaultPolicy \in Policy /\ Validate(DefaultPolicy)
BY CleanupAssumption DEF DefaultPolicy, Policy, Validate, Never

\* What a verb writes is a policy.
LEMMA EditTyped ==
    ASSUME NEW p \in Policy, NEW verb \in Verbs, now \in 0..MaxTime
    PROVE  [Edit(verb, p) EXCEPT !.persisted = TRUE] \in Policy
<1>1. /\ now \in Never..MaxTime /\ Never \in Never..MaxTime
      /\ 1 \in 1..4 /\ 4 \in 1..4
  BY CleanupAssumption DEF Never
<1>2. CASE verb = "init"
  BY <1>1, <1>2 DEF Edit, DefaultPolicy, Policy
<1>3. CASE verb = "enable"
  BY <1>1, <1>3 DEF Edit, Policy
<1>4. CASE verb = "schedule"
  BY <1>1, <1>4 DEF Edit, Policy
<1>5. CASE verb = "observe"
  BY <1>1, <1>5 DEF Edit, Policy
<1>6. CASE verb = "disable"
  BY <1>1, <1>6 DEF Edit, Disabled, Policy
<1>. QED BY <1>2, <1>3, <1>4, <1>5, <1>6 DEF Verbs

\* One stage of the rollout keeps the observation.
LEMMA AdvanceTyped ==
    ASSUME NEW p \in Policy, AutoGraduationDue(p)
    PROVE  /\ Advance(p) \in Policy /\ Advance(p).persisted = p.persisted
           /\ Advance(p).obs = p.obs
<1>0. 1 \in 1..4
  OBVIOUS
<1>1. CASE ~p.enforce
  BY <1>0, <1>1 DEF Advance, Policy
<1>2. CASE p.enforce
  <2>. DEFINE n == p.autoNative /\ p.providers < 3
              q == [p EXCEPT !.providers = @ + 1, !.autoNative = n]
  <2>0. p.providers \in 1..4 /\ p.providers < 4
    BY <1>2 DEF AutoGraduationDue, Policy
  <2>1. p.providers + 1 \in 1..4 /\ n \in BOOLEAN
    BY <2>0
  <2>. HIDE DEF n
  <2>2. q \in Policy /\ q.persisted = p.persisted /\ q.obs = p.obs
    BY <2>1 DEF Policy
  <2>3. Advance(p) = q
    BY <1>2 DEF Advance, n
  <2>. QED BY <2>2, <2>3
<1>. QED BY <1>1, <1>2

LEMMA LoadTyped ==
    ASSUME PolicySound, NEW c \in Commands, NEW verb \in Verbs, LoadForEdit(c, verb),
           UNCHANGED <<now, policy, rollout>>
    PROVE  PolicySound'
<1>. USE DEF PolicySound
<1>. DEFINE e == [Edit(verb, policy) EXCEPT !.persisted = TRUE]
            r == [at |-> "save", verb |-> verb, loaded |-> policy, edited |-> e, stop |-> rollout.stops]
<1>1. e \in Policy
  BY EditTyped
<1>2. e.persisted /\ Validate(e)
  <2>1. Validate(Edit(verb, policy)) /\ verb \in {"init", "enable", "schedule", "observe", "disable"}
    BY DEF LoadForEdit, Verbs
  <2>2. e.persisted /\ e.autoProcess = Edit(verb, policy).autoProcess /\ e.enabled = Edit(verb, policy).enabled
        /\ e.enforce = Edit(verb, policy).enforce /\ e.autoNative = Edit(verb, policy).autoNative
        /\ e.obs = Edit(verb, policy).obs
    BY <2>1 DEF Edit, Disabled, DefaultPolicy, Policy
  <2>. QED BY <2>1, <2>2 DEF Validate
<1>. HIDE DEF e
<1>3. r \in CmdRec
  BY <1>1 DEF CmdRec
<1>4. cmd' = [cmd EXCEPT ![c] = r]
  BY DEF LoadForEdit, e
<1>5. /\ r.at = "save" /\ r.edited = e
      /\ cmd'[c] = r /\ \A d \in Commands \ {c} : cmd'[d] = cmd[d]
  BY <1>4
<1>. HIDE DEF r
<1>6. cmd' \in [Commands -> CmdRec]
  BY <1>3, <1>4
<1>7. \A d \in Commands : cmd'[d].at = "save" => cmd'[d].edited.persisted /\ Validate(cmd'[d].edited)
  BY <1>2, <1>5
<1>8. Validate(policy)'
  BY DEF Validate
<1>. QED BY <1>6, <1>7, <1>8

LEMMA IdleTyped ==
    ASSUME PolicySound, NEW c \in Commands, cmd' = [cmd EXCEPT ![c] = NoCommand],
           UNCHANGED <<now, policy, rollout>>
    PROVE  PolicySound'
<1>1. NoCommand \in CmdRec /\ NoCommand.at # "save"
  BY DefaultTyped DEF NoCommand, CmdRec
<1>2. Validate(policy)'
  BY DEF Validate, PolicySound
<1>. QED BY <1>1, <1>2 DEF PolicySound

LEMMA SaveTyped ==
    ASSUME PolicySound, NEW c \in Commands, SavePolicy(c), UNCHANGED now
    PROVE  PolicySound'
<1>. USE DEF PolicySound
<1>1. NoCommand \in CmdRec /\ NoCommand.at # "save"
  BY DefaultTyped DEF NoCommand, CmdRec
<1>2. policy' \in Policy /\ Validate(policy') /\ cmd' = [cmd EXCEPT ![c] = NoCommand]
  BY DEF SavePolicy, CmdRec
<1>3. Validate(policy)'
  BY <1>2 DEF Validate
<1>4. cmd[c].edited.obs \in Never..MaxTime /\ now \in Nat
  BY CleanupAssumption DEF CmdRec, Policy
<1>5. rollout' \in [stops : Nat, stopped : BOOLEAN, since : Nat, lost : BOOLEAN]
  <2>. DEFINE at == IF cmd[c].edited.obs = Never THEN now ELSE cmd[c].edited.obs
  <2>1. at \in Nat /\ rollout.stops + 1 \in Nat
    BY <1>4, CleanupAssumption DEF Never
  <2>2. rollout' = Asked(c)
    BY DEF SavePolicy
  <2>3. CASE cmd[c].verb \in Stops
    <3>1. Asked(c) = [rollout EXCEPT !.stops = @ + 1, !.stopped = TRUE, !.since = at]
      BY <2>3 DEF Asked
    <3>. HIDE DEF at
    <3>. QED BY <2>1, <2>2, <3>1
  <2>4. CASE cmd[c].verb \notin Stops
    BY <2>2, <2>4 DEF Asked
  <2>. QED BY <2>3, <2>4
<1>. QED BY <1>1, <1>2, <1>3, <1>5

(***************************************************************************)
(* The steps of the server and of the commands.                            *)
(***************************************************************************)
\* The server's state beside a step that is none of its own.
LEMMA OutsideAsked ==
    ASSUME VerbsAsked, NEW c, Outside(c) \/ UNCHANGED approving, UNCHANGED previews
    PROVE  VerbsAsked'
<1>. USE DEF VerbsAsked
<1>1. /\ approving' \in [Requests -> ApprovalRec]
      /\ \A a \in Requests : approving'[a].at = approving[a].at /\ approving'[a].verb = approving[a].verb
  <2>1. CASE UNCHANGED approving
    BY <2>1
  <2>2. CASE Outside(c)
    <3>1. \A r \in ApprovalRec : LET o == [r EXCEPT !.outside = TRUE]
                                IN  o \in ApprovalRec /\ o.at = r.at /\ o.verb = r.verb
      BY DEF ApprovalRec
    <3>2. \A a \in Requests : approving[a] \in ApprovalRec
      OBVIOUS
    <3>. QED BY <2>2, <3>1, <3>2 DEF Outside
  <2>. QED BY <2>1, <2>2
<1>. QED BY <1>1

\* A verdict, a refusal, or nothing: no preview becomes pending by it.
LEMMA PutAsked ==
    ASSUME VerbsAsked
    PROVE  \A id, status : status # "pending" /\ Put(id, status) =>
              /\ DOMAIN previews' = Previews
              /\ \A i \in Previews : previews'[i].status = "pending" => previews'[i] = previews[i]
<1>1. \A status : [NoPreview EXCEPT !.status = status].status = status
  BY DEF NoPreview
<1>. QED BY <1>1 DEF Put, VerbsAsked

LEMMA PreviewAsked ==
    ASSUME PolicySound, VerbsAsked, NEW id \in Previews, NEW verb \in Verbs, Preview(id, verb)
    PROVE  VerbsAsked'
<1>. DEFINE r == [status |-> "pending", verb |-> verb, hash |-> StateHash, expires |-> now + PreviewTTL]
<1>1. r.verb = verb /\ r.hash = StateHash /\ StateHash[1] = policy
  BY DEF StateHash
<1>2. previews' = [Swept EXCEPT ![id] = r] /\ approving' = approving
  BY DEF Preview
<1>. HIDE DEF r
<1>3. DOMAIN Swept = Previews
      /\ \A i \in Previews : Swept[i].status = "pending" => Swept[i] = previews[i]
  BY DEF Swept, NoPreview
<1>4. DOMAIN previews' = Previews
      /\ \A i \in Previews : previews'[i] = IF i = id THEN r ELSE Swept[i]
  BY <1>2, <1>3
<1>5. \A i \in Previews : previews'[i].status = "pending" =>
         previews'[i].verb \in Verbs /\ previews'[i].hash[1] \in Policy
  BY <1>1, <1>3, <1>4 DEF VerbsAsked, PolicySound
<1>. QED BY <1>2, <1>4, <1>5 DEF VerbsAsked

LEMMA ServerTyped ==
    ASSUME PolicySound, VerbsAsked, ServerStep PROVE PolicySound' /\ VerbsAsked'
<1>0. Requests \subseteq Commands
  BY ControlAssumption
<1>1. ASSUME NEW id \in Previews, NEW verb \in Verbs, Preview(id, verb),
             UNCHANGED <<now, policy, cmd, rollout>>
      PROVE  PolicySound' /\ VerbsAsked'
  BY <1>1, PreviewAsked DEF PolicySound, Validate
<1>2. ASSUME NEW a \in Requests, NEW id \in Previews, Approve(a, id), UNCHANGED vars
      PROVE  PolicySound' /\ VerbsAsked'
  <2>. DEFINE r == [at |-> "run", preview |-> id, verb |-> previews[id].verb,
                    seen |-> previews[id].hash[1], outside |-> FALSE]
  <2>1. r \in ApprovalRec /\ r.verb \in Verbs
    BY <1>2 DEF Approve, VerbsAsked, ApprovalRec
  <2>2. approving' = [approving EXCEPT ![a] = r] /\ previews' = previews
    BY <1>2 DEF Approve
  <2>. HIDE DEF r
  <2>3. VerbsAsked'
    BY <2>1, <2>2 DEF VerbsAsked
  <2>. QED BY <1>2, <2>3 DEF PolicySound, Validate, vars
<1>3. ASSUME NEW a \in Requests, NEW id \in Previews, Refuse(a, id), UNCHANGED vars
      PROVE  PolicySound' /\ VerbsAsked'
  <2>1. /\ DOMAIN previews' = Previews
        /\ \A i \in Previews : previews'[i].status = "pending" => previews'[i] = previews[i]
    BY <1>3, PutAsked DEF Refuse
  <2>. QED BY <1>3, <2>1 DEF PolicySound, Validate, vars, VerbsAsked, Refuse
<1>4. ASSUME NEW a \in Requests, RunVerb(a), UNCHANGED <<now, policy, rollout>>
      PROVE  PolicySound' /\ VerbsAsked'
  <2>1. approving[a].verb \in Verbs /\ LoadForEdit(a, approving[a].verb)
    BY <1>4 DEF RunVerb, VerbsAsked
  <2>2. PolicySound'
    BY <1>0, <1>4, <2>1, LoadTyped
  <2>3. approving' = [approving EXCEPT ![a].at = "running"] /\ previews' = previews
    BY <1>4 DEF RunVerb
  <2>. QED BY <2>2, <2>3 DEF VerbsAsked, ApprovalRec
<1>5. ASSUME NEW a \in Requests, Verdict(a) \/ ServerDies(a), UNCHANGED <<now, policy, rollout>>
      PROVE  PolicySound' /\ VerbsAsked'
  <2>1. cmd' = [cmd EXCEPT ![a] = NoCommand] /\ approving' = [approving EXCEPT ![a] = NotApproving]
    BY <1>5 DEF Verdict, ServerDies
  <2>2. PolicySound'
    BY <1>0, <1>5, <2>1, IdleTyped
  <2>3. NotApproving \in ApprovalRec /\ NotApproving.at = "idle"
    BY DefaultTyped DEF NotApproving, ApprovalRec
  <2>4. /\ DOMAIN previews' = Previews
        /\ \A i \in Previews : previews'[i].status = "pending" => previews'[i] = previews[i]
    <3>. DEFINE id == approving[a].preview
    <3>1. UNCHANGED previews \/ \E status : status # "pending" /\ Put(id, status)
      BY <1>5 DEF Verdict, ServerDies, Status
    <3>. QED BY <3>1, PutAsked DEF VerbsAsked
  <2>5. VerbsAsked'
    BY <2>1, <2>3, <2>4 DEF VerbsAsked
  <2>. QED BY <2>2, <2>5
<1>6. ASSUME NEW a \in Requests, SaveVerb(a), UNCHANGED now
      PROVE  PolicySound' /\ VerbsAsked'
  <2>1. PolicySound'
    BY <1>0, <1>6, SaveTyped DEF SaveVerb
  <2>2. approving' = [approving EXCEPT ![a].at = "saved"] /\ previews' = previews
    BY <1>6 DEF SaveVerb
  <2>. QED BY <2>1, <2>2 DEF VerbsAsked, ApprovalRec
<1>. QED BY <1>1, <1>2, <1>3, <1>4, <1>5, <1>6 DEF ServerStep

(***************************************************************************)
(* The steps of a pass.                                                    *)
(***************************************************************************)
\* The end of a pass gives its locks back.
LEMMA EndsHeld ==
    ASSUME LocksHeld, NEW p \in Passes, Ends(p)
    PROVE  /\ LocksHeld' /\ pass'[p].at = "idle"
           /\ \A q \in Passes \ {p} : pass'[q] = pass[q]
<1>. USE DEF LocksHeld
<1>1. NoPass \in PassRec /\ NoPass.at = "idle"
  BY DefaultTyped DEF NoPass, PassRec
<1>2. /\ pass' \in [Passes -> PassRec] /\ pass'[p].at = "idle"
      /\ \A q \in Passes \ {p} : pass'[q] = pass[q]
  BY <1>1 DEF Ends
<1>3. /\ lock' \in [{"run", "policy", "claims"} -> Passes \cup {Free}]
      /\ \A l \in {"run", "policy", "claims"} : lock'[l] = IF lock[l] = p THEN Free ELSE lock[l]
  BY DEF Ends
<1>. QED BY <1>2, <1>3, NobodyAssumption DEF InRun, PastPolicy

\* A move that takes and gives the locks its place asks for.
LEMMA MoveHeld ==
    ASSUME LocksHeld, NEW p \in Passes, NEW r \in PassRec, pass' = [pass EXCEPT ![p] = r],
           lock' \in [{"run", "policy", "claims"} -> Passes \cup {Free}],
           \A l \in {"run", "policy", "claims"} : lock[l] # p /\ lock[l] # Free => lock'[l] = lock[l],
           \A l \in {"run", "policy", "claims"} : lock[l] \in {p, Free} => lock'[l] \in {p, Free},
           r.at \in InRun <=> lock'["run"] = p,
           r.at \in PastPolicy <=> lock'["policy"] = p,
           r.at = "reclaim" <=> lock'["claims"] = p
    PROVE  LocksHeld' /\ pass'[p] = r /\ \A q \in Passes \ {p} : pass'[q] = pass[q]
<1>. USE DEF LocksHeld
<1>1. /\ pass' \in [Passes -> PassRec] /\ pass'[p] = r
      /\ \A q \in Passes \ {p} : pass'[q] = pass[q]
  OBVIOUS
<1>2. \A q \in Passes \ {p}, l \in {"run", "policy", "claims"} : lock'[l] = q <=> lock[l] = q
  BY NobodyAssumption
<1>3. ASSUME NEW q \in Passes
      PROVE  /\ pass'[q].at \in InRun <=> lock'["run"] = q
             /\ pass'[q].at \in PastPolicy <=> lock'["policy"] = q
             /\ pass'[q].at = "reclaim" <=> lock'["claims"] = q
  <2>1. CASE q = p
    BY <1>1, <2>1
  <2>2. CASE q # p
    BY <1>1, <1>2, <2>2
  <2>. QED BY <2>1, <2>2
<1>. QED BY <1>1, <1>3

\* One pass at a time is past the run lock.
LEMMA OneRunning ==
    ASSUME LocksHeld, NEW p \in Passes, NEW q \in Passes, pass[p].at \in InRun, pass[q].at \in InRun
    PROVE  p = q
BY DEF LocksHeld

\* What a step of one pass leaves of the others.
LEMMA OthersKept ==
    ASSUME LocksHeld, Unclaimed, OnRecord, NEW p \in Passes, UNCHANGED <<now, claims, damaged>>,
           \A q \in Passes \ {p} : pass'[q] = pass[q],
           pass[p].at \in InRun \/ UNCHANGED <<ledger, reclaimed>>,
           PassClear(p)', PassOnRecord(p)', ReclaimOnRecord'
    PROVE  Unclaimed' /\ OnRecord'
<1>1. ASSUME NEW q \in Passes, q # p PROVE PassClear(q)'
  BY <1>1 DEF Unclaimed, PassClear, Claimed, Active
<1>2. ASSUME NEW q \in Passes, q # p PROVE PassOnRecord(q)'
  <2>1. CASE pass[q].at \in InRun
    <3>1. UNCHANGED <<ledger, reclaimed>>
      BY <1>2, <2>1, OneRunning
    <3>. QED BY <1>2, <3>1 DEF OnRecord, PassOnRecord
  <2>2. CASE pass[q].at \notin InRun
    BY <1>2, <2>2 DEF OnRecord, PassOnRecord, InRun
  <2>. QED BY <2>1, <2>2
<1>. QED BY <1>1, <1>2 DEF Unclaimed, OnRecord

\* A pass that ends, its ledger row written or not.
LEMMA EndsKept ==
    ASSUME LocksHeld, Unclaimed, OnRecord, NEW p \in Passes, Ends(p),
           UNCHANGED <<now, claims, damaged, reclaimed>>,
           pass[p].at \in InRun \/ UNCHANGED ledger, ReclaimOnRecord'
    PROVE  LocksHeld' /\ Unclaimed' /\ OnRecord'
<1>1. /\ LocksHeld' /\ pass'[p].at = "idle"
      /\ \A q \in Passes \ {p} : pass'[q] = pass[q]
  BY EndsHeld
<1>2. PassClear(p)' /\ PassOnRecord(p)'
  BY <1>1 DEF PassClear, PassOnRecord, InRun
<1>. QED BY <1>1, <1>2, OthersKept

\* A pass that writes nothing ends.
LEMMA EndsQuietly ==
    ASSUME LocksHeld, Unclaimed, OnRecord, NEW p \in Passes, Ends(p),
           UNCHANGED <<now, claims, damaged, reclaimed, ledger>>
    PROVE  LocksHeld' /\ Unclaimed' /\ OnRecord'
<1>1. ReclaimOnRecord'
  BY DEF OnRecord, ReclaimOnRecord
<1>. QED BY <1>1, EndsKept

\* What is needed of the types.
LEMMA PassTyped ==
    ASSUME PolicySound, HostTyped, LocksHeld, NEW p \in Passes
    PROVE  /\ lock \in [{"run", "policy", "claims"} -> Passes \cup {Free}] /\ p # Free
           /\ pass[p] \in PassRec /\ pass[p].began \in Nat /\ pass[p].checked \in Nat /\ pass[p].stamp \in Nat
           /\ now \in Nat /\ policy \in Policy /\ ledger.last \in Int /\ reclaimed.at \in Int
           /\ Cooldown \in Nat
BY NobodyAssumption, CleanupAssumption DEF PolicySound, HostTyped, LocksHeld, PassRec

LEMMA LoadPolicyKept ==
    ASSUME PolicySound, HostTyped, LocksHeld, Unclaimed, OnRecord, NEW p \in Passes, LoadPolicy(p),
           UNCHANGED <<now, claims, damaged>>
    PROVE  LocksHeld' /\ Unclaimed' /\ OnRecord'
<1>1. PICK at \in {"graduate", "run"} :
        pass' = [pass EXCEPT ![p] = [NoPass EXCEPT !.at = at, !.policy = policy, !.began = now]]
  BY DEF LoadPolicy
<1>. DEFINE r == [NoPass EXCEPT !.at = at, !.policy = policy, !.began = now]
<1>2. r \in PassRec /\ r.at = at /\ r.began = now
  BY PassTyped, DefaultTyped DEF NoPass, PassRec
<1>. HIDE DEF r
<1>3. pass[p].at = "idle" /\ UNCHANGED <<lock, ledger, reclaimed>>
  BY DEF LoadPolicy
<1>4. LocksHeld' /\ pass'[p] = r /\ \A q \in Passes \ {p} : pass'[q] = pass[q]
  <2>1. \A l \in {"run", "policy", "claims"} : lock[l] # p
    BY <1>3 DEF LocksHeld, InRun, PastPolicy
  <2>. QED BY <1>1, <1>2, <1>3, <2>1, PassTyped, MoveHeld DEF InRun, PastPolicy, r
<1>5. PassClear(p)' /\ PassOnRecord(p)' /\ ReclaimOnRecord'
  BY <1>2, <1>3, <1>4, PassTyped DEF PassClear, PassOnRecord, OnRecord, ReclaimOnRecord, InRun
<1>. QED BY <1>3, <1>4, <1>5, OthersKept

LEMMA TakeRunLockKept ==
    ASSUME PolicySound, HostTyped, LocksHeld, Unclaimed, OnRecord, NEW p \in Passes, TakeRunLock(p),
           UNCHANGED <<now, claims, damaged>>
    PROVE  LocksHeld' /\ Unclaimed' /\ OnRecord'
<1>1. CASE Ends(p)
  BY <1>1, EndsQuietly DEF TakeRunLock
<1>2. CASE ~Ends(p)
  <2>. DEFINE r == [pass[p] EXCEPT !.at = "plan", !.checked = now]
  <2>1. /\ ~WithinCooldown /\ pass[p].at = "run" /\ lock["run"] = Free
        /\ lock' = [lock EXCEPT !["run"] = p] /\ pass' = [pass EXCEPT ![p] = r]
        /\ UNCHANGED <<ledger, reclaimed>>
    BY <1>2 DEF TakeRunLock
  <2>2. r \in PassRec /\ r.at = "plan" /\ r.checked = now /\ r.began = pass[p].began
    BY PassTyped DEF PassRec, InRun
  <2>. HIDE DEF r
  <2>3. LocksHeld' /\ pass'[p] = r /\ \A q \in Passes \ {p} : pass'[q] = pass[q]
    <3>1. lock["policy"] # p /\ lock["claims"] # p
      BY <2>1 DEF LocksHeld, PastPolicy
    <3>. QED BY <2>1, <2>2, <3>1, PassTyped, MoveHeld DEF InRun, PastPolicy
  <2>4. reclaimed.at # Never => now - reclaimed.at >= Cooldown
    <3>1. ledger.last = Never \/ now - ledger.last > Cooldown
      BY <2>1, PassTyped DEF WithinCooldown
    <3>. QED BY <3>1, PassTyped DEF OnRecord, ReclaimOnRecord
  <2>5. pass[p].began <= now /\ now <= pass[p].began + 1
    BY <2>1 DEF OnRecord, PassOnRecord
  <2>6. PassClear(p)' /\ PassOnRecord(p)' /\ ReclaimOnRecord'
    BY <2>1, <2>2, <2>3, <2>4, <2>5, PassTyped DEF PassClear, PassOnRecord, OnRecord, ReclaimOnRecord
  <2>. QED BY <2>1, <2>3, <2>6, OthersKept DEF InRun
<1>. QED BY <1>1, <1>2

LEMMA GraduateKept ==
    ASSUME PolicySound, HostTyped, LocksHeld, Unclaimed, OnRecord, NEW p \in Passes, Graduate(p),
           UNCHANGED <<now, claims, damaged>>
    PROVE  LocksHeld' /\ Unclaimed' /\ OnRecord'
<1>1. CASE Ends(p)
  BY <1>1, EndsQuietly DEF Graduate
<1>2. CASE ~Ends(p)
  <2>. DEFINE r == [pass[p] EXCEPT !.at = "run", !.policy = policy]
  <2>1. /\ pass[p].at = "graduate" /\ pass' = [pass EXCEPT ![p] = r]
        /\ UNCHANGED <<lock, ledger, reclaimed>>
    BY <1>2 DEF Graduate
  <2>2. r \in PassRec /\ r.at = "run" /\ r.began = pass[p].began
    BY PassTyped DEF PassRec, InRun
  <2>. HIDE DEF r
  <2>3. LocksHeld' /\ pass'[p] = r /\ \A q \in Passes \ {p} : pass'[q] = pass[q]
    <3>1. \A l \in {"run", "policy", "claims"} : lock[l] # p
      BY <2>1 DEF LocksHeld, InRun, PastPolicy
    <3>. QED BY <2>1, <2>2, <3>1, PassTyped, MoveHeld DEF InRun, PastPolicy
  <2>4. PassClear(p)' /\ PassOnRecord(p)' /\ ReclaimOnRecord'
    BY <2>1, <2>2, <2>3, PassTyped DEF PassClear, PassOnRecord, OnRecord, ReclaimOnRecord, InRun
  <2>. QED BY <2>1, <2>3, <2>4, OthersKept
<1>. QED BY <1>1, <1>2

LEMMA PlanKept ==
    ASSUME PolicySound, HostTyped, LocksHeld, Unclaimed, OnRecord, NEW p \in Passes, Plan(p),
           UNCHANGED <<now, claims, damaged>>
    PROVE  LocksHeld' /\ Unclaimed' /\ OnRecord'
<1>1. CASE Ends(p)
  BY <1>1, EndsQuietly DEF Plan
<1>2. CASE ~Ends(p)
  <2>1. PICK res \in Resources, k \in ClaimIds \cup {"none"} :
          pass' = [pass EXCEPT ![p].at = "boundary", ![p].res = res, ![p].gen = gen[res], ![p].claim = k]
    BY <1>2 DEF Plan
  <2>. DEFINE r == [pass[p] EXCEPT !.at = "boundary", !.res = res, !.gen = gen[res], !.claim = k]
  <2>2. pass' = [pass EXCEPT ![p] = r] /\ pass[p].at = "plan" /\ UNCHANGED <<lock, ledger, reclaimed>>
    BY <1>2, <2>1 DEF Plan
  <2>3. r \in PassRec /\ r.at = "boundary" /\ r.began = pass[p].began /\ r.checked = pass[p].checked
    BY PassTyped DEF PassRec, InRun, HostTyped
  <2>. HIDE DEF r
  <2>4. LocksHeld' /\ pass'[p] = r /\ \A q \in Passes \ {p} : pass'[q] = pass[q]
    <3>1. lock["run"] = p /\ lock["policy"] # p /\ lock["claims"] # p
      BY <2>2 DEF LocksHeld, InRun, PastPolicy
    <3>. QED BY <2>2, <2>3, <3>1, PassTyped, MoveHeld DEF InRun, PastPolicy
  <2>5. PassClear(p)' /\ PassOnRecord(p)' /\ ReclaimOnRecord'
    BY <2>2, <2>3, <2>4, PassTyped DEF PassClear, PassOnRecord, OnRecord, ReclaimOnRecord, InRun
  <2>. QED BY <2>2, <2>4, <2>5, OthersKept
<1>. QED BY <1>1, <1>2

LEMMA FinalBoundaryKept ==
    ASSUME PolicySound, HostTyped, LocksHeld, Unclaimed, OnRecord, NEW p \in Passes, FinalBoundary(p),
           UNCHANGED <<now, claims, damaged>>
    PROVE  LocksHeld' /\ Unclaimed' /\ OnRecord'
<1>1. CASE Ends(p)
  BY <1>1, EndsQuietly DEF FinalBoundary
<1>2. CASE ~Ends(p)
  <2>. DEFINE r == [pass[p] EXCEPT !.at = "intent"]
  <2>1. /\ pass[p].at = "boundary" /\ lock["policy"] = Free
        /\ lock' = [lock EXCEPT !["policy"] = p] /\ pass' = [pass EXCEPT ![p] = r]
        /\ UNCHANGED <<ledger, reclaimed>>
    BY <1>2 DEF FinalBoundary
  <2>2. r \in PassRec /\ r.at = "intent" /\ r.began = pass[p].began /\ r.checked = pass[p].checked
    BY PassTyped DEF PassRec, InRun
  <2>. HIDE DEF r
  <2>3. LocksHeld' /\ pass'[p] = r /\ \A q \in Passes \ {p} : pass'[q] = pass[q]
    <3>1. lock["run"] = p /\ lock["claims"] # p
      BY <2>1 DEF LocksHeld, InRun
    <3>. QED BY <2>1, <2>2, <3>1, PassTyped, MoveHeld DEF InRun, PastPolicy
  <2>4. PassClear(p)' /\ PassOnRecord(p)' /\ ReclaimOnRecord'
    BY <2>1, <2>2, <2>3, PassTyped DEF PassClear, PassOnRecord, OnRecord, ReclaimOnRecord, InRun
  <2>. QED BY <2>1, <2>3, <2>4, OthersKept
<1>. QED BY <1>1, <1>2

\* The intent carries the time the cooldown was checked at.
LEMMA RecordIntentKept ==
    ASSUME PolicySound, HostTyped, LocksHeld, Unclaimed, OnRecord, NEW p \in Passes, RecordIntent(p),
           UNCHANGED <<now, claims, damaged>>
    PROVE  LocksHeld' /\ Unclaimed' /\ OnRecord'
<1>0. pass[p].at = "intent" /\ pass[p].at \in InRun /\ UNCHANGED reclaimed
  BY DEF RecordIntent, InRun
<1>1. CASE Ends(p) /\ AppendFails
  <2>1. ReclaimOnRecord'
    BY <1>0, <1>1 DEF AppendFails, OnRecord, ReclaimOnRecord, HostTyped
  <2>. QED BY <1>0, <1>1, <2>1, EndsKept
<1>2. CASE ~(Ends(p) /\ AppendFails)
  <2>. DEFINE r == [pass[p] EXCEPT !.at = "apply", !.stamp = now]
  <2>1. pass' = [pass EXCEPT ![p] = r] /\ UNCHANGED <<lock, reclaimed>> /\ AppendAction(pass[p].checked)
    BY <1>2 DEF RecordIntent
  <2>2. r \in PassRec /\ r.at = "apply" /\ r.began = pass[p].began /\ r.checked = pass[p].checked
        /\ r.stamp = now
    BY PassTyped DEF PassRec, InRun
  <2>. HIDE DEF r
  <2>3. LocksHeld' /\ pass'[p] = r /\ \A q \in Passes \ {p} : pass'[q] = pass[q]
    <3>1. lock["run"] = p /\ lock["policy"] = p /\ lock["claims"] # p
      BY <1>0 DEF LocksHeld, PastPolicy
    <3>. QED BY <2>1, <2>2, <3>1, PassTyped, MoveHeld DEF InRun, PastPolicy
  <2>4. ledger'.last = pass[p].checked
    BY <2>1 DEF AppendAction, HostTyped
  <2>5. /\ pass[p].began <= now /\ now <= pass[p].began + 1
        /\ pass[p].began <= pass[p].checked /\ pass[p].checked <= now
        /\ reclaimed.at # Never => pass[p].checked - reclaimed.at >= Cooldown
        /\ reclaimed.at <= now
    BY <1>0 DEF OnRecord, PassOnRecord, ReclaimOnRecord
  <2>6. PassClear(p)' /\ PassOnRecord(p)'
    BY <2>1, <2>2, <2>3, <2>4, <2>5 DEF PassClear, PassOnRecord
  <2>7. ReclaimOnRecord'
    BY <2>1, <2>4, <2>5, PassTyped DEF ReclaimOnRecord, Never
  <2>. QED BY <1>0, <2>3, <2>6, <2>7, OthersKept
<1>. QED BY <1>1, <1>2

\* The claims are read again under their lock.
LEMMA TakeClaimsLockKept ==
    ASSUME PolicySound, HostTyped, LocksHeld, Unclaimed, OnRecord, NEW p \in Passes, TakeClaimsLock(p),
           UNCHANGED <<now, claims, damaged>>
    PROVE  LocksHeld' /\ Unclaimed' /\ OnRecord'
<1>. DEFINE r == [pass[p] EXCEPT !.at = IF Revalidated(p) THEN "reclaim" ELSE "result"]
<1>1. /\ pass[p].at = "apply" /\ lock["claims"] = Free /\ pass' = [pass EXCEPT ![p] = r]
      /\ lock' = IF Revalidated(p) THEN [lock EXCEPT !["claims"] = p] ELSE lock
      /\ UNCHANGED <<ledger, reclaimed>>
  BY DEF TakeClaimsLock
<1>2. /\ r \in PassRec /\ r.at = IF Revalidated(p) THEN "reclaim" ELSE "result"
      /\ r.began = pass[p].began /\ r.checked = pass[p].checked /\ r.stamp = pass[p].stamp
      /\ r.res = pass[p].res
  BY PassTyped DEF PassRec, InRun
<1>. HIDE DEF r
<1>3. LocksHeld' /\ pass'[p] = r /\ \A q \in Passes \ {p} : pass'[q] = pass[q]
  <2>1. lock["run"] = p /\ lock["policy"] = p
    BY <1>1 DEF LocksHeld, InRun, PastPolicy
  <2>2. CASE Revalidated(p)
    BY <1>1, <1>2, <2>1, <2>2, PassTyped, MoveHeld DEF InRun, PastPolicy
  <2>3. CASE ~Revalidated(p)
    BY <1>1, <1>2, <2>1, <2>3, PassTyped, MoveHeld DEF InRun, PastPolicy
  <2>. QED BY <2>2, <2>3
<1>4. PassClear(p)'
  BY <1>1, <1>2, <1>3 DEF PassClear, Revalidated, ListFails, Claimed, Active
<1>5. PassOnRecord(p)' /\ ReclaimOnRecord'
  BY <1>1, <1>2, <1>3, PassTyped DEF PassOnRecord, OnRecord, ReclaimOnRecord, InRun
<1>. QED BY <1>1, <1>3, <1>4, <1>5, OthersKept

LEMMA ReclaimKept ==
    ASSUME PolicySound, HostTyped, LocksHeld, Unclaimed, OnRecord, NEW p \in Passes, Reclaim(p),
           UNCHANGED <<now, claims, damaged>>
    PROVE  LocksHeld' /\ Unclaimed' /\ OnRecord'
<1>. DEFINE r == [pass[p] EXCEPT !.at = "result"]
<1>1. /\ pass[p].at = "reclaim" /\ pass' = [pass EXCEPT ![p] = r]
      /\ lock' = [lock EXCEPT !["claims"] = Free] /\ UNCHANGED ledger
      /\ reclaimed'.at \in {reclaimed.at, now}
  BY DEF Reclaim
<1>2. /\ r \in PassRec /\ r.at = "result"
      /\ r.began = pass[p].began /\ r.checked = pass[p].checked /\ r.stamp = pass[p].stamp
  BY PassTyped DEF PassRec, InRun
<1>. HIDE DEF r
<1>3. LocksHeld' /\ pass'[p] = r /\ \A q \in Passes \ {p} : pass'[q] = pass[q]
  <2>1. lock["run"] = p /\ lock["policy"] = p /\ lock["claims"] = p
    BY <1>1 DEF LocksHeld, InRun, PastPolicy
  <2>. QED BY <1>1, <1>2, <2>1, PassTyped, MoveHeld DEF InRun, PastPolicy
<1>4. /\ pass[p].began <= now /\ now <= pass[p].began + 1
      /\ pass[p].began <= pass[p].checked /\ pass[p].checked <= now
      /\ pass[p].checked <= pass[p].stamp /\ ledger.last = pass[p].checked
  BY <1>1 DEF OnRecord, PassOnRecord, InRun
<1>5. PassClear(p)' /\ PassOnRecord(p)'
  BY <1>1, <1>2, <1>3, <1>4 DEF PassClear, PassOnRecord
<1>6. ReclaimOnRecord'
  BY <1>1, <1>4, PassTyped DEF OnRecord, ReclaimOnRecord, Never
<1>. QED BY <1>1, <1>3, <1>5, <1>6, OthersKept DEF InRun

LEMMA RecordResultKept ==
    ASSUME PolicySound, HostTyped, LocksHeld, Unclaimed, OnRecord, NEW p \in Passes, RecordResult(p),
           UNCHANGED <<now, claims, damaged>>
    PROVE  LocksHeld' /\ Unclaimed' /\ OnRecord'
<1>0. pass[p].at = "result" /\ pass[p].at \in InRun /\ UNCHANGED reclaimed /\ Ends(p)
  BY DEF RecordResult, InRun
<1>1. ledger'.last \in {ledger.last, pass[p].stamp}
  BY DEF RecordResult, AppendAction, AppendFails, HostTyped
<1>2. /\ now <= pass[p].began + 1 /\ pass[p].began <= pass[p].checked
      /\ pass[p].checked <= pass[p].stamp /\ reclaimed.at <= now
  BY <1>0 DEF OnRecord, PassOnRecord, ReclaimOnRecord
<1>3. ReclaimOnRecord'
  BY <1>0, <1>1, <1>2, PassTyped DEF OnRecord, ReclaimOnRecord, Never
<1>. QED BY <1>0, <1>3, EndsKept

LEMMA PassKept ==
    ASSUME PolicySound, HostTyped, LocksHeld, Unclaimed, OnRecord, NEW p \in Passes, PassStep(p)
    PROVE  LocksHeld' /\ Unclaimed' /\ OnRecord'
<1>0. UNCHANGED <<now, claims, damaged>>
  BY DEF PassStep
<1>1. ASSUME Killed(p) PROVE LocksHeld' /\ Unclaimed' /\ OnRecord'
  BY <1>0, <1>1, EndsQuietly DEF Killed
<1>. QED BY <1>0, <1>1, LoadPolicyKept, GraduateKept, TakeRunLockKept, PlanKept, FinalBoundaryKept,
            RecordIntentKept, TakeClaimsLockKept, ReclaimKept, RecordResultKept DEF PassStep

\* What a pass writes of the policy and of the ledger is typed.
LEMMA PassStepTyped ==
    ASSUME PolicySound, HostTyped, LocksHeld, NEW p \in Passes, PassStep(p)
    PROVE  PolicySound' /\ HostTyped'
<1>1. policy' \in Policy /\ Validate(policy')
  <2>1. ASSUME AutoGraduationDue(policy), Validate(Advance(policy)), policy' = Advance(policy)
        PROVE  policy' \in Policy /\ Validate(policy')
    BY <2>1, AdvanceTyped DEF PolicySound
  <2>2. UNCHANGED policy \/ (AutoGraduationDue(policy) /\ Validate(Advance(policy)) /\ policy' = Advance(policy))
    BY DEF PassStep, LoadPolicy, Graduate, TakeRunLock, Plan, FinalBoundary, RecordIntent,
           TakeClaimsLock, Reclaim, RecordResult, Killed
  <2>. QED BY <2>1, <2>2 DEF PolicySound
<1>2. PolicySound'
  BY <1>1 DEF PolicySound, PassStep, Validate
<1>3. ledger' \in [last : Int, torn : BOOLEAN]
  <2>1. UNCHANGED ledger \/ AppendFails \/ AppendAction(pass[p].checked) \/ AppendAction(pass[p].stamp)
    BY DEF PassStep, LoadPolicy, Graduate, TakeRunLock, Plan, FinalBoundary, RecordIntent,
           TakeClaimsLock, Reclaim, RecordResult, Killed
  <2>2. \A i \in Int : [ledger EXCEPT !.last = i] \in [last : Int, torn : BOOLEAN]
    BY DEF HostTyped
  <2>3. [ledger EXCEPT !.torn = TRUE] \in [last : Int, torn : BOOLEAN]
    BY DEF HostTyped
  <2>4. pass[p].checked \in Int /\ pass[p].stamp \in Int
    BY PassTyped
  <2>. QED BY <2>1, <2>2, <2>3, <2>4 DEF HostTyped, AppendFails, AppendAction
<1>4. reclaimed'.at \in {reclaimed.at, now}
  <2>1. CASE Reclaim(p)
    BY <2>1 DEF Reclaim
  <2>2. CASE ~Reclaim(p)
    BY <2>2 DEF PassStep, LoadPolicy, Graduate, TakeRunLock, Plan, FinalBoundary, RecordIntent,
                TakeClaimsLock, RecordResult, Killed
  <2>. QED BY <2>1, <2>2
<1>. QED BY <1>2, <1>3, <1>4, PassTyped DEF HostTyped, PassStep

(***************************************************************************)
(* The steps of the host.                                                  *)
(***************************************************************************)
\* Claims change under their lock only, and time only ends them.
LEMMA ClaimStepKept ==
    ASSUME HostTyped, LocksHeld, Unclaimed, PolicySound, ClaimStep
    PROVE  HostTyped' /\ Unclaimed'
<1>1. \A p \in Passes : pass[p].at # "reclaim"
  BY NobodyAssumption DEF ClaimStep, Acquire, Heartbeat, Release, MayClaim, LocksHeld
<1>2. UNCHANGED <<gen, ledger, reclaimed, pass>>
  BY DEF ClaimStep
<1>3. claims' \in [ClaimIds -> Claim]
  <2>0. NoClaim \in Claim /\ now + TTL \in Int
    BY CleanupAssumption DEF NoClaim, Claim, Never, PolicySound
  <2>1. ASSUME NEW k \in ClaimIds, NEW r \in Resources, NEW reap \in BOOLEAN, Acquire(k, r, reap)
        PROVE  claims' \in [ClaimIds -> Claim]
    <3>. DEFINE c == [res |-> r, expires |-> now + TTL, gen |-> gen[r], reap |-> reap]
    <3>1. c \in Claim
      BY <2>0 DEF Claim, HostTyped
    <3>2. claims' = [claims EXCEPT ![k] = c]
      BY <2>1 DEF Acquire
    <3>. HIDE DEF c
    <3>. QED BY <3>1, <3>2 DEF HostTyped
  <2>2. ASSUME NEW k \in ClaimIds, Heartbeat(k) PROVE claims' \in [ClaimIds -> Claim]
    <3>. DEFINE c == [claims[k] EXCEPT !.expires = now + TTL]
    <3>1. c \in Claim
      BY <2>0 DEF Claim, HostTyped
    <3>2. claims' = [claims EXCEPT ![k] = c]
      BY <2>2 DEF Heartbeat
    <3>. HIDE DEF c
    <3>. QED BY <3>1, <3>2 DEF HostTyped
  <2>3. ASSUME NEW k \in ClaimIds, Release(k) PROVE claims' \in [ClaimIds -> Claim]
    BY <2>0, <2>3 DEF Release, HostTyped
  <2>. QED BY <2>1, <2>2, <2>3 DEF ClaimStep
<1>. QED BY <1>1, <1>2, <1>3 DEF HostTyped, Unclaimed, PassClear

LEMMA DamageKept == ASSUME LocksHeld, DamageClaim PROVE Unclaimed'
BY NobodyAssumption DEF DamageClaim, LocksHeld, Unclaimed, PassClear

LEMMA TickKept ==
    ASSUME HostTyped, LocksHeld, PolicySound, Unclaimed, OnRecord, Tick
    PROVE  PolicySound' /\ Unclaimed' /\ OnRecord'
<1>1. /\ now' = now + 1 /\ now < MaxTime /\ now \in Nat
      /\ UNCHANGED <<policy, claims, damaged, ledger, lock, gen, pass, cmd, reclaimed, rollout>>
      /\ \A p \in Passes : pass[p].at # "idle" => pass[p].began = now
  BY CleanupAssumption DEF Tick, PolicySound
<1>2. PolicySound'
  <2>1. now' \in 0..MaxTime
    BY <1>1, CleanupAssumption
  <2>. QED BY <1>1, <2>1 DEF PolicySound, Validate
<1>3. Unclaimed'
  <2>1. \A r, k : Active(k)' /\ k \in ClaimIds => Active(k)
    BY <1>1 DEF Active, HostTyped, Claim
  <2>. QED BY <1>1, <2>1 DEF Unclaimed, PassClear, Claimed
<1>4. OnRecord'
  <2>1. ReclaimOnRecord'
    BY <1>1 DEF OnRecord, ReclaimOnRecord, HostTyped
  <2>2. ASSUME NEW p \in Passes PROVE PassOnRecord(p)'
    <3>1. pass[p].began \in Nat /\ pass[p].checked \in Nat
      BY PassTyped
    <3>. QED BY <1>1, <3>1 DEF OnRecord, PassOnRecord, InRun
  <2>. QED BY <2>1, <2>2 DEF OnRecord
<1>. QED BY <1>2, <1>3, <1>4

\* What the passes and their records are left alone by.
passView == <<now, claims, damaged, ledger, lock, gen, pass, reclaimed>>
LEMMA FrameKept ==
    ASSUME HostTyped, LocksHeld, Unclaimed, OnRecord, UNCHANGED passView
    PROVE  HostTyped' /\ LocksHeld' /\ Unclaimed' /\ OnRecord'
BY DEF passView, HostTyped, LocksHeld, Unclaimed, PassClear, Claimed, Active, OnRecord,
       ReclaimOnRecord, PassOnRecord

LEMMA CleanupStep == CleanupInv /\ [ControlNext]_allVars => CleanupInv'
<1>. SUFFICES ASSUME CleanupInv, [ControlNext]_allVars PROVE CleanupInv'
  OBVIOUS
<1>0. Terminals \subseteq Commands
  BY ControlAssumption
<1>. USE DEF CleanupInv
<1>1. CASE ServerStep
  <2>1. UNCHANGED passView
    BY <1>1 DEF ServerStep, vars, passView
  <2>. QED BY <1>1, <2>1, FrameKept, ServerTyped
<1>2. ASSUME NEW c \in Terminals, TypedVerb(c), UNCHANGED controlVars PROVE CleanupInv'
  <2>1. UNCHANGED passView /\ VerbsAsked'
    BY <1>2 DEF TypedVerb, passView, controlVars, VerbsAsked
  <2>2. PolicySound'
    BY <1>0, <1>2, LoadTyped DEF TypedVerb
  <2>. QED BY <2>1, <2>2, FrameKept
<1>3. ASSUME NEW c \in Terminals, SaveStep(c), Outside(c), UNCHANGED previews PROVE CleanupInv'
  <2>1. UNCHANGED passView
    BY <1>3 DEF SaveStep, passView
  <2>2. PolicySound' /\ VerbsAsked'
    BY <1>0, <1>3, SaveTyped, OutsideAsked DEF SaveStep
  <2>. QED BY <2>1, <2>2, FrameKept
<1>4. ASSUME NEW c \in Terminals, AbandonStep(c), UNCHANGED controlVars PROVE CleanupInv'
  <2>1. UNCHANGED passView /\ VerbsAsked'
    BY <1>4 DEF AbandonStep, passView, controlVars, VerbsAsked
  <2>2. PolicySound'
    BY <1>0, <1>4, IdleTyped DEF AbandonStep, AbandonCommand
  <2>. QED BY <2>1, <2>2, FrameKept
<1>5. ASSUME NEW p \in Passes, PassStep(p), Outside(p) \/ UNCHANGED approving, UNCHANGED previews
      PROVE  CleanupInv'
  BY <1>5, PassKept, PassStepTyped, OutsideAsked
<1>6. ASSUME ClaimStep, UNCHANGED controlVars PROVE CleanupInv'
  <2>1. HostTyped' /\ Unclaimed'
    BY <1>6, ClaimStepKept
  <2>2. PolicySound' /\ VerbsAsked' /\ LocksHeld' /\ OnRecord'
    BY <1>6 DEF ClaimStep, controlVars, PolicySound, Validate, VerbsAsked, LocksHeld, OnRecord,
                ReclaimOnRecord, PassOnRecord
  <2>. QED BY <2>1, <2>2
<1>7. ASSUME DamageClaim, UNCHANGED controlVars PROVE CleanupInv'
  <2>1. PolicySound' /\ VerbsAsked' /\ HostTyped' /\ LocksHeld' /\ OnRecord'
    BY <1>7 DEF DamageClaim, controlVars, PolicySound, Validate, VerbsAsked, HostTyped, LocksHeld,
                OnRecord, ReclaimOnRecord, PassOnRecord
  <2>. QED BY <1>7, <2>1, DamageKept
<1>8. ASSUME Tick, UNCHANGED controlVars PROVE CleanupInv'
  <2>1. VerbsAsked' /\ HostTyped' /\ LocksHeld'
    BY <1>8 DEF Tick, controlVars, VerbsAsked, HostTyped, LocksHeld
  <2>. QED BY <1>8, <2>1, TickKept
<1>9. ASSUME NEW r \in Resources, Restart(r) \/ Activity(r), UNCHANGED controlVars PROVE CleanupInv'
  <2>1. gen' \in [Resources -> Nat]
    BY <1>9 DEF Restart, Activity, HostTyped
  <2>2. UNCHANGED <<now, policy, claims, damaged, ledger, lock, pass, cmd, reclaimed, rollout>>
    BY <1>9 DEF Restart, Activity
  <2>3. PolicySound' /\ VerbsAsked' /\ LocksHeld' /\ Unclaimed' /\ OnRecord'
    BY <1>9, <2>2 DEF controlVars, PolicySound, Validate, VerbsAsked, LocksHeld,
                Unclaimed, PassClear, Claimed, Active, OnRecord, ReclaimOnRecord, PassOnRecord
  <2>. QED BY <2>1, <2>2, <2>3 DEF HostTyped
<1>10. ASSUME UNCHANGED allVars PROVE CleanupInv'
  <2>1. UNCHANGED passView /\ PolicySound' /\ VerbsAsked'
    BY <1>10 DEF allVars, vars, controlVars, passView, PolicySound, Validate, VerbsAsked
  <2>. QED BY <2>1, FrameKept
<1>. QED BY <1>1, <1>2, <1>3, <1>4, <1>5, <1>6, <1>7, <1>8, <1>9, <1>10 DEF ControlNext

(***************************************************************************)
(* The rollout: what the operator allowed, against what the policy allows. *)
(***************************************************************************)
\* A pass past the policy lock acts on the policy in the file.
PassHolds(p) ==
    /\ pass[p].at \in {"boundary", "intent", "apply", "reclaim"} =>
          pass[p].res \in Resources /\ Kind[pass[p].res] <= pass[p].policy.providers
    /\ pass[p].at \in {"intent", "apply", "reclaim"} =>
          policy = pass[p].policy /\ EnforcingPolicy(policy) /\ ValidateEnforcement(policy)

\* Leave to reclaim, now or later.
Leaves(pol) == pol.enforce \/ pol.autoProcess \/ pol.autoNative

PolicyAsAsked ==
    /\ policy.obs <= now
    /\ rollout.lost \/ /\ rollout.since <= now
                       /\ policy.obs # Never => policy.obs >= rollout.since
                       /\ Leaves(policy) => ~rollout.stopped
\* A command under way that knows of the last stop will not undo it unasked.
CommandAsAsked(c) ==
    cmd[c].at = "save" =>
        /\ cmd[c].verb \in Verbs /\ cmd[c].edited.obs <= now /\ cmd[c].stop <= rollout.stops
        /\ cmd[c].verb \in Stops => ~Leaves(cmd[c].edited)
        /\ cmd[c].verb \notin Stops /\ cmd[c].stop = rollout.stops =>
              rollout.lost \/ cmd[c].edited.obs >= rollout.since

RolloutInv ==
    /\ \A p \in Passes : PassHolds(p)
    /\ PolicyAsAsked
    /\ \A c \in Commands : CommandAsAsked(c)

LEMMA LoadAsAsked ==
    ASSUME PolicySound, RolloutInv, NEW c \in Commands, NEW verb \in Verbs, LoadForEdit(c, verb),
           UNCHANGED <<now, policy, pass, rollout>>
    PROVE  RolloutInv'
<1>. DEFINE e == [Edit(verb, policy) EXCEPT !.persisted = TRUE]
            r == [at |-> "save", verb |-> verb, loaded |-> policy, edited |-> e, stop |-> rollout.stops]
<1>1. cmd' = [cmd EXCEPT ![c] = r] /\ Allowed(verb, policy) /\ cmd \in [Commands -> CmdRec]
  BY DEF LoadForEdit, PolicySound
<1>2. /\ policy \in Policy /\ now \in Nat /\ rollout.since \in Nat /\ rollout.stops \in Nat
      /\ policy.obs \in Int /\ Never \in Int /\ Never < 0
  BY CleanupAssumption DEF PolicySound, Policy, Never
<1>3. /\ verb \in Stops => ~Leaves(e)
      /\ verb \in {"init", "observe"} => e.obs = now
      /\ verb = "disable" => e.obs = Never
      /\ verb = "enable" => e.obs = policy.obs
      /\ verb = "schedule" => e.obs = IF policy.obs = Never THEN now ELSE policy.obs
  <2>1. CASE verb = "init"
    BY <1>2, <2>1 DEF Edit, DefaultPolicy, Stops, Leaves, Policy
  <2>2. CASE verb = "enable"
    BY <1>2, <2>2 DEF Edit, Stops, Leaves, Policy
  <2>3. CASE verb = "schedule"
    BY <1>2, <2>3 DEF Edit, Stops, Leaves, Policy
  <2>4. CASE verb = "observe"
    BY <1>2, <2>4 DEF Edit, Stops, Leaves, Policy
  <2>5. CASE verb = "disable"
    BY <1>2, <2>5 DEF Edit, Disabled, Stops, Leaves, Policy
  <2>. QED BY <2>1, <2>2, <2>3, <2>4, <2>5 DEF Verbs
<1>4. verb = "enable" => policy.obs # Never
  BY <1>1, CleanupAssumption DEF Allowed, ObservationRemaining
<1>. HIDE DEF e
<1>5. e.obs <= now
  BY <1>2, <1>3 DEF RolloutInv, PolicyAsAsked, Verbs
<1>6. verb \notin Stops => rollout.lost \/ e.obs >= rollout.since
  BY <1>2, <1>3, <1>4 DEF RolloutInv, PolicyAsAsked, Verbs, Stops
<1>7. /\ r.at = "save" /\ r.verb = verb /\ r.edited = e /\ r.stop = rollout.stops
      /\ \A d \in Commands : cmd'[d] = IF d = c THEN r ELSE cmd[d]
  BY <1>1
<1>. HIDE DEF r
<1>8. \A d \in Commands : CommandAsAsked(d)'
  BY <1>2, <1>3, <1>5, <1>6, <1>7 DEF RolloutInv, CommandAsAsked
<1>9. PolicyAsAsked' /\ \A p \in Passes : PassHolds(p)'
  BY DEF RolloutInv, PolicyAsAsked, PassHolds, EnforcingPolicy, ValidateEnforcement,
         ObservationRemaining, GraduationAt
<1>. QED BY <1>8, <1>9 DEF RolloutInv

LEMMA IdleAsAsked ==
    ASSUME PolicySound, RolloutInv, NEW c \in Commands, cmd' = [cmd EXCEPT ![c] = NoCommand],
           UNCHANGED <<now, policy, pass, rollout>>
    PROVE  RolloutInv'
<1>1. \A d \in Commands : cmd'[d] = cmd[d] \/ cmd'[d].at # "save"
  BY DEF PolicySound, NoCommand
<1>2. \A d \in Commands : CommandAsAsked(d)'
  BY <1>1 DEF RolloutInv, CommandAsAsked
<1>. QED BY <1>2 DEF RolloutInv, PolicyAsAsked, PassHolds, EnforcingPolicy, ValidateEnforcement,
                   ObservationRemaining, GraduationAt

\* The write: a stop forbids, an informed grant allows, an uninformed one is recorded as lost.
LEMMA SaveAsAsked ==
    ASSUME PolicySound, LocksHeld, RolloutInv, NEW c \in Commands, SavePolicy(c), UNCHANGED <<now, pass>>
    PROVE  RolloutInv'
<1>. DEFINE e == cmd[c].edited
            at == IF e.obs = Never THEN now ELSE e.obs
<1>0. /\ cmd[c].at = "save" /\ lock["policy"] = Free /\ policy' = e /\ rollout' = Asked(c)
      /\ \A d \in Commands : cmd'[d] = cmd[d] \/ cmd'[d].at # "save"
  BY DEF SavePolicy, PolicySound, NoCommand
<1>1. /\ e \in Policy /\ e.obs \in Int /\ now \in Nat /\ Never < 0
      /\ rollout \in [stops : Nat, stopped : BOOLEAN, since : Nat, lost : BOOLEAN]
  BY CleanupAssumption DEF PolicySound, Policy, CmdRec, Never
<1>2. /\ cmd[c].verb \in Verbs /\ e.obs <= now /\ cmd[c].stop <= rollout.stops
      /\ cmd[c].verb \in Stops => ~Leaves(e)
      /\ cmd[c].verb \notin Stops /\ cmd[c].stop = rollout.stops =>
            rollout.lost \/ e.obs >= rollout.since
  BY <1>0 DEF RolloutInv, CommandAsAsked
<1>3. \A p \in Passes : PassHolds(p)'
  <2>1. \A p \in Passes : pass[p].at \notin PastPolicy
    BY <1>0, NobodyAssumption DEF LocksHeld
  <2>. QED BY <2>1 DEF RolloutInv, PassHolds, PastPolicy
<1>4. CASE cmd[c].verb \in Stops
  <2>1. rollout' = [rollout EXCEPT !.stops = @ + 1, !.stopped = TRUE, !.since = at]
    BY <1>0, <1>4 DEF Asked
  <2>2. at <= now /\ (e.obs # Never => e.obs >= at)
    BY <1>1, <1>2
  <2>. HIDE DEF at, e
  <2>3. rollout'.stops = rollout.stops + 1 /\ rollout'.since = at /\ rollout'.lost = rollout.lost
    BY <1>1, <2>1
  <2>4. PolicyAsAsked'
    BY <1>0, <1>2, <1>4, <2>2, <2>3 DEF PolicyAsAsked
  <2>5. ASSUME NEW d \in Commands PROVE CommandAsAsked(d)'
    <3>1. cmd[d].stop \in Nat /\ rollout.stops \in Nat
      BY <1>1 DEF PolicySound, CmdRec
    <3>. QED BY <1>0, <2>3, <3>1 DEF RolloutInv, CommandAsAsked
  <2>. QED BY <1>3, <2>4, <2>5 DEF RolloutInv
<1>5. CASE cmd[c].verb \notin Stops /\ cmd[c].stop = rollout.stops
  <2>1. rollout' = [rollout EXCEPT !.stopped = FALSE]
    BY <1>0, <1>5 DEF Asked
  <2>2. rollout'.stops = rollout.stops /\ rollout'.since = rollout.since /\ rollout'.lost = rollout.lost
        /\ ~rollout'.stopped
    BY <1>1, <2>1
  <2>. HIDE DEF e
  <2>3. PolicyAsAsked'
    BY <1>0, <1>2, <1>5, <2>2 DEF RolloutInv, PolicyAsAsked
  <2>4. \A d \in Commands : CommandAsAsked(d)'
    BY <1>0, <2>2 DEF RolloutInv, CommandAsAsked
  <2>. QED BY <1>3, <2>3, <2>4 DEF RolloutInv
<1>6. CASE cmd[c].verb \notin Stops /\ cmd[c].stop # rollout.stops
  <2>1. rollout' = [rollout EXCEPT !.lost = TRUE]
    BY <1>0, <1>6 DEF Asked
  <2>2. rollout'.stops = rollout.stops /\ rollout'.lost
    BY <1>1, <2>1
  <2>. HIDE DEF e
  <2>. QED BY <1>0, <1>2, <1>3, <2>2 DEF RolloutInv, PolicyAsAsked, CommandAsAsked
<1>. QED BY <1>4, <1>5, <1>6

\* A graduation, and the places of a pass.
LEMMA PassAsAsked ==
    ASSUME PolicySound, HostTyped, LocksHeld, RolloutInv, NEW p \in Passes, PassStep(p)
    PROVE  RolloutInv'
<1>. DEFINE Step == \/ LoadPolicy(p) \/ Graduate(p) \/ TakeRunLock(p) \/ Plan(p) \/ FinalBoundary(p)
                    \/ RecordIntent(p) \/ TakeClaimsLock(p) \/ Reclaim(p) \/ RecordResult(p) \/ Killed(p)
<1>0. Step /\ UNCHANGED <<now, cmd, rollout>> /\ pass \in [Passes -> PassRec]
  BY DEF PassStep, LocksHeld
<1>1. \/ UNCHANGED policy
      \/ lock["policy"] = Free /\ AutoGraduationDue(policy) /\ policy' = Advance(policy)
  BY <1>0 DEF LoadPolicy, Graduate, TakeRunLock, Plan, FinalBoundary, RecordIntent,
           TakeClaimsLock, Reclaim, RecordResult, Killed
<1>2. PolicyAsAsked'
  <2>1. AutoGraduationDue(policy) => Leaves(policy)
    BY DEF AutoGraduationDue, Leaves
  <2>2. policy'.obs = policy.obs /\ (Leaves(policy') => Leaves(policy))
    BY <1>1, <2>1, AdvanceTyped DEF PolicySound
  <2>. QED BY <1>0, <2>2 DEF RolloutInv, PolicyAsAsked
<1>3. \A c \in Commands : CommandAsAsked(c)'
  BY <1>0 DEF RolloutInv, CommandAsAsked
<1>4. \A q \in Passes \ {p} : pass'[q] = pass[q]
  BY <1>0 DEF LoadPolicy, Graduate, TakeRunLock, Plan, FinalBoundary, RecordIntent,
           TakeClaimsLock, Reclaim, RecordResult, Killed, Ends
<1>5. UNCHANGED policy \/ \A q \in Passes : pass[q].at \notin PastPolicy
  BY <1>1, NobodyAssumption DEF LocksHeld
<1>6. ASSUME NEW q \in Passes, q # p PROVE PassHolds(q)'
  <2>1. pass'[q] = pass[q] /\ PassHolds(q)
    BY <1>4, <1>6 DEF RolloutInv
  <2>. QED BY <1>0, <1>5, <2>1 DEF PassHolds, PastPolicy, EnforcingPolicy, ValidateEnforcement,
                   ObservationRemaining, GraduationAt
<1>7. PassHolds(p)'
  <2>0. PassHolds(p)
    BY DEF RolloutInv
  <2>1. CASE Ends(p)
    BY <2>1 DEF Ends, NoPass, PassHolds, LocksHeld
  <2>2. CASE LoadPolicy(p)
    BY <1>0, <2>2 DEF LoadPolicy, NoPass, PassHolds
  <2>3. CASE Graduate(p) /\ ~Ends(p)
    <3>1. pass' = [pass EXCEPT ![p].at = "run", ![p].policy = policy]
      BY <2>3 DEF Graduate
    <3>2. pass'[p].at = "run"
      BY <1>0, <3>1 DEF PassRec
    <3>. QED BY <3>2 DEF PassHolds
  <2>4. CASE TakeRunLock(p) /\ ~Ends(p)
    <3>1. pass' = [pass EXCEPT ![p].at = "plan", ![p].checked = now]
      BY <2>4 DEF TakeRunLock
    <3>2. pass'[p].at = "plan"
      BY <1>0, <3>1 DEF PassRec
    <3>. QED BY <3>2 DEF PassHolds
  <2>5. CASE Plan(p) /\ ~Ends(p)
    <3>1. PICK res \in Resources, k \in ClaimIds \cup {"none"} :
            /\ Candidate(pass[p].policy, res, k)
            /\ pass' = [pass EXCEPT ![p].at = "boundary", ![p].res = res, ![p].gen = gen[res], ![p].claim = k]
      BY <2>5 DEF Plan
    <3>2. pass'[p].at = "boundary" /\ pass'[p].res = res /\ pass'[p].policy = pass[p].policy
      BY <1>0, <3>1 DEF PassRec
    <3>. QED BY <3>1, <3>2 DEF PassHolds, Candidate
  <2>6. CASE FinalBoundary(p) /\ ~Ends(p)
    <3>1. pass[p].at = "boundary" /\ Unchanged(p) /\ pass' = [pass EXCEPT ![p].at = "intent"]
          /\ UNCHANGED policy
      BY <2>6 DEF FinalBoundary
    <3>2. pass'[p].at = "intent" /\ pass'[p].res = pass[p].res /\ pass'[p].policy = pass[p].policy
      BY <1>0, <3>1 DEF PassRec
    <3>. QED BY <1>0, <2>0, <3>1, <3>2 DEF PassHolds, Unchanged, EnforcingPolicy, ValidateEnforcement,
                   ObservationRemaining, GraduationAt
  <2>7. CASE RecordIntent(p) /\ ~Ends(p)
    <3>1. pass[p].at = "intent" /\ pass' = [pass EXCEPT ![p].at = "apply", ![p].stamp = now]
          /\ UNCHANGED policy
      BY <2>7 DEF RecordIntent
    <3>2. pass'[p].at = "apply" /\ pass'[p].res = pass[p].res /\ pass'[p].policy = pass[p].policy
      BY <1>0, <3>1 DEF PassRec
    <3>. QED BY <1>0, <2>0, <3>1, <3>2 DEF PassHolds, EnforcingPolicy, ValidateEnforcement,
                   ObservationRemaining, GraduationAt
  <2>8. CASE TakeClaimsLock(p)
    <3>1. pass[p].at = "apply" /\ UNCHANGED policy
          /\ pass' = [pass EXCEPT ![p].at = IF Revalidated(p) THEN "reclaim" ELSE "result"]
      BY <2>8 DEF TakeClaimsLock
    <3>2. /\ pass'[p].at \in {"reclaim", "result"} /\ pass'[p].res = pass[p].res
          /\ pass'[p].policy = pass[p].policy
      BY <1>0, <3>1 DEF PassRec
    <3>. QED BY <1>0, <2>0, <3>1, <3>2 DEF PassHolds, EnforcingPolicy, ValidateEnforcement,
                   ObservationRemaining, GraduationAt
  <2>9. CASE Reclaim(p)
    BY <1>0, <2>9 DEF Reclaim, PassHolds
  <2>10. RecordResult(p) \/ Killed(p) => Ends(p)
    BY DEF RecordResult, Killed
  <2>. QED BY <1>0, <2>1, <2>2, <2>3, <2>4, <2>5, <2>6, <2>7, <2>8, <2>9, <2>10
<1>. QED BY <1>2, <1>3, <1>6, <1>7 DEF RolloutInv

LEMMA RolloutStep ==
    CleanupInv /\ RolloutInv /\ [ControlNext]_allVars => RolloutInv'
<1>. SUFFICES ASSUME CleanupInv, RolloutInv, [ControlNext]_allVars PROVE RolloutInv'
  OBVIOUS
<1>0. Terminals \subseteq Commands /\ Requests \subseteq Commands
  BY ControlAssumption
<1>. USE DEF CleanupInv
<1>1. ASSUME UNCHANGED <<now, policy, pass, cmd, rollout>> PROVE RolloutInv'
  BY <1>1 DEF RolloutInv, PassHolds, PolicyAsAsked, CommandAsAsked, EnforcingPolicy,
              ValidateEnforcement, ObservationRemaining, GraduationAt
<1>2. ASSUME NEW a \in Requests, RunVerb(a), UNCHANGED <<now, policy, pass, rollout>> PROVE RolloutInv'
  BY <1>0, <1>2, LoadAsAsked DEF RunVerb, VerbsAsked
<1>3. ASSUME NEW a \in Requests, Verdict(a) \/ ServerDies(a), UNCHANGED <<now, policy, pass, rollout>>
      PROVE  RolloutInv'
  BY <1>0, <1>3, IdleAsAsked DEF Verdict, ServerDies
<1>4. ASSUME NEW a \in Requests, SaveVerb(a), UNCHANGED <<now, pass>> PROVE RolloutInv'
  BY <1>0, <1>4, SaveAsAsked DEF SaveVerb
<1>5. CASE ServerStep
  BY <1>1, <1>2, <1>3, <1>4, <1>5 DEF ServerStep, vars
<1>6. ASSUME NEW c \in Terminals, TypedVerb(c) PROVE RolloutInv'
  BY <1>0, <1>6, LoadAsAsked DEF TypedVerb
<1>7. ASSUME NEW c \in Terminals, SaveStep(c) PROVE RolloutInv'
  BY <1>0, <1>7, SaveAsAsked DEF SaveStep
<1>8. ASSUME NEW c \in Terminals, AbandonStep(c) PROVE RolloutInv'
  BY <1>0, <1>8, IdleAsAsked DEF AbandonStep, AbandonCommand
<1>9. ASSUME NEW p \in Passes, PassStep(p) PROVE RolloutInv'
  BY <1>9, PassAsAsked
<1>10. CASE ClaimStep \/ DamageClaim \/ \E r \in Resources : Restart(r) \/ Activity(r)
  BY <1>1, <1>10 DEF ClaimStep, DamageClaim, Restart, Activity
<1>11. CASE Tick
  <2>1. now' = now + 1 /\ now \in Nat /\ UNCHANGED <<policy, pass, cmd, rollout>>
    BY <1>11, CleanupAssumption DEF Tick, PolicySound
  <2>2. PolicyAsAsked' /\ \A c \in Commands : CommandAsAsked(c)'
    <3>1. policy.obs \in Int /\ rollout.since \in Nat /\ \A c \in Commands : cmd[c].edited.obs \in Int
      BY CleanupAssumption DEF PolicySound, Policy, CmdRec, Never
    <3>. QED BY <2>1, <3>1 DEF RolloutInv, PolicyAsAsked, CommandAsAsked
  <2>3. ValidateEnforcement(policy) => ValidateEnforcement(policy)'
    <3>1. ObservationRemaining(policy) = 0 => ObservationRemaining(policy)' = 0
      <4>1. policy.obs \in Int /\ GraduationAt(policy, 1) \in Int /\ Window \in Nat
        BY CleanupAssumption DEF PolicySound, Policy, Never, GraduationAt
      <4>. QED BY <2>1, <4>1 DEF ObservationRemaining, GraduationAt
    <3>2. ASSUME NEW stage \in 2..policy.providers, now >= GraduationAt(policy, stage)
          PROVE  now' >= GraduationAt(policy, stage)'
      <4>1. GraduationAt(policy, stage) \in Int /\ GraduationAt(policy, stage)' = GraduationAt(policy, stage)
        BY <2>1, CleanupAssumption DEF PolicySound, Policy, Never, GraduationAt
      <4>. QED BY <2>1, <3>2, <4>1
    <3>. QED BY <2>1, <3>1, <3>2 DEF ValidateEnforcement
  <2>4. \A p \in Passes : PassHolds(p)'
    BY <2>1, <2>3 DEF RolloutInv, PassHolds, EnforcingPolicy
  <2>. QED BY <2>2, <2>4 DEF RolloutInv
<1>12. CASE UNCHANGED allVars
  BY <1>1, <1>12 DEF allVars, vars
<1>. QED BY <1>5, <1>6, <1>7, <1>8, <1>9, <1>10, <1>11, <1>12 DEF ControlNext

(***************************************************************************)
(* The theorems.                                                           *)
(***************************************************************************)
LEMMA CleanupInit == ControlInit => CleanupInv /\ RolloutInv
<1>. SUFFICES ASSUME ControlInit PROVE CleanupInv /\ RolloutInv
  OBVIOUS
<1>. USE DEF ControlInit, Init
<1>1. /\ policy \in Policy /\ Validate(policy) /\ policy.obs \in {0, Never}
      /\ ~policy.persisted => ~Leaves(policy) /\ policy.obs = Never
  <2>0. 0 \in Never..MaxTime /\ Never \in Never..MaxTime /\ 4 \in 1..4 /\ Never # 0
    BY CleanupAssumption DEF Never
  <2>1. CASE policy = DefaultPolicy
    BY <2>0, <2>1 DEF DefaultPolicy, Policy, Validate, Leaves
  <2>2. CASE policy = ScheduledPolicy
    BY <2>0, <2>2 DEF ScheduledPolicy, DefaultPolicy, Policy, Validate
  <2>3. CASE policy = EditedPolicy
    BY <2>0, <2>3 DEF EditedPolicy, DefaultPolicy, Policy, Validate
  <2>. QED BY <2>1, <2>2, <2>3
<1>2. NoCommand \in CmdRec /\ NoCommand.at = "idle" /\ NoPass \in PassRec /\ NoPass.at = "idle"
      /\ NoClaim \in Claim /\ NotApproving \in ApprovalRec /\ NotApproving.at = "idle"
  BY DefaultTyped DEF NoCommand, CmdRec, NoPass, PassRec, NoClaim, Claim, NotApproving, ApprovalRec, Never
<1>3. PolicySound
  <2>1. rollout \in [stops : Nat, stopped : BOOLEAN, since : Nat, lost : BOOLEAN]
    <3>1. rollout = [stops |-> 0, stopped |-> ~policy.persisted, since |-> 0, lost |-> FALSE]
      OBVIOUS
    <3>. QED BY <3>1
  <2>. QED BY <1>1, <1>2, <2>1, CleanupAssumption DEF PolicySound
<1>4. VerbsAsked
  BY <1>2 DEF VerbsAsked, NoPreview
<1>5. HostTyped
  BY <1>2 DEF HostTyped, Never
<1>6. LocksHeld
  BY <1>2, NobodyAssumption DEF LocksHeld, InRun, PastPolicy
<1>7. Unclaimed /\ OnRecord
  BY <1>2 DEF Unclaimed, PassClear, OnRecord, ReclaimOnRecord, PassOnRecord, Never, InRun
<1>8. RolloutInv
  <2>1. \A p \in Passes : PassHolds(p)
    BY <1>2 DEF PassHolds
  <2>2. \A c \in Commands : CommandAsAsked(c)
    BY <1>2 DEF CommandAsAsked
  <2>3. PolicyAsAsked
    <3>1. rollout.since = 0 /\ (rollout.stopped <=> ~policy.persisted) /\ now = 0
      OBVIOUS
    <3>. QED BY <1>1, <3>1 DEF PolicyAsAsked, Never
  <2>. QED BY <2>1, <2>2, <2>3 DEF RolloutInv
<1>. QED BY <1>3, <1>4, <1>5, <1>6, <1>7, <1>8 DEF CleanupInv

\* A reclaim is a step of one pass that holds all three locks.
LEMMA ReclaimStep ==
    ASSUME CleanupInv, RolloutInv, [ControlNext]_allVars, Reclaims
    PROVE  \E p \in Passes :
              /\ Reclaim(p) /\ Applies(p) /\ UNCHANGED <<now, claims, damaged, gen, policy, rollout>>
              /\ reclaimed' = [at |-> now, res |-> pass[p].res, gen |-> gen[pass[p].res],
                               planned |-> pass[p].gen, n |-> 1 - reclaimed.n]
<1>1. \E p \in Passes : PassStep(p)
  BY DEF Reclaims, ControlNext, ServerStep, TypedVerb, SaveStep, AbandonStep, ClaimStep, DamageClaim,
         Tick, Restart, Activity, allVars, vars
<1>2. PICK p \in Passes : PassStep(p)
  BY <1>1
<1>3. Reclaim(p)
  BY <1>2 DEF Reclaims, PassStep, LoadPolicy, Graduate, TakeRunLock, Plan, FinalBoundary, RecordIntent,
              TakeClaimsLock, RecordResult, Killed
<1>. QED BY <1>2, <1>3 DEF Reclaims, PassStep, Reclaim

\* An active claim wins over a pass, and so does an unreadable claim directory; what is
\* stopped is the generation that was planned (applyCandidate, matchingStaleProcessClaim).
THEOREM ClaimsProtect == ControlSpec => ClaimWins
<1>1. CleanupInv /\ RolloutInv /\ [ControlNext]_allVars =>
        [Reclaims => /\ ~damaged /\ ~Claimed(reclaimed'.res)
                     /\ Kind[reclaimed'.res] # 4 => reclaimed'.gen = reclaimed'.planned]_vars
  <2>. SUFFICES ASSUME CleanupInv, RolloutInv, [ControlNext]_allVars, Reclaims
                PROVE  /\ ~damaged /\ ~Claimed(reclaimed'.res)
                       /\ Kind[reclaimed'.res] # 4 => reclaimed'.gen = reclaimed'.planned
    OBVIOUS
  <2>1. PICK p \in Passes :
          /\ Reclaim(p) /\ Applies(p)
          /\ reclaimed' = [at |-> now, res |-> pass[p].res, gen |-> gen[pass[p].res],
                           planned |-> pass[p].gen, n |-> 1 - reclaimed.n]
    BY ReclaimStep
  <2>2. pass[p].at = "reclaim" /\ pass[p].res \in Resources
    BY <2>1 DEF Reclaim, RolloutInv, PassHolds
  <2>3. ~damaged /\ ~Claimed(pass[p].res)
    BY <2>2 DEF CleanupInv, Unclaimed, PassClear
  <2>4. Kind[pass[p].res] # 4 => gen[pass[p].res] = pass[p].gen
    <3>1. Kind[pass[p].res] \in {1, 2, 3, 4}
      BY <2>2, CleanupAssumption
    <3>. QED BY <2>1, <3>1 DEF Applies, ReapProcess, ExpireBrowser, TeardownDev
  <2>. QED BY <2>1, <2>3, <2>4
<1>. QED BY <1>1, CleanupInit, CleanupStep, RolloutStep, PTL DEF ControlSpec, ClaimWins

\* Two reclaims are a cooldown apart, wherever the pass that made the first one died
\* (withinCleanupCooldown reads an intent that was durable before the provider was called).
THEOREM CooldownKept == ControlSpec => ReclaimsSpaced
<1>1. CleanupInv /\ RolloutInv /\ [ControlNext]_allVars =>
        [Reclaims /\ reclaimed.at # Never => now - reclaimed.at >= Cooldown]_vars
  <2>. SUFFICES ASSUME CleanupInv, RolloutInv, [ControlNext]_allVars, Reclaims, reclaimed.at # Never
                PROVE  now - reclaimed.at >= Cooldown
    OBVIOUS
  <2>1. PICK p \in Passes : Reclaim(p)
    BY ReclaimStep
  <2>2. pass[p].checked - reclaimed.at >= Cooldown /\ pass[p].checked <= now
    BY <2>1 DEF Reclaim, CleanupInv, OnRecord, PassOnRecord, InRun
  <2>. QED BY <2>2, PassTyped DEF CleanupInv
<1>. QED BY <1>1, CleanupInit, CleanupStep, RolloutStep, PTL DEF ControlSpec, ReclaimsSpaced

\* Nothing is reclaimed after a stop until the operator allows it again, and a resource of
\* stage k only k windows after the observation the operator last started
\* (SavePolicy, finalMutationBoundary, ValidateEnforcement).
THEOREM RolloutKept == ControlSpec => RolloutHonoured
<1>1. CleanupInv /\ RolloutInv /\ [ControlNext]_allVars =>
        [Reclaims => \/ ~rollout.stopped /\ now >= rollout.since + Kind[reclaimed'.res] * Window
                     \/ rollout.lost]_vars
  <2>. SUFFICES ASSUME CleanupInv, RolloutInv, [ControlNext]_allVars, Reclaims, ~rollout.lost
                PROVE  ~rollout.stopped /\ now >= rollout.since + Kind[reclaimed'.res] * Window
    OBVIOUS
  <2>1. PICK p \in Passes :
          /\ Reclaim(p)
          /\ reclaimed' = [at |-> now, res |-> pass[p].res, gen |-> gen[pass[p].res],
                           planned |-> pass[p].gen, n |-> 1 - reclaimed.n]
    BY ReclaimStep
  <2>. DEFINE k == Kind[pass[p].res]
  <2>2. /\ pass[p].at = "reclaim" /\ pass[p].res \in Resources /\ k <= policy.providers
        /\ policy.enforce /\ ValidateEnforcement(policy)
    BY <2>1 DEF Reclaim, RolloutInv, PassHolds, EnforcingPolicy
  <2>3. /\ k \in 1..4 /\ policy.providers \in 1..4 /\ policy.obs \in Int /\ now \in Nat
        /\ rollout.since \in Nat /\ Window \in Nat \ {0}
    BY <2>2, CleanupAssumption DEF CleanupInv, PolicySound, Policy, Never
  <2>4. policy.obs # Never /\ now >= GraduationAt(policy, 1)
    <3>1. ObservationRemaining(policy) = 0 /\ GraduationAt(policy, 1) \in Int
      BY <2>2, <2>3 DEF ValidateEnforcement, GraduationAt
    <3>. QED BY <2>3, <3>1 DEF ObservationRemaining
  <2>5. now >= GraduationAt(policy, k)
    <3>1. CASE k = 1
      BY <2>4, <3>1
    <3>2. CASE k # 1
      <4>1. k \in 2..policy.providers
        BY <2>2, <2>3, <3>2
      <4>. QED BY <2>2, <4>1 DEF ValidateEnforcement
    <3>. QED BY <3>1, <3>2
  <2>6. policy.obs >= rollout.since /\ ~rollout.stopped
    BY <2>2, <2>4 DEF RolloutInv, PolicyAsAsked, Leaves
  <2>7. now >= rollout.since + k * Window
    <3>1. k * Window \in Int
      BY <2>3
    <3>. QED BY <2>3, <2>5, <2>6, <3>1 DEF GraduationAt
  <2>. QED BY <2>1, <2>6, <2>7
<1>. QED BY <1>1, CleanupInit, CleanupStep, RolloutStep, PTL DEF ControlSpec, RolloutHonoured

(***************************************************************************)
(* The approvals of the control server: for any number of requests,        *)
(* previews, typed commands and cleanup passes beside them.                *)
(***************************************************************************)

(***************************************************************************)
(* The invariant.                                                          *)
(***************************************************************************)
\* One approval at a time is past the mutex, and its child is where it says.
Serial ==
    /\ mu \in Requests \cup {Free}
    /\ \A a \in Requests : approving[a].at # "idle" <=> mu = a
    /\ \A a \in Requests : cmd[a].at = "save" <=> approving[a].at = "running"
    /\ \A a \in Requests : approving[a].at # "idle" =>
          approving[a].preview \in Previews /\ previews[approving[a].preview].status # "none"

\* Whoever changed the policy since the check was outside the server.
SeenKept ==
    \A a \in Requests :
        /\ approving[a].at = "run" => policy = approving[a].seen \/ approving[a].outside
        /\ approving[a].at = "running" => cmd[a].loaded = approving[a].seen \/ approving[a].outside

\* A preview whose command was saved is not pending, or its approval still is under way.
Consumed(id) ==
    /\ previews[id].status \notin {"none", "pending"} \/ \E a \in Requests :
          approving[a].at = "saved" /\ approving[a].preview = id
    /\ applied[id] = 1
AppliedKept ==
    /\ applied \in [Previews -> Nat]
    /\ \A id \in Previews : applied[id] = 0 \/ Consumed(id)
    /\ \A a \in Requests : /\ approving[a].at \in {"run", "running"} => applied[approving[a].preview] = 0
                           /\ approving[a].at = "saved" => applied[approving[a].preview] = 1

ApprovalInv == Serial /\ SeenKept /\ AppliedKept

(***************************************************************************)
(* The steps.                                                              *)
(***************************************************************************)
LEMMA Apart ==
    /\ Requests \subseteq Commands /\ Requests \cap Terminals = {} /\ Requests \cap Passes = {}
    /\ Free \notin Requests
BY ControlAssumption, NobodyAssumption

\* A step of a process that is none of the server's children.
LEMMA BesideServer ==
    ASSUME CleanupInv, ApprovalInv, UNCHANGED <<previews, mu, applied>>,
           \A a \in Requests : cmd'[a] = cmd[a],
           UNCHANGED <<approving, policy>> \/ \E c : c \notin Requests /\ Outside(c)
    PROVE  ApprovalInv'
<1>1. CASE UNCHANGED <<approving, policy>>
  BY <1>1 DEF ApprovalInv, Serial, SeenKept, AppliedKept, Consumed
<1>2. CASE \E c : c \notin Requests /\ Outside(c)
  <2>1. \A a \in Requests :
           /\ approving'[a].at = approving[a].at /\ approving'[a].preview = approving[a].preview
           /\ approving'[a].seen = approving[a].seen
           /\ approving[a].outside => approving'[a].outside
           /\ approving[a].at = "run" => approving'[a].outside
    <3>1. \A r \in ApprovalRec : LET o == [r EXCEPT !.outside = TRUE]
             IN  o.at = r.at /\ o.preview = r.preview /\ o.seen = r.seen /\ o.outside = TRUE
      BY DEF ApprovalRec
    <3>2. \A a \in Requests : approving[a] \in ApprovalRec
      BY DEF CleanupInv, VerbsAsked
    <3>. QED BY <1>2, <3>1, <3>2 DEF Outside
  <2>2. Serial'
    BY <2>1 DEF ApprovalInv, Serial
  <2>3. SeenKept'
    BY <2>1 DEF ApprovalInv, SeenKept
  <2>4. AppliedKept'
    BY <2>1 DEF ApprovalInv, AppliedKept, Consumed
  <2>. QED BY <2>2, <2>3, <2>4 DEF ApprovalInv
<1>. QED BY <1>1, <1>2

LEMMA PreviewStep ==
    ASSUME CleanupInv, ApprovalInv, NEW id \in Previews, NEW verb \in Verbs, Preview(id, verb),
           UNCHANGED <<policy, cmd>>
    PROVE  ApprovalInv'
<1>. DEFINE r == [status |-> "pending", verb |-> verb, hash |-> StateHash, expires |-> now + PreviewTTL]
<1>1. /\ previews' = [Swept EXCEPT ![id] = r] /\ previews[id].status = "none"
      /\ UNCHANGED <<mu, approving, applied>>
  BY DEF Preview, NoPreview
<1>2. r.status = "pending"
  OBVIOUS
<1>. HIDE DEF r
<1>3. /\ DOMAIN Swept = Previews
      /\ \A i \in Previews : Swept[i].status = previews[i].status \/ Swept[i].status = "removed"
  BY DEF Swept, NoPreview
<1>4. previews'[id].status = "pending"
      /\ \A i \in Previews \ {id} : previews'[i].status = previews[i].status \/ previews'[i].status = "removed"
  BY <1>1, <1>2, <1>3
<1>5. Serial'
  BY <1>1, <1>4 DEF ApprovalInv, Serial
<1>6. SeenKept'
  BY <1>1 DEF ApprovalInv, SeenKept
<1>7. AppliedKept'
  <2>1. applied[id] = 0
    BY <1>1 DEF ApprovalInv, Serial, AppliedKept, Consumed
  <2>. QED BY <1>1, <1>4, <2>1 DEF ApprovalInv, AppliedKept, Consumed
<1>. QED BY <1>5, <1>6, <1>7 DEF ApprovalInv

LEMMA ApproveStep ==
    ASSUME CleanupInv, ApprovalInv, NEW a \in Requests, NEW id \in Previews, Approve(a, id), UNCHANGED vars
    PROVE  ApprovalInv'
<1>. DEFINE r == [at |-> "run", preview |-> id, verb |-> previews[id].verb,
                  seen |-> previews[id].hash[1], outside |-> FALSE]
<1>1. /\ mu = Free /\ mu' = a /\ previews[id].status = "pending"
      /\ approving' = [approving EXCEPT ![a] = r] /\ UNCHANGED <<previews, applied, policy, cmd>>
  BY DEF Approve, Serialised, vars
<1>2. r.at = "run" /\ r.preview = id /\ r.seen = policy
  BY DEF Approve, StateHash
<1>. HIDE DEF r
<1>3. \A b \in Requests : approving'[b] = IF b = a THEN r ELSE approving[b]
  BY <1>1 DEF CleanupInv, VerbsAsked
<1>4. \A b \in Requests : approving[b].at = "idle"
  BY <1>1, Apart DEF ApprovalInv, Serial
<1>5. applied[id] = 0
  BY <1>1, <1>4 DEF ApprovalInv, AppliedKept, Consumed
<1>6. Serial'
  BY <1>1, <1>2, <1>3, <1>4, Apart DEF ApprovalInv, Serial
<1>7. SeenKept'
  BY <1>1, <1>2, <1>3, <1>4 DEF SeenKept
<1>8. AppliedKept'
  BY <1>1, <1>2, <1>3, <1>4, <1>5 DEF ApprovalInv, AppliedKept, Consumed
<1>. QED BY <1>6, <1>7, <1>8 DEF ApprovalInv

LEMMA RefuseStep ==
    ASSUME CleanupInv, ApprovalInv, NEW a \in Requests, NEW id \in Previews, Refuse(a, id), UNCHANGED vars
    PROVE  ApprovalInv'
<1>1. PICK status \in {"stale", "expired"} : Put(id, status)
  BY DEF Refuse
<1>2. mu = Free /\ UNCHANGED <<mu, approving, applied, policy, cmd>>
  BY DEF Refuse, vars
<1>3. previews'[id].status = status /\ \A i \in Previews \ {id} : previews'[i] = previews[i]
  BY <1>1 DEF Put, NoPreview, CleanupInv, VerbsAsked
<1>4. Serial'
  BY <1>2, Apart DEF ApprovalInv, Serial
<1>5. SeenKept'
  BY <1>2 DEF ApprovalInv, SeenKept
<1>6. AppliedKept'
  BY <1>2, <1>3 DEF ApprovalInv, AppliedKept, Consumed
<1>. QED BY <1>4, <1>5, <1>6 DEF ApprovalInv

LEMMA RunVerbStep ==
    ASSUME CleanupInv, ApprovalInv, NEW a \in Requests, RunVerb(a), UNCHANGED policy
    PROVE  ApprovalInv'
<1>1. /\ approving[a].at = "run" /\ approving' = [approving EXCEPT ![a].at = "running"]
      /\ UNCHANGED <<previews, mu, applied>>
  BY DEF RunVerb
<1>2. /\ cmd'[a].at = "save" /\ cmd'[a].loaded = policy
      /\ \A b \in Requests \ {a} : cmd'[b] = cmd[b]
  BY Apart DEF RunVerb, LoadForEdit, CleanupInv, PolicySound
<1>3. /\ approving'[a].at = "running" /\ approving'[a].preview = approving[a].preview
      /\ approving'[a].seen = approving[a].seen /\ approving'[a].outside = approving[a].outside
      /\ \A b \in Requests \ {a} : approving'[b] = approving[b]
  BY <1>1 DEF CleanupInv, VerbsAsked, ApprovalRec
<1>4. Serial'
  BY <1>1, <1>2, <1>3 DEF ApprovalInv, Serial
<1>5. SeenKept'
  BY <1>1, <1>2, <1>3 DEF ApprovalInv, SeenKept
<1>6. AppliedKept'
  BY <1>1, <1>3 DEF ApprovalInv, AppliedKept, Consumed
<1>. QED BY <1>4, <1>5, <1>6 DEF ApprovalInv

LEMMA SaveVerbStep ==
    ASSUME CleanupInv, ApprovalInv, NEW a \in Requests, SaveVerb(a)
    PROVE  ApprovalInv'
<1>. DEFINE id == approving[a].preview
<1>1. /\ approving[a].at = "running" /\ approving' = [approving EXCEPT ![a].at = "saved"]
      /\ applied' = [applied EXCEPT ![id] = @ + 1] /\ UNCHANGED <<previews, mu>>
  BY DEF SaveVerb
<1>2. cmd'[a].at = "idle" /\ \A b \in Requests \ {a} : cmd'[b] = cmd[b]
  BY Apart DEF SaveVerb, SavePolicy, NoCommand, CleanupInv, PolicySound
<1>3. /\ approving'[a].at = "saved" /\ approving'[a].preview = id
      /\ \A b \in Requests \ {a} : approving'[b] = approving[b] /\ approving[b].at = "idle"
  BY <1>1 DEF CleanupInv, VerbsAsked, ApprovalRec, ApprovalInv, Serial
<1>4. /\ id \in Previews /\ applied' \in [Previews -> Nat] /\ applied'[id] = 1
      /\ \A i \in Previews \ {id} : applied'[i] = applied[i]
  BY <1>1 DEF ApprovalInv, AppliedKept, Serial
<1>. HIDE DEF id
<1>5. Serial'
  BY <1>1, <1>2, <1>3, <1>4 DEF ApprovalInv, Serial, id
<1>6. SeenKept'
  BY <1>3 DEF SeenKept
<1>7. AppliedKept'
  <2>1. ASSUME NEW i \in Previews, i # id PROVE applied'[i] = 0 \/ Consumed(i)'
    <3>1. applied[i] = 0 \/ Consumed(i)
      BY DEF ApprovalInv, AppliedKept
    <3>2. CASE applied[i] = 0
      BY <1>4, <2>1, <3>2
    <3>3. CASE Consumed(i)
      <4>1. ~\E b \in Requests : approving[b].at = "saved"
        BY <1>1, <1>3
      <4>2. previews[i].status \notin {"none", "pending"} /\ applied[i] = 1
        BY <3>3, <4>1 DEF Consumed
      <4>. QED BY <1>1, <1>4, <2>1, <4>2 DEF Consumed
    <3>. QED BY <3>1, <3>2, <3>3
  <2>2. ASSUME NEW i \in Previews, i = id PROVE Consumed(i)'
    BY <1>3, <1>4, <2>2 DEF Consumed
  <2>3. \A i \in Previews : applied'[i] = 0 \/ Consumed(i)'
    BY <2>1, <2>2
  <2>4. \A b \in Requests : /\ approving'[b].at \in {"run", "running"} => applied'[approving'[b].preview] = 0
                            /\ approving'[b].at = "saved" => applied'[approving'[b].preview] = 1
    BY <1>3, <1>4
  <2>. QED BY <1>4, <2>3, <2>4 DEF AppliedKept
<1>. QED BY <1>5, <1>6, <1>7 DEF ApprovalInv

\* The approval is over: by its verdict, or by the death of the server.
LEMMA OverStep ==
    ASSUME CleanupInv, ApprovalInv, NEW a \in Requests, Verdict(a) \/ ServerDies(a), UNCHANGED policy
    PROVE  ApprovalInv'
<1>. DEFINE id == approving[a].preview
<1>1. /\ approving[a].at # "idle" /\ mu' = Free
      /\ approving' = [approving EXCEPT ![a] = NotApproving]
      /\ cmd' = [cmd EXCEPT ![a] = NoCommand]
  BY Apart DEF Verdict, ServerDies, ApprovalInv, Serial
<1>2. \A b \in Requests : approving'[b].at = "idle" /\ cmd'[b].at # "save"
  <2>1. mu = a
    BY <1>1 DEF ApprovalInv, Serial
  <2>2. \A b \in Requests \ {a} : approving'[b].at = "idle" /\ approving[b].at = "idle" /\ cmd'[b] = cmd[b]
    BY <1>1, <2>1, Apart DEF ApprovalInv, Serial, CleanupInv, VerbsAsked, PolicySound
  <2>3. approving'[a].at = "idle" /\ cmd'[a].at # "save"
    BY <1>1, Apart DEF NotApproving, NoCommand, CleanupInv, VerbsAsked, PolicySound
  <2>. QED BY <2>2, <2>3 DEF ApprovalInv, Serial
<1>3. id \in Previews /\ applied \in [Previews -> Nat]
      /\ \A i \in Previews \ {id} : applied[i] = 0 \/ (applied[i] = 1 /\ previews[i].status \notin {"none", "pending"})
  <2>1. \A b \in Requests : approving[b].at = "saved" => b = a
    BY <1>1 DEF ApprovalInv, Serial
  <2>. QED BY <1>1, <2>1 DEF ApprovalInv, Serial, AppliedKept, Consumed
<1>4. \A i \in Previews \ {id} : previews'[i] = previews[i]
  BY DEF Verdict, ServerDies, Put, CleanupInv, VerbsAsked
<1>5. applied' \in [Previews -> Nat] /\ \A i \in Previews \ {id} : applied'[i] = applied[i]
  <2>1. approving[a].at = "saved" => applied[id] = 1
    BY DEF ApprovalInv, AppliedKept
  <2>2. applied' = applied \/ (approving[a].at = "saved" /\ applied' = [applied EXCEPT ![id] = @ - 1])
    BY DEF Verdict, ServerDies
  <2>. HIDE DEF id
  <2>. QED BY <1>3, <2>1, <2>2
<1>6. applied'[id] = 0 \/ (applied'[id] = 1 /\ previews'[id].status \notin {"none", "pending"})
  <2>1. CASE Verdict(a)
    <3>1. PICK status \in {"approved", "failed"} : Put(id, status)
      BY <2>1 DEF Verdict, Status
    <3>2. previews'[id].status = status
      BY <1>3, <3>1 DEF Put, NoPreview, CleanupInv, VerbsAsked
    <3>. QED BY <1>3, <2>1, <3>2 DEF Verdict, ApprovalInv, AppliedKept, Consumed
  <2>2. CASE ServerDies(a)
    <3>1. CASE approving[a].at = "saved"
      BY <1>3, <2>2, <3>1 DEF ServerDies, ApprovalInv, AppliedKept
    <3>2. CASE approving[a].at # "saved"
      <4>1. applied[id] = 0
        BY <1>1, <3>2 DEF ApprovalInv, AppliedKept, CleanupInv, VerbsAsked, ApprovalRec
      <4>. QED BY <2>2, <3>2, <4>1 DEF ServerDies
    <3>. QED BY <3>1, <3>2
  <2>. QED BY <2>1, <2>2
<1>. HIDE DEF id
<1>7. Serial'
  BY <1>1, <1>2, Apart DEF Serial
<1>8. SeenKept'
  BY <1>2 DEF SeenKept
<1>9. AppliedKept'
  BY <1>2, <1>3, <1>4, <1>5, <1>6 DEF AppliedKept, Consumed
<1>. QED BY <1>7, <1>8, <1>9 DEF ApprovalInv

LEMMA ApprovalStep ==
    CleanupInv /\ ApprovalInv /\ [ControlNext]_allVars => ApprovalInv'
<1>. SUFFICES ASSUME CleanupInv, ApprovalInv, [ControlNext]_allVars PROVE ApprovalInv'
  OBVIOUS
<1>1. CASE ServerStep
  <2>1. ASSUME NEW id \in Previews, NEW verb \in Verbs, Preview(id, verb), UNCHANGED <<policy, cmd>>
        PROVE  ApprovalInv'
    BY <2>1, PreviewStep
  <2>2. ASSUME NEW a \in Requests, NEW id \in Previews, Approve(a, id) \/ Refuse(a, id), UNCHANGED vars
        PROVE  ApprovalInv'
    BY <2>2, ApproveStep, RefuseStep
  <2>3. ASSUME NEW a \in Requests, RunVerb(a) \/ Verdict(a) \/ ServerDies(a), UNCHANGED policy
        PROVE  ApprovalInv'
    BY <2>3, RunVerbStep, OverStep
  <2>4. ASSUME NEW a \in Requests, SaveVerb(a) PROVE ApprovalInv'
    BY <2>4, SaveVerbStep
  <2>. QED BY <1>1, <2>1, <2>2, <2>3, <2>4 DEF ServerStep
<1>2. ASSUME NEW c \in Terminals, TypedVerb(c), UNCHANGED controlVars PROVE ApprovalInv'
  <2>1. \A a \in Requests : cmd'[a] = cmd[a]
    BY <1>2, Apart DEF TypedVerb, LoadForEdit, CleanupInv, PolicySound
  <2>. QED BY <1>2, <2>1, BesideServer DEF TypedVerb, controlVars
<1>3. ASSUME NEW c \in Terminals, SaveStep(c), Outside(c), UNCHANGED <<previews, mu, applied>>
      PROVE  ApprovalInv'
  <2>1. \A a \in Requests : cmd'[a] = cmd[a]
    BY <1>3, Apart DEF SaveStep, SavePolicy, CleanupInv, PolicySound
  <2>2. c \notin Requests
    BY Apart
  <2>. QED BY <1>3, <2>1, <2>2, BesideServer
<1>4. ASSUME NEW c \in Terminals, AbandonStep(c), UNCHANGED controlVars PROVE ApprovalInv'
  <2>1. \A a \in Requests : cmd'[a] = cmd[a]
    BY <1>4, Apart DEF AbandonStep, AbandonCommand, CleanupInv, PolicySound
  <2>. QED BY <1>4, <2>1, BesideServer DEF AbandonStep, controlVars
<1>5. ASSUME NEW p \in Passes, PassStep(p), UNCHANGED <<previews, mu, applied>>,
             IF policy' = policy THEN UNCHANGED approving ELSE Outside(p)
      PROVE  ApprovalInv'
  <2>1. p \notin Requests /\ UNCHANGED cmd
    BY <1>5, Apart DEF PassStep
  <2>2. UNCHANGED <<approving, policy>> \/ Outside(p)
    BY <1>5
  <2>. QED BY <1>5, <2>1, <2>2, BesideServer
<1>6. CASE /\ ClaimStep \/ DamageClaim \/ Tick \/ \E r \in Resources : Restart(r) \/ Activity(r)
           /\ UNCHANGED controlVars
  <2>1. UNCHANGED <<cmd, policy>>
    BY <1>6 DEF ClaimStep, DamageClaim, Tick, Restart, Activity
  <2>. QED BY <1>6, <2>1, BesideServer DEF controlVars
<1>7. CASE UNCHANGED allVars
  BY <1>7, BesideServer DEF allVars, vars, controlVars
<1>. QED BY <1>1, <1>2, <1>3, <1>4, <1>5, <1>6, <1>7 DEF ControlNext

LEMMA ApprovalInit == ControlInit => ApprovalInv
<1>. SUFFICES ASSUME ControlInit PROVE ApprovalInv
  OBVIOUS
<1>1. \A a \in Requests : approving[a].at = "idle" /\ cmd[a].at # "save"
  BY Apart DEF ControlInit, Init, NotApproving, NoCommand
<1>2. mu = Free /\ applied = [id \in Previews |-> 0]
  BY DEF ControlInit
<1>. QED BY <1>1, <1>2, Apart DEF ApprovalInv, Serial, SeenKept, AppliedKept

(***************************************************************************)
(* The theorems.                                                           *)
(***************************************************************************)
\* The verb of an approval edits the policy its preview was taken on, unless a process
\* outside the server wrote it after the check (handleActionApprove keeps the mutex from the
\* hash check to the verdict); and the locks, the policy and the children are what TypeOK says.
THEOREM ApprovalOnSeen == ControlSpec => []ApprovedOnSeen
<1>1. CleanupInv /\ ApprovalInv => ApprovedOnSeen
  <2>. SUFFICES ASSUME CleanupInv, ApprovalInv PROVE ApprovedOnSeen
    OBVIOUS
  <2>1. CleanupTypeOK
    BY DEF CleanupInv, PolicySound, LocksHeld, CleanupTypeOK, InRun, PastPolicy
  <2>2. mu # Free => approving[mu].at # "idle"
    BY DEF ApprovalInv, Serial
  <2>. QED BY <2>1, <2>2 DEF ApprovalInv, Serial, SeenKept, ApprovedOnSeen, TypeOK
<1>. QED BY <1>1, CleanupInit, CleanupStep, ApprovalInit, ApprovalStep, PTL DEF ControlSpec

\* A preview's command saves at most once, however its approval ended, as long as the server
\* lives to write the verdict (handleActionApprove refuses what is not pending).
THEOREM CommandAppliedOnce == ControlSpec => []AppliedOnce
<1>1. ApprovalInv => AppliedOnce
  BY DEF ApprovalInv, AppliedKept, Consumed, AppliedOnce
<1>. QED BY <1>1, CleanupInit, CleanupStep, ApprovalInit, ApprovalStep, PTL DEF ControlSpec
=============================================================================
