----------------------------- MODULE StorageProofs -----------------------------
(***************************************************************************)
(* Theorems about storage apply: for any number of commands and providers, *)
(* any requests and cooldown, and any crashes, faults and owners.          *)
(***************************************************************************)
EXTENDS StorageReclaim, TLAPS

(***************************************************************************)
(* The invariant.                                                          *)
(***************************************************************************)
Unfailed == {"next", "check", "run", "recreate", "remove"}
Undoing  == {"rollback", "unlink", "putback"}
Inside   == Unfailed \cup Undoing \cup {"result"}       \* the reclaim lock is held
Begun    == Inside \ {"next"}                             \* a provider is under way
Moved    == {"recreate", "remove"} \cup Undoing          \* and its directory is aside
Over(c)  == at[c] \in {"ended", "dead"}

Names     == Providers \cup AutoSafe
FileSets  == SUBSET {"old", "new", "absent"}
Aways     == [by : Commands, of : Names, files : FileSets]
RowRec    == [by : Commands, of : Names, mode : {"intent", "result"},
              outcome : {"intent_persisted", "completed", "failed"}, time : Nat,
              force : {Request[c].force : c \in Commands}]
GhostRec  == [after : [Providers -> SUBSET Commands], hurt : BOOLEAN,
              restored : SUBSET (Commands \X Names), taken : SUBSET (Commands \X Names)]

\* What a command may have left to do.
Shapes(c) == IF Unattended(c) THEN {<<>>, <<"pnpm-store">>, <<"browser-dead-profiles", "pnpm-store">>}
             ELSE {<<>>, <<Request[c].provider>>}
Left(s) == IF s = <<>> THEN {} ELSE {Head(s)} \cup (IF Tail(s) = <<>> THEN {} ELSE {Head(Tail(s))})

Typed ==
    /\ now \in Nat /\ active \subseteq Providers
    /\ dir \in [Providers -> FileSets]
    /\ quarantines \subseteq Aways
    /\ receipts \in Seq(RowRec)
    /\ holder \in Commands \cup {NoOne}
    /\ at \in [Commands -> Inside \cup {"start", "lock", "ended", "dead"}]
    /\ DOMAIN todo = Commands /\ \A c \in Commands : todo[c] \in Shapes(c)
    /\ failed \in [Commands -> BOOLEAN]
    /\ ghost \in GhostRec

\* Where a command is, what it has left, and the lock.
Placed ==
    \A c \in Commands : /\ at[c] \in Inside <=> holder = c
                        /\ at[c] \in Begun => todo[c] # <<>>
                        /\ at[c] \in Unfailed \cup {"start", "lock"} => ~failed[c]
                        /\ at[c] \in Undoing => failed[c]

\* A directory is aside for the provider under way of a command that moved it, or for ever.
AsideKept ==
    /\ \A q \in quarantines :
          \/ Over(q.by)
          \/ q.of = Current(q.by) /\ (at[q.by] \in Moved \/ (at[q.by] = "result" /\ failed[q.by]))
    /\ \A q, r \in quarantines : q.by = r.by /\ q.of = r.of => q = r
    /\ \A c \in Commands : at[c] \in Moved => \E q \in quarantines : q.by = c /\ q.of = Current(c)

\* An owner that runs while its provider is about to be touched started behind the check.
Spared ==
    /\ ~ghost.hurt
    /\ \A c \in Commands : at[c] = "run" /\ Current(c) \in Watched \cap active =>
          c \in ghost.after[Current(c)]

Intended(a) == \E r \in Rows : r.mode = "intent" /\ <<r.by, r.of>> = a
OnReceipt ==
    /\ \A c \in Commands : at[c] \in Begun => Intended(<<c, Current(c)>>)
    /\ \A a \in ghost.taken : Intended(a)

\* A completed reclaim is not returned to.
Settled ==
    /\ \A r \in Rows : r.outcome = "completed" =>
          /\ r.mode = "result"
          /\ Over(r.by) \/ (at[r.by] \in Inside /\ r.of \notin Left(todo[r.by]))
          /\ <<r.by, r.of>> \notin ghost.restored
          /\ \A q \in quarantines : <<q.by, q.of>> # <<r.by, r.of>>
    /\ \A a \in ghost.restored : Over(a[1]) \/ (at[a[1]] = "result" /\ failed[a[1]])

StorageInv == Typed /\ Placed /\ AsideKept /\ Spared /\ OnReceipt /\ Settled /\ ReclaimsApart

(***************************************************************************)
(* What is left to do, the rows, and the directory that is aside.          *)
(***************************************************************************)
LEMMA ShapeTail ==
    ASSUME NEW c \in Commands, NEW s, s \in Shapes(c), s # <<>>
    PROVE  /\ Tail(s) \in Shapes(c) /\ Head(s) \in Names
           /\ Left(Tail(s)) = Left(s) \ {Head(s)} /\ Head(s) \in Left(s)
<1>1. CASE Unattended(c) /\ s = <<"pnpm-store">>
  BY <1>1 DEF Shapes, Left, Names, AutoSafe
<1>2. CASE Unattended(c) /\ s = <<"browser-dead-profiles", "pnpm-store">>
  <2>1. Tail(s) = <<"pnpm-store">> /\ Head(s) = "browser-dead-profiles"
    BY <1>2
  <2>2. Left(s) = {"browser-dead-profiles", "pnpm-store"} /\ Left(Tail(s)) = {"pnpm-store"}
    BY <2>1, <1>2 DEF Left
  <2>. QED BY <1>2, <2>1, <2>2 DEF Shapes, Names, AutoSafe
<1>3. CASE ~Unattended(c) /\ s = <<Request[c].provider>>
  <2>1. Request[c].provider \in Providers
    BY <1>3, StorageAssumption DEF Unattended
  <2>. QED BY <1>3, <2>1 DEF Shapes, Left, Names
<1>. QED BY <1>1, <1>2, <1>3 DEF Shapes

LEMMA SelectedShape ==
    ASSUME NEW c \in Commands PROVE <<>> \in Shapes(c) /\ Selected(c) \in Shapes(c) /\ Selected(c) # <<>>
BY DEF Shapes, Selected, Unattended

\* A receipt is added to the others.
LEMMA RowAdded ==
    ASSUME receipts \in Seq(RowRec), NEW row \in RowRec, receipts' = Append(receipts, row)
    PROVE  receipts' \in Seq(RowRec) /\ Rows' = Rows \cup {row}
BY DEF Rows

LEMMA RowTyped ==
    ASSUME Typed, NEW c \in Commands, NEW p \in Names, NEW mode \in {"intent", "result"},
           NEW outcome \in {"intent_persisted", "completed", "failed"}
    PROVE  /\ Row(c, p, mode, outcome) \in RowRec
           /\ Row(c, p, mode, outcome).by = c /\ Row(c, p, mode, outcome).of = p
           /\ Row(c, p, mode, outcome).mode = mode /\ Row(c, p, mode, outcome).outcome = outcome
           /\ Row(c, p, mode, outcome).time = now
           /\ Row(c, p, mode, outcome).force = Request[c].force
BY DEF Row, RowRec, Typed

LEMMA RowsTyped == ASSUME Typed PROVE Rows \subseteq RowRec
BY DEF Rows, Typed

\* The directory a command has aside is the one it put there.
LEMMA AsideIs ==
    ASSUME Typed, AsideKept, NEW c \in Commands, at[c] \in Moved
    PROVE  /\ Aside(c) \in quarantines /\ Aside(c).by = c /\ Aside(c).of = Current(c)
           /\ \A q \in quarantines : q.by = c /\ q.of = Current(c) => q = Aside(c)
           /\ Aside(c) \in Aways
<1>1. \E q \in quarantines : q.by = c /\ q.of = Current(c)
  BY DEF AsideKept
<1>2. Aside(c) \in quarantines /\ Aside(c).by = c /\ Aside(c).of = Current(c)
  BY <1>1 DEF Aside
<1>. QED BY <1>2 DEF AsideKept, Typed

LEMMA CurrentNamed ==
    ASSUME Typed, NEW c \in Commands, todo[c] # <<>>
    PROVE  Current(c) \in Names
BY ShapeTail DEF Typed, Current

(***************************************************************************)
(* A step of a command: its own place, and that of the others.             *)
(***************************************************************************)
LEMMA OthersStay ==
    ASSUME Typed, NEW c \in Commands, Step(c) \/ Crash(c)
    PROVE  /\ \A d \in Commands \ {c} : at'[d] = at[d] /\ todo'[d] = todo[d] /\ failed'[d] = failed[d]
           /\ DOMAIN todo' = Commands
           /\ UNCHANGED <<now, active>>
BY DEF Typed, Step, Crash, Plan, PlanRefused, Lock, LockTimeout, Finish, Skip, Refuse, Intent, Check,
       RunTool, Quarantine, Recreate, Remove, Rollback, Unlink, RollbackRename, Result, End, Leave, Go,
       Failing, host, Fault

\* The kinds of steps a command makes.
Leaves(c)   == \E how \in {"ended", "dead"} : Leave(c, how)
Advances(c) == /\ at[c] \in Inside /\ todo[c] # <<>> /\ UNCHANGED <<holder, todo>>
               /\ \E pc \in Begun : Go(c, pc)
Drops(c)    == /\ at[c] \in {"next", "result"} /\ todo[c] # <<>> /\ ~failed[c] /\ at'[c] = "next"
               /\ todo' = [todo EXCEPT ![c] = Tail(@)] /\ UNCHANGED <<holder, failed>>

LEMMA StepKinds ==
    ASSUME Typed, Placed, NEW c \in Commands, Step(c) \/ Crash(c)
    PROVE  Leaves(c) \/ Advances(c) \/ Drops(c) \/ Plan(c) \/ Lock(c)
<1>. USE DEF Typed, Placed, Inside, Begun, Unfailed, Undoing, Go
<1>1. PlanRefused(c) \/ LockTimeout(c) \/ Finish(c) \/ Refuse(c) \/ Crash(c) => Leaves(c)
  BY DEF PlanRefused, LockTimeout, Finish, Refuse, Crash, End, Leaves
<1>2. Skip(c) => Drops(c)
  BY DEF Skip, Drops
<1>3. Intent(c) => Leaves(c) \/ Advances(c)
  BY DEF Intent, End, Leaves, Advances
<1>4. Check(c) \/ RunTool(c) \/ Quarantine(c) \/ Recreate(c) \/ Remove(c) => Advances(c)
  BY DEF Check, RunTool, Quarantine, Recreate, Remove, Advances
<1>5. Rollback(c) \/ Unlink(c) \/ RollbackRename(c) => Advances(c)
  BY DEF Rollback, Unlink, RollbackRename, Advances
<1>6. Result(c) => Leaves(c) \/ Drops(c)
  BY DEF Result, End, Leaves, Drops
<1>. QED BY <1>1, <1>2, <1>3, <1>4, <1>5, <1>6 DEF Step

\* Failure is remembered exactly by what follows it.
LEMMA FailedMarks ==
    ASSUME Typed, Placed, NEW c \in Commands, Step(c) \/ Crash(c)
    PROVE  /\ failed' \in [Commands -> BOOLEAN]
           /\ at'[c] \in Unfailed \cup {"start", "lock"} => ~failed'[c]
           /\ at'[c] \in Undoing => failed'[c]
<1>. USE DEF Typed, Placed, Inside, Begun, Unfailed, Undoing, Go, Failing
<1>1. CASE PlanRefused(c) \/ LockTimeout(c) \/ Finish(c) \/ Refuse(c) \/ Crash(c)
  BY <1>1 DEF PlanRefused, LockTimeout, Finish, Refuse, Crash, End, Leave
<1>2. CASE Plan(c) \/ Lock(c) \/ Skip(c)
  <2>1. failed' = failed
    BY <1>2 DEF Plan, Lock, Skip
  <2>2. at'[c] \in {"lock", "next"}
    BY <1>2 DEF Plan, Lock, Skip
  <2>3. ~failed[c]
    BY <1>2 DEF Plan, Lock, Skip
  <2>. QED BY <2>1, <2>2, <2>3
<1>7. CASE Leaves(c)
  BY <1>7 DEF Leaves, Leave
<1>3. CASE (Intent(c) \/ Result(c)) /\ ~Leaves(c)
  <2>1. failed' = failed /\ ~failed[c] /\ at'[c] \in {"check", "next"}
    BY <1>3 DEF Intent, Result, Leaves, End
  <2>. QED BY <2>1
<1>4. CASE Check(c) \/ RunTool(c) \/ Quarantine(c)
  BY <1>4 DEF Check, RunTool, Quarantine
<1>5. CASE Recreate(c) \/ Remove(c)
  BY <1>5 DEF Recreate, Remove
<1>6. CASE Rollback(c) \/ Unlink(c) \/ RollbackRename(c)
  BY <1>6 DEF Rollback, Unlink, RollbackRename
<1>. QED BY <1>1, <1>2, <1>3, <1>4, <1>5, <1>6, <1>7 DEF Step

LEMMA CommandPlaced ==
    ASSUME Typed, Placed, NEW c \in Commands, Step(c) \/ Crash(c)
    PROVE  /\ Placed'
           /\ holder' \in Commands \cup {NoOne}
           /\ at' \in [Commands -> Inside \cup {"start", "lock", "ended", "dead"}]
           /\ \A d \in Commands : todo'[d] \in Shapes(d)
<1>0. /\ \A d \in Commands \ {c} : at'[d] = at[d] /\ todo'[d] = todo[d] /\ failed'[d] = failed[d]
      /\ at'[c] \in Unfailed \cup {"start", "lock"} => ~failed'[c]
      /\ at'[c] \in Undoing => failed'[c]
  BY OthersStay, FailedMarks
<1>6. Leaves(c) \/ Advances(c) \/ Drops(c) \/ Plan(c) \/ Lock(c)
  BY StepKinds
<1>. USE NoOneAssumption DEF Typed, Placed, Inside, Begun, Unfailed, Undoing, Go
<1>1. CASE Leaves(c)
  <2>1. todo'[c] = <<>> /\ todo'[c] \in Shapes(c)
    BY <1>1, SelectedShape DEF Leaves, Leave
  <2>. QED BY <1>0, <1>1, <2>1 DEF Leaves, Leave
<1>2. CASE Advances(c)
  BY <1>0, <1>2 DEF Advances
<1>3. CASE Drops(c)
  <2>1. todo'[c] \in Shapes(c)
    BY <1>3, ShapeTail DEF Drops
  <2>2. at' \in [Commands -> Inside \cup {"start", "lock", "ended", "dead"}]
    BY DEF Step, Crash, Plan, PlanRefused, Lock, LockTimeout, Finish, Skip, Refuse, Intent, Check,
           RunTool, Quarantine, Recreate, Remove, Rollback, Unlink, RollbackRename, Result, End, Leave
  <2>. QED BY <1>0, <1>3, <2>1, <2>2 DEF Drops
<1>4. CASE Plan(c)
  BY <1>0, <1>4 DEF Plan
<1>5. CASE Lock(c)
  <2>1. todo'[c] = Selected(c) /\ Selected(c) \in Shapes(c)
    BY <1>5, SelectedShape DEF Lock
  <2>. QED BY <1>0, <1>5, <2>1 DEF Lock
<1>. QED BY <1>1, <1>2, <1>3, <1>4, <1>5, <1>6

(***************************************************************************)
(* A step of a command: files, receipts and history.                       *)
(***************************************************************************)
\* What a step writes on record: nothing, an intent, or a result.
LEMMA Recorded ==
    ASSUME Typed, Placed, NEW c \in Commands, Step(c) \/ Crash(c)
    PROVE  /\ receipts' \in Seq(RowRec)
           /\ \/ UNCHANGED receipts
              \/ /\ Intent(c) /\ ~Cooling(c, Current(c)) /\ at'[c] = "check"
                 /\ receipts' = Append(receipts, Row(c, Current(c), "intent", "intent_persisted"))
              \/ /\ Result(c)
                 /\ receipts' = Append(receipts, Row(c, Current(c), "result",
                                                     IF failed[c] THEN "failed" ELSE "completed"))
<1>1. CASE UNCHANGED receipts
  BY <1>1 DEF Typed
<1>2. CASE Intent(c) /\ ~UNCHANGED receipts
  <2>1. Current(c) \in Names
    BY <1>2, CurrentNamed DEF Intent
  <2>2. Row(c, Current(c), "intent", "intent_persisted") \in RowRec
    BY <2>1, RowTyped
  <2>3. receipts' = Append(receipts, Row(c, Current(c), "intent", "intent_persisted"))
        /\ at'[c] = "check" /\ ~Cooling(c, Current(c))
    BY <1>2 DEF Intent, Go, Typed
  <2>. QED BY <1>2, <2>2, <2>3, RowAdded DEF Typed
<1>3. CASE Result(c) /\ ~UNCHANGED receipts
  <2>. DEFINE outcome == IF failed[c] THEN "failed" ELSE "completed"
  <2>1. todo[c] # <<>>
    BY <1>3 DEF Result, Placed, Begun, Inside
  <2>2. Current(c) \in Names /\ outcome \in {"intent_persisted", "completed", "failed"}
    BY <2>1, CurrentNamed
  <2>3. receipts' = Append(receipts, Row(c, Current(c), "result", outcome))
    BY <1>3 DEF Result
  <2>. HIDE DEF outcome
  <2>4. Row(c, Current(c), "result", outcome) \in RowRec
    BY <2>2, RowTyped
  <2>5. receipts' \in Seq(RowRec)
    BY <2>3, <2>4, RowAdded DEF Typed
  <2>. QED BY <1>3, <2>3, <2>5 DEF outcome
<1>4. Intent(c) \/ Result(c) \/ UNCHANGED receipts
  BY DEF Step, Crash, Plan, PlanRefused, Lock, LockTimeout, Finish, Skip, Refuse, Check, RunTool,
         Quarantine, Recreate, Remove, Rollback, Unlink, RollbackRename
<1>. QED BY <1>1, <1>2, <1>3, <1>4

\* The history a step writes.
LEMMA HistoryKept ==
    ASSUME Typed, Placed, NEW c \in Commands, Step(c) \/ Crash(c)
    PROVE  /\ ghost' \in GhostRec /\ ghost'.after = ghost.after
           /\ \/ ghost'.hurt = ghost.hurt /\ ghost'.taken = ghost.taken
              \/ /\ at[c] = "run" /\ ghost'.taken = ghost.taken \cup {<<c, Current(c)>>}
                 /\ ghost'.hurt <=> ghost.hurt \/ (Current(c) \in Watched \cap active /\ c \notin ghost.after[Current(c)])
           /\ \/ ghost'.restored = ghost.restored
              \/ /\ at[c] \in {"recreate", "putback"} /\ at'[c] = "result" /\ failed'[c]
                 /\ ghost'.restored = ghost.restored \cup {<<c, Current(c)>>}
<1>0. at[c] \in Begun => Current(c) \in Names
  BY CurrentNamed DEF Placed
<1>1. CASE UNCHANGED ghost
  BY <1>1 DEF Typed
<1>2. CASE (RunTool(c) \/ Quarantine(c)) /\ ~UNCHANGED ghost
  <2>1. at[c] = "run" /\ ghost' = Touched(c, Current(c))
    BY <1>2 DEF RunTool, Quarantine
  <2>2. Current(c) \in Names /\ ghost \in GhostRec
    BY <1>0, <2>1 DEF Begun, Inside, Unfailed, Typed
  <2>3. ASSUME NEW b \in BOOLEAN, NEW t \in SUBSET (Commands \X Names)
        PROVE  LET g == [ghost EXCEPT !.hurt = b, !.taken = t]
               IN  /\ g \in GhostRec /\ g.after = ghost.after /\ g.restored = ghost.restored
                   /\ g.taken = t /\ (g.hurt <=> b)
    BY <2>2 DEF GhostRec
  <2>. DEFINE b == ghost.hurt \/ (Current(c) \in Watched \cap active /\ c \notin ghost.after[Current(c)])
              t == ghost.taken \cup {<<c, Current(c)>>}
  <2>4. b \in BOOLEAN /\ t \in SUBSET (Commands \X Names)
    BY <2>2 DEF GhostRec
  <2>5. ghost' = [ghost EXCEPT !.hurt = b, !.taken = t]
    BY <2>1 DEF Touched
  <2>. HIDE DEF b, t
  <2>6. /\ ghost' \in GhostRec /\ ghost'.after = ghost.after /\ ghost'.restored = ghost.restored
        /\ ghost'.taken = t /\ (ghost'.hurt <=> b)
    BY <2>3, <2>4, <2>5
  <2>. QED BY <2>1, <2>6 DEF b, t
<1>3. CASE (Recreate(c) \/ RollbackRename(c)) /\ ~UNCHANGED ghost
  <2>. DEFINE t == ghost.restored \cup {<<c, Current(c)>>}
  <2>1. /\ at[c] \in {"recreate", "putback"} /\ ghost' = [ghost EXCEPT !.restored = t]
        /\ at'[c] = "result"
    BY <1>3 DEF Recreate, RollbackRename, PutBack, Go, Typed
  <2>2. failed'[c]
    BY <1>3 DEF Recreate, RollbackRename, Failing, Typed, Placed, Undoing
  <2>3. t \in SUBSET (Commands \X Names)
    BY <1>0, <2>1 DEF Begun, Inside, Unfailed, Undoing, Typed, GhostRec
  <2>. HIDE DEF t
  <2>4. ghost \in GhostRec
    BY DEF Typed
  <2>5. /\ ghost' \in GhostRec /\ ghost'.after = ghost.after /\ ghost'.restored = t
        /\ ghost'.taken = ghost.taken
    BY <2>1, <2>3, <2>4 DEF GhostRec
  <2>6. ghost'.hurt = ghost.hurt
    BY <2>1, <2>4 DEF GhostRec
  <2>. QED BY <2>1, <2>2, <2>5, <2>6 DEF t
<1>4. RunTool(c) \/ Quarantine(c) \/ Recreate(c) \/ RollbackRename(c) \/ UNCHANGED ghost
  BY DEF Step, Crash, Plan, PlanRefused, Lock, LockTimeout, Finish, Skip, Refuse, Intent, Check,
         Remove, Rollback, Unlink, Result
<1>. QED BY <1>1, <1>2, <1>3, <1>4


\* The directories aside: one is added, loses files, or goes.
Rests(c) == /\ at'[c] \notin Moved
            /\ at[c] \in {"start", "lock", "next", "check", "run"} \/ (at[c] = "result" /\ ~failed[c])
Goes(c)  == /\ at[c] \in Moved /\ UNCHANGED todo
            /\ at'[c] \in Moved \/ (at'[c] = "result" /\ failed'[c])
Adds(c, q) == /\ at[c] = "run" /\ at'[c] = "recreate" /\ UNCHANGED todo
              /\ q.by = c /\ q.of = Current(c) /\ quarantines' = quarantines \cup {q}
Lightens(c, q) == /\ at[c] \in Moved /\ at'[c] \in Moved /\ UNCHANGED todo
                  /\ q.by = c /\ q.of = Current(c) /\ quarantines' = (quarantines \ {Aside(c)}) \cup {q}
Removes(c) == /\ at[c] \in Moved /\ at'[c] = "result" /\ UNCHANGED todo
              /\ quarantines' = quarantines \ {Aside(c)}

LEMMA AsideMoves ==
    ASSUME Typed, Placed, AsideKept, NEW c \in Commands, Step(c) \/ Crash(c)
    PROVE  \/ UNCHANGED quarantines /\ (Leaves(c) \/ Rests(c) \/ Goes(c))
           \/ \E q \in Aways : Adds(c, q) \/ Lightens(c, q)
           \/ Removes(c)
<1>0. /\ at[c] \in Moved \cup {"run"} => Current(c) \in Names
      /\ at[c] \in Moved => Aside(c) \in Aways /\ Aside(c).by = c /\ Aside(c).of = Current(c)
  BY CurrentNamed, AsideIs DEF Placed, Moved, Begun, Inside, Unfailed, Undoing
<1>1. CASE PlanRefused(c) \/ LockTimeout(c) \/ Finish(c) \/ Refuse(c) \/ Crash(c)
  BY <1>1 DEF PlanRefused, LockTimeout, Finish, Refuse, Crash, End, Leaves, files
<1>2. CASE Plan(c) \/ Lock(c) \/ Skip(c)
  BY <1>2 DEF Plan, Lock, Skip, Go, Rests, Moved, Undoing, files, Typed
<1>3. CASE Intent(c) \/ Check(c) \/ RunTool(c)
  BY <1>3 DEF Intent, Check, RunTool, End, Leaves, Go, Rests, Moved, Undoing, files, Typed
<1>4. CASE Quarantine(c) /\ UNCHANGED quarantines /\ at'[c] # "recreate"
  BY <1>4 DEF Quarantine, Go, Rests, Moved, Undoing, Typed
<1>5. CASE Quarantine(c) /\ ~(UNCHANGED quarantines /\ at'[c] # "recreate")
  <2>. DEFINE q == [by |-> c, of |-> Current(c), files |-> dir[Current(c)]]
  <2>1. /\ at[c] = "run" /\ at'[c] = "recreate" /\ UNCHANGED todo
        /\ quarantines' = quarantines \cup {q} /\ Current(c) \in Quarantined
    BY <1>5 DEF Quarantine, Typed, Go, files
  <2>2. Current(c) \in Providers
    BY <1>0, <2>1 DEF Names, AutoSafe, Quarantined
  <2>3. q \in Aways /\ q.by = c /\ q.of = Current(c)
    BY <1>0, <2>1, <2>2 DEF Aways, Typed
  <2>. HIDE DEF q
  <2>. QED BY <2>1, <2>3 DEF Adds
<1>6. CASE Recreate(c)
  BY <1>6 DEF Recreate, PutBack, Failing, Go, Goes, Removes, Moved, Undoing, Typed, files
<1>7. CASE Remove(c) /\ at'[c] = "result"
  BY <1>7 DEF Remove, Go, Removes, Moved, Undoing, Typed
<1>8. CASE Remove(c) /\ at'[c] # "result"
  <2>1. PICK left \in SUBSET Aside(c).files :
           quarantines' = (quarantines \ {Aside(c)}) \cup {[Aside(c) EXCEPT !.files = left]}
    BY <1>8 DEF Remove, Go, Typed
  <2>2. at[c] \in Moved /\ at'[c] \in Moved /\ UNCHANGED todo
    BY <1>8 DEF Remove, Go, Typed, Moved, Undoing
  <2>. DEFINE q == [Aside(c) EXCEPT !.files = left]
  <2>3. q \in Aways /\ q.by = c /\ q.of = Current(c)
    BY <1>0, <2>2 DEF Aways, FileSets
  <2>. HIDE DEF q
  <2>4. Lightens(c, q)
    BY <2>1, <2>2, <2>3 DEF Lightens, q
  <2>. QED BY <2>3, <2>4
<1>9. CASE Rollback(c) \/ Unlink(c)
  BY <1>9 DEF Rollback, Unlink, Go, Goes, Moved, Undoing, Typed, Placed, files
<1>10. CASE RollbackRename(c)
  BY <1>10 DEF RollbackRename, PutBack, Go, Goes, Removes, Moved, Undoing, Typed, Placed, files
<1>11. CASE Result(c)
  <2>1. UNCHANGED quarantines /\ at[c] = "result"
    BY <1>11 DEF Result, files
  <2>2. Leaves(c) \/ (~failed[c] /\ at'[c] = "next")
    BY <1>11 DEF Result, End, Leaves, Go, Typed
  <2>. QED BY <2>1, <2>2 DEF Rests, Moved, Undoing
<1>. QED BY <1>1, <1>2, <1>3, <1>4, <1>5, <1>6, <1>7, <1>8, <1>9, <1>10, <1>11 DEF Step

\* The caches themselves.
LEMMA CachesTyped ==
    ASSUME Typed, Placed, AsideKept, NEW c \in Commands, Step(c) \/ Crash(c)
    PROVE  dir' \in [Providers -> FileSets] /\ quarantines' \subseteq Aways
<1>1. quarantines' \subseteq Aways
  BY AsideMoves DEF Typed, Adds, Lightens, Removes
<1>2. at[c] \in Moved => Aside(c).files \in FileSets
  BY AsideIs DEF Aways
<1>3. UNCHANGED dir \/ \E d \in FileSets : dir' = [dir EXCEPT ![Current(c)] = d]
  <2>1. CASE RunTool(c)
    <3>1. Current(c) \in Providers => Emptied(Current(c)) \in FileSets
      BY DEF Emptied, Typed, FileSets, Absent
    <3>2. Current(c) \notin Providers => [dir EXCEPT ![Current(c)] = Emptied(Current(c))] = dir
      BY DEF Typed
    <3>. QED BY <2>1, <3>1, <3>2 DEF RunTool
  <2>2. CASE Quarantine(c)
    BY <2>2 DEF Quarantine, FileSets, Absent, files
  <2>3. CASE Recreate(c)
    <3>1. CASE dir' = [dir EXCEPT ![Current(c)] = @ \ Absent]
      <4>1. Current(c) \in Providers => dir[Current(c)] \ Absent \in FileSets
        BY DEF Typed, FileSets
      <4>2. Current(c) \notin Providers => [dir EXCEPT ![Current(c)] = @ \ Absent] = dir
        BY DEF Typed
      <4>. QED BY <3>1, <4>1, <4>2
    <3>2. CASE PutBack(c)
      BY <1>2, <2>3, <3>2 DEF Recreate, PutBack, Moved, files
    <3>. QED BY <2>3, <3>1, <3>2 DEF Recreate
  <2>4. CASE RollbackRename(c)
    BY <1>2, <2>4 DEF RollbackRename, PutBack, Moved, Undoing, files
  <2>5. CASE Unlink(c)
    BY <2>5 DEF Unlink, FileSets, Absent
  <2>. QED BY <2>1, <2>2, <2>3, <2>4, <2>5 DEF Step, Crash, Plan, PlanRefused, Lock, LockTimeout, Finish,
               Skip, Refuse, Intent, Check, Remove, Rollback, Result, files
<1>. QED BY <1>1, <1>3 DEF Typed

LEMMA CommandTyped ==
    ASSUME Typed, Placed, AsideKept, NEW c \in Commands, Step(c) \/ Crash(c)
    PROVE  Typed'
<1>1. Shapes(c)' = Shapes(c) /\ \A d \in Commands : todo'[d] \in Shapes(d)
  BY CommandPlaced DEF Shapes
<1>2. /\ dir' \in [Providers -> FileSets] /\ quarantines' \subseteq Aways /\ receipts' \in Seq(RowRec)
      /\ ghost' \in GhostRec /\ UNCHANGED <<now, active>> /\ failed' \in [Commands -> BOOLEAN]
      /\ DOMAIN todo' = Commands
  BY OthersStay, CachesTyped, Recorded, HistoryKept, FailedMarks
<1>. QED BY <1>1, <1>2, CommandPlaced DEF Typed

LEMMA CommandAside ==
    ASSUME Typed, Placed, AsideKept, NEW c \in Commands, Step(c) \/ Crash(c)
    PROVE  AsideKept'
<1>0. \A d \in Commands \ {c} : at'[d] = at[d] /\ todo'[d] = todo[d] /\ failed'[d] = failed[d]
  BY OthersStay
<1>1. \A q \in quarantines \cup quarantines' : q.by \in Commands
  BY CachesTyped DEF Typed, Aways
<1>2. \A d \in Commands \ {c} : Current(d)' = Current(d) /\ (Over(d)' <=> Over(d))
  BY <1>0 DEF Current, Over
<1>3. \A q \in quarantines : q.by # c =>
         \/ Over(q.by)'
         \/ q.of = Current(q.by)' /\ (at'[q.by] \in Moved \/ (at'[q.by] = "result" /\ failed'[q.by]))
  BY <1>0, <1>1, <1>2 DEF AsideKept
<1>4. CASE UNCHANGED quarantines /\ (Leaves(c) \/ Rests(c) \/ Goes(c))
  <2>1. CASE Leaves(c)
    <3>1. Over(c)' /\ at'[c] \notin Moved
      BY <2>1 DEF Leaves, Leave, Go, Typed, Over, Moved, Undoing
    <3>. QED BY <1>0, <1>2, <1>3, <1>4, <3>1 DEF AsideKept
  <2>2. CASE Rests(c)
    <3>1. \A q \in quarantines : q.by # c
      BY <2>2 DEF Rests, AsideKept, Over, Moved, Undoing
    <3>. QED BY <1>0, <1>2, <1>3, <1>4, <2>2, <3>1 DEF AsideKept, Rests
  <2>3. CASE Goes(c)
    <3>1. Current(c)' = Current(c) /\ ~Over(c)
      BY <2>3 DEF Goes, Current, Over, Moved, Undoing
    <3>2. \A q \in quarantines : q.by = c => q.of = Current(c)
      BY <3>1 DEF AsideKept
    <3>. QED BY <1>0, <1>2, <1>3, <1>4, <2>3, <3>1, <3>2 DEF AsideKept, Goes
  <2>. QED BY <1>4, <2>1, <2>2, <2>3
<1>5. ASSUME NEW q \in Aways, Adds(c, q) PROVE AsideKept'
  <2>1. Current(c)' = Current(c) /\ at'[c] \in Moved
    BY <1>5 DEF Adds, Current, Moved
  <2>2. \A r \in quarantines : r.by # c
    BY <1>5 DEF Adds, AsideKept, Over, Moved, Undoing
  <2>. QED BY <1>0, <1>2, <1>3, <1>5, <2>1, <2>2 DEF AsideKept, Adds
<1>6. ASSUME NEW q \in Aways, Lightens(c, q) PROVE AsideKept'
  <2>1. Current(c)' = Current(c) /\ at'[c] \in Moved /\ ~Over(c) /\ at[c] \in Moved
    BY <1>6 DEF Lightens, Current, Over, Moved, Undoing
  <2>2. \A r \in quarantines \ {Aside(c)} : r.by # c
    BY <2>1, AsideIs DEF AsideKept
  <2>. QED BY <1>0, <1>2, <1>3, <1>6, <2>1, <2>2 DEF AsideKept, Lightens
<1>7. CASE Removes(c)
  <2>1. at'[c] \notin Moved /\ ~Over(c) /\ at[c] \in Moved
    BY <1>7 DEF Removes, Over, Moved, Undoing
  <2>2. \A r \in quarantines \ {Aside(c)} : r.by # c
    BY <2>1, AsideIs DEF AsideKept
  <2>. QED BY <1>0, <1>2, <1>3, <1>7, <2>1, <2>2 DEF AsideKept, Removes
<1>. QED BY <1>4, <1>5, <1>6, <1>7, AsideMoves

LEMMA CommandSpared ==
    ASSUME Typed, Placed, Spared, NEW c \in Commands, Step(c) \/ Crash(c)
    PROVE  Spared'
<1>1. ~ghost'.hurt /\ ghost'.after = ghost.after
  BY HistoryKept DEF Spared
<1>2. at'[c] = "run" => ~(Current(c)' \in Watched \cap active)
  <2>1. at'[c] = "run" => Check(c) /\ ~OwnerActive(c, Current(c)) /\ UNCHANGED todo
    BY DEF Step, Crash, Plan, PlanRefused, Lock, LockTimeout, Finish, Skip, Refuse, Intent, Check,
           RunTool, Quarantine, Recreate, Remove, Rollback, Unlink, RollbackRename, Result, End, Leave,
           Go, Typed
  <2>. QED BY <2>1 DEF OwnerActive, Current
<1>. QED BY <1>1, <1>2, OthersStay DEF Spared, Current

LEMMA CommandReceipts ==
    ASSUME Typed, Placed, OnReceipt, NEW c \in Commands, Step(c) \/ Crash(c)
    PROVE  OnReceipt'
<1>0. Rows \subseteq Rows'
  <2>1. receipts \in Seq(RowRec) /\ receipts' \in Seq(RowRec)
        /\ (UNCHANGED receipts \/ \E row \in RowRec : receipts' = Append(receipts, row))
    <3>1. CASE UNCHANGED receipts
      BY <3>1 DEF Typed
    <3>2. CASE ~UNCHANGED receipts
      <4>1. todo[c] # <<>> /\ Current(c) \in Names
        BY <3>2, Recorded, CurrentNamed DEF Intent, Result, Placed, Begun, Inside
      <4>. QED BY <3>2, <4>1, Recorded, RowTyped DEF Typed
    <3>. QED BY <3>1, <3>2
  <2>. QED BY <2>1, RowAdded DEF Rows
<1>1. \A a : Intended(a) => Intended(a)'
  BY <1>0 DEF Intended
<1>2. at'[c] \in Begun => Intended(<<c, Current(c)>>)' /\ (at[c] \in Begun \/ Intent(c))
  <2>1. CASE Intent(c) /\ at'[c] \in Begun
    <3>. DEFINE row == Row(c, Current(c), "intent", "intent_persisted")
    <3>1. receipts' = Append(receipts, row) /\ UNCHANGED todo /\ Current(c) \in Names
      BY <2>1, CurrentNamed DEF Intent, End, Leave, Go, Typed, Begun, Inside, Unfailed, Undoing
    <3>2. row \in RowRec /\ row.mode = "intent" /\ row.by = c /\ row.of = Current(c)
      BY <3>1, RowTyped
    <3>. HIDE DEF row
    <3>3. row \in Rows'
      BY <3>1, <3>2, RowAdded DEF Typed
    <3>4. Current(c)' = Current(c)
      BY <3>1 DEF Current
    <3>. QED BY <2>1, <3>2, <3>3, <3>4 DEF Intended
  <2>2. CASE ~Intent(c) /\ at'[c] \in Begun
    <3>1. at[c] \in Begun /\ UNCHANGED todo
      <4>1. CASE Leaves(c)
        BY <2>2, <4>1 DEF Leaves, Leave, Go, Typed, Begun, Inside, Unfailed, Undoing
      <4>2. CASE Drops(c) \/ Plan(c) \/ Lock(c)
        BY <2>2, <4>2 DEF Drops, Plan, Lock, Go, Typed, Begun, Inside, Unfailed, Undoing
      <4>3. CASE Advances(c)
        <5>1. at[c] \in Inside /\ UNCHANGED todo
          BY <4>3 DEF Advances
        <5>2. at[c] = "next" => Intent(c) \/ ~(at'[c] \in Begun)
          BY DEF Step, Crash, Plan, PlanRefused, Lock, LockTimeout, Finish, Skip, Refuse, Check, RunTool,
                 Quarantine, Recreate, Remove, Rollback, Unlink, RollbackRename, Result, End, Leave, Go, Typed,
                 Begun, Inside, Unfailed, Undoing
        <5>. QED BY <2>2, <5>1, <5>2 DEF Begun
      <4>. QED BY <4>1, <4>2, <4>3, StepKinds
    <3>2. Current(c)' = Current(c)
      BY <3>1 DEF Current
    <3>. QED BY <1>1, <3>1, <3>2 DEF OnReceipt
  <2>. QED BY <2>1, <2>2
<1>3. \A d \in Commands \ {c} : at'[d] \in Begun => Intended(<<d, Current(d)>>)'
  BY <1>1, OthersStay DEF OnReceipt, Current
<1>4. \A a \in ghost'.taken : Intended(a)'
  BY <1>1, HistoryKept DEF OnReceipt, Begun, Inside, Unfailed
<1>. QED BY <1>2, <1>3, <1>4 DEF OnReceipt

LEMMA CommandSettled ==
    ASSUME Typed, Placed, AsideKept, Settled, NEW c \in Commands, Step(c) \/ Crash(c)
    PROVE  Settled'
<1>0. /\ \A d \in Commands \ {c} : at'[d] = at[d] /\ todo'[d] = todo[d] /\ failed'[d] = failed[d]
      /\ \A d \in Commands \ {c} : Over(d)' <=> Over(d)
  BY OthersStay DEF Over
<1>1. ~Over(c) /\ Rows \subseteq RowRec /\ ghost \in GhostRec
  <2>1. ~Over(c)
    BY DEF Over, Step, Crash, Plan, PlanRefused, Lock, LockTimeout, Finish, Skip, Refuse, Intent, Check,
           RunTool, Quarantine, Recreate, Remove, Rollback, Unlink, RollbackRename, Result
  <2>. QED BY <2>1, RowsTyped DEF Typed
<1>2. at[c] \in Begun => Current(c) \in Left(todo[c]) /\ Current(c) \in Names
  BY ShapeTail DEF Placed, Typed, Current
\* What is not left to do stays so.
<1>3. ASSUME NEW p, at[c] \in Inside, p \notin Left(todo[c])
      PROVE  Over(c)' \/ (at'[c] \in Inside /\ p \notin Left(todo'[c]))
  <2>1. CASE Leaves(c)
    BY <2>1 DEF Leaves, Leave, Go, Over, Typed
  <2>2. CASE Advances(c)
    BY <1>3, <2>2 DEF Advances, Go, Typed, Begun
  <2>3. CASE Drops(c)
    BY <1>3, <2>3, ShapeTail DEF Drops, Typed, Inside, Unfailed
  <2>4. ~Plan(c) /\ ~Lock(c)
    BY <1>3 DEF Plan, Lock, Inside, Unfailed, Undoing
  <2>. QED BY <2>1, <2>2, <2>3, <2>4, StepKinds
<1>4. ASSUME NEW r \in Rows, r.outcome = "completed"
      PROVE  /\ r.mode = "result"
             /\ Over(r.by)' \/ (at'[r.by] \in Inside /\ r.of \notin Left(todo'[r.by]))
             /\ <<r.by, r.of>> \notin ghost'.restored
             /\ \A q \in quarantines' : <<q.by, q.of>> # <<r.by, r.of>>
  <2>0. /\ r.mode = "result" /\ r.by \in Commands
        /\ Over(r.by) \/ (at[r.by] \in Inside /\ r.of \notin Left(todo[r.by]))
        /\ <<r.by, r.of>> \notin ghost.restored
        /\ \A q \in quarantines : <<q.by, q.of>> # <<r.by, r.of>>
    BY <1>1, <1>4 DEF Settled, RowRec
  <2>1. Over(r.by)' \/ (at'[r.by] \in Inside /\ r.of \notin Left(todo'[r.by]))
    BY <1>0, <1>1, <1>3, <2>0
  <2>2. at[c] \in Begun => <<r.by, r.of>> # <<c, Current(c)>>
    BY <1>1, <1>2, <2>0
  <2>3. <<r.by, r.of>> \notin ghost'.restored
    BY <2>0, <2>2, HistoryKept DEF Begun, Inside, Unfailed, Undoing
  <2>4. \A q \in quarantines' : <<q.by, q.of>> # <<r.by, r.of>>
    BY <2>0, <2>2, AsideMoves DEF Adds, Lightens, Removes, Moved, Begun, Inside, Unfailed, Undoing
  <2>. QED BY <2>0, <2>1, <2>3, <2>4
<1>5. ASSUME Result(c), ~failed[c], NEW r, r.by = c, r.of = Current(c), r.mode = "result"
      PROVE  /\ Over(r.by)' \/ (at'[r.by] \in Inside /\ r.of \notin Left(todo'[r.by]))
             /\ <<r.by, r.of>> \notin ghost'.restored
             /\ \A q \in quarantines' : <<q.by, q.of>> # <<r.by, r.of>>
  <2>1. at[c] = "result" /\ UNCHANGED <<ghost, quarantines>> /\ (Leaves(c) \/ Drops(c))
    BY <1>5 DEF Result, files, End, Leaves, Drops, Placed, Begun, Inside, Go, Typed
  <2>2. Over(c)' \/ (at'[c] \in Inside /\ Current(c) \notin Left(todo'[c]))
    <3>1. CASE Leaves(c)
      BY <3>1 DEF Leaves, Leave, Go, Over, Typed
    <3>2. CASE Drops(c)
      BY <3>2, ShapeTail DEF Drops, Typed, Inside, Unfailed, Current
    <3>. QED BY <2>1, <3>1, <3>2
  <2>3. <<c, Current(c)>> \notin ghost.restored
    BY <1>1, <1>5 DEF Settled
  <2>4. \A q \in quarantines : q.by # c
    BY <1>1, <1>5, <2>1 DEF AsideKept, Moved, Undoing
  <2>. QED BY <1>5, <2>1, <2>2, <2>3, <2>4
<1>6. ASSUME NEW r \in Rows', r.outcome = "completed"
      PROVE  /\ r.mode = "result"
             /\ Over(r.by)' \/ (at'[r.by] \in Inside /\ r.of \notin Left(todo'[r.by]))
             /\ <<r.by, r.of>> \notin ghost'.restored
             /\ \A q \in quarantines' : <<q.by, q.of>> # <<r.by, r.of>>
  <2>1. CASE r \in Rows
    BY <1>4, <1>6, <2>1
  <2>2. CASE r \notin Rows
    <3>0. Current(c) \in Names
      <4>1. Intent(c) \/ Result(c)
        BY <1>6, <2>2, Recorded DEF Rows
      <4>2. todo[c] # <<>>
        BY <4>1 DEF Intent, Result, Placed, Begun, Inside
      <4>. QED BY <4>2, CurrentNamed
    <3>1. PICK mode \in {"intent", "result"}, outcome \in {"intent_persisted", "failed", "completed"} :
             /\ receipts' = Append(receipts, Row(c, Current(c), mode, outcome))
             /\ outcome = "completed" => mode = "result" /\ Result(c) /\ ~failed[c]
      BY <1>6, <2>2, Recorded DEF Rows
    <3>2. r = Row(c, Current(c), mode, outcome)
      BY <1>6, <2>2, <3>0, <3>1, RowTyped, RowAdded DEF Typed
    <3>3. r.by = c /\ r.of = Current(c) /\ r.mode = mode /\ r.outcome = outcome
      BY <3>0, <3>2, RowTyped
    <3>. QED BY <1>5, <1>6, <3>1, <3>3
  <2>. QED BY <2>1, <2>2
<1>7. \A a \in ghost'.restored : Over(a[1])' \/ (at'[a[1]] = "result" /\ failed'[a[1]])
  <2>1. at[c] = "result" /\ failed[c] => Leaves(c)
    BY DEF Step, Crash, Plan, PlanRefused, Lock, LockTimeout, Finish, Skip, Refuse, Intent, Check,
           RunTool, Quarantine, Recreate, Remove, Rollback, Unlink, RollbackRename, Result, End, Leaves
  <2>2. Leaves(c) => Over(c)'
    BY DEF Leaves, Leave, Go, Over, Typed
  <2>3. \A a \in ghost.restored : a[1] \in Commands
    BY <1>1 DEF GhostRec
  <2>4. \A a \in ghost.restored : Over(a[1])' \/ (at'[a[1]] = "result" /\ failed'[a[1]])
    BY <1>0, <1>1, <2>1, <2>2, <2>3 DEF Settled
  <2>. QED BY <2>4, HistoryKept
<1>. QED BY <1>6, <1>7 DEF Settled

\* An intent that is not forced comes a cooldown after every completed reclaim.
LEMMA CommandApart ==
    ASSUME Typed, Placed, Settled, ReclaimsApart, NEW c \in Commands, Step(c) \/ Crash(c)
    PROVE  ReclaimsApart'
<1>1. CASE UNCHANGED receipts
  BY <1>1 DEF ReclaimsApart
<1>2. CASE Result(c) /\ receipts' = Append(receipts, Row(c, Current(c), "result",
                                                     IF failed[c] THEN "failed" ELSE "completed"))
  <2>. DEFINE row == Row(c, Current(c), "result", IF failed[c] THEN "failed" ELSE "completed")
  <2>1. row.mode # "intent"
    BY DEF Row
  <2>. HIDE DEF row
  <2>2. /\ DOMAIN receipts' = 1..(Len(receipts) + 1) /\ DOMAIN receipts = 1..Len(receipts)
        /\ Len(receipts) \in Nat
        /\ \A i \in 1..Len(receipts) : receipts'[i] = receipts[i]
        /\ receipts'[Len(receipts) + 1] = row
    BY <1>2 DEF row, Typed
  <2>. QED BY <2>1, <2>2 DEF ReclaimsApart
<1>3. CASE Intent(c) /\ ~Cooling(c, Current(c))
           /\ receipts' = Append(receipts, Row(c, Current(c), "intent", "intent_persisted"))
  <2>. DEFINE row == Row(c, Current(c), "intent", "intent_persisted")
  <2>0. Current(c) \in Names
    BY <1>3, CurrentNamed DEF Intent
  <2>1. row.of = Current(c) /\ row.time = now /\ row.force = Request[c].force /\ row.outcome # "completed"
    BY <2>0, RowTyped
  <2>2. /\ DOMAIN receipts' = 1..(Len(receipts) + 1) /\ DOMAIN receipts = 1..Len(receipts)
        /\ Len(receipts) \in Nat
        /\ \A i \in 1..Len(receipts) : receipts'[i] = receipts[i] /\ receipts[i] \in Rows
        /\ receipts'[Len(receipts) + 1] = row
    BY <1>3 DEF Typed, Rows
  <2>. HIDE DEF row
  <2>3. ASSUME NEW r \in Rows, r.of = row.of, r.outcome = "completed", ~row.force
        PROVE  row.time > r.time + Cooldown
    <3>1. ~InsideCooldown(Current(c))
      BY <1>3, <2>1, <2>3 DEF Cooling
    <3>2. r.mode = "result" /\ r.time \in Nat /\ now \in Nat /\ Cooldown \in Nat
      BY <2>3, RowsTyped, StorageAssumption DEF Settled, RowRec, Typed
    <3>3. ~(r.time >= now - Cooldown)
      BY <2>1, <2>3, <3>1, <3>2 DEF InsideCooldown
    <3>. QED BY <2>1, <3>2, <3>3
  <2>4. ASSUME NEW i \in DOMAIN receipts', NEW j \in DOMAIN receipts', i < j,
               receipts'[j].of = receipts'[i].of, receipts'[i].outcome = "completed",
               receipts'[j].mode = "intent", ~receipts'[j].force
        PROVE  receipts'[j].time > receipts'[i].time + Cooldown
    <3>1. i \in 1..Len(receipts)
      BY <2>2, <2>4
    <3>2. CASE j \in 1..Len(receipts)
      BY <2>2, <2>4, <3>1, <3>2 DEF ReclaimsApart
    <3>3. CASE j = Len(receipts) + 1
      BY <2>2, <2>3, <2>4, <3>1, <3>3
    <3>. QED BY <2>2, <2>4, <3>2, <3>3
  <2>. QED BY <2>4 DEF ReclaimsApart
<1>. QED BY <1>1, <1>2, <1>3, Recorded

(***************************************************************************)
(* The steps of the owners, of the clock and of the policy.                *)
(***************************************************************************)
LEMMA OwnersStep ==
    ASSUME StorageInv, NEW p \in Providers, OwnerStarts(p) \/ OwnerEnds(p)
    PROVE  StorageInv'
<1>. USE DEF StorageInv
<1>1. UNCHANGED <<now, dir, quarantines, receipts, holder, at, todo, failed>>
  BY DEF OwnerStarts, OwnerEnds, files, mine
<1>2. /\ ghost' \in GhostRec /\ ghost'.hurt = ghost.hurt
      /\ ghost'.restored = ghost.restored /\ ghost'.taken = ghost.taken
      /\ \A d \in Providers : d # p => ghost'.after[d] = ghost.after[d]
      /\ ~UNCHANGED ghost => ghost'.after[p] = Running(p)
  <2>1. CASE UNCHANGED ghost
    BY <2>1 DEF Typed
  <2>2. CASE ghost' = [ghost EXCEPT !.after[p] = Running(p)]
    <3>1. Running(p) \subseteq Commands /\ ghost \in GhostRec
      BY DEF Running, Typed
    <3>. HIDE DEF StorageInv
    <3>2. ghost.after \in [Providers -> SUBSET Commands]
      BY <3>1 DEF GhostRec
    <3>3. [ghost.after EXCEPT ![p] = Running(p)] \in [Providers -> SUBSET Commands]
      BY <3>1, <3>2
    <3>4. ghost' = [ghost EXCEPT !.after = [ghost.after EXCEPT ![p] = Running(p)]]
      BY <2>2
    <3>. DEFINE f == [ghost.after EXCEPT ![p] = Running(p)]
    <3>5. f[p] = Running(p) /\ \A d \in Providers : d # p => f[d] = ghost.after[d]
      BY <3>2
    <3>. HIDE DEF f
    <3>6. ghost' \in GhostRec /\ ghost'.after = f /\ ghost'.restored = ghost.restored
          /\ ghost'.taken = ghost.taken
      BY <3>1, <3>3, <3>4 DEF GhostRec, f
    <3>7. ghost'.hurt = ghost.hurt
      BY <3>1, <3>4 DEF GhostRec
    <3>. QED BY <3>5, <3>6, <3>7
  <2>. QED BY <2>1, <2>2 DEF OwnerStarts, OwnerEnds
<1>3. Typed'
  BY <1>1, <1>2 DEF Typed, OwnerStarts, OwnerEnds, Shapes
<1>4. Placed' /\ AsideKept' /\ OnReceipt' /\ Settled' /\ ReclaimsApart'
  BY <1>1, <1>2 DEF Placed, AsideKept, Over, Current, OnReceipt, Intended, Rows, Settled, ReclaimsApart
<1>5. Spared'
  <2>1. ASSUME NEW c \in Commands, at[c] = "run", Current(c) \in Watched \cap active'
        PROVE  c \in ghost'.after[Current(c)]
    <3>1. Current(c) \in Providers
      BY <2>1, <1>3 DEF Typed
    <3>2. CASE Current(c) # p
      <4>1. Current(c) \in active
        BY <2>1, <3>2 DEF OwnerStarts, OwnerEnds
      <4>. QED BY <1>2, <2>1, <3>1, <3>2, <4>1 DEF Spared
    <3>3. CASE Current(c) = p
      <4>1. p \in active' => OwnerStarts(p)
        BY DEF OwnerEnds
      <4>2. c \in Running(p)
        BY <2>1, <3>3 DEF Running, Placed, Begun, Inside, Unfailed
      <4>3. ghost' = [ghost EXCEPT !.after[p] = Running(p)] /\ ghost \in GhostRec
        BY <2>1, <3>3, <4>1 DEF OwnerStarts, Typed
      <4>4. ghost'.after[p] = Running(p)
        BY <4>3 DEF GhostRec
      <4>. QED BY <3>3, <4>2, <4>4
    <3>. QED BY <3>2, <3>3
  <2>. QED BY <1>1, <1>2, <2>1 DEF Spared, Current
<1>. QED BY <1>3, <1>4, <1>5

LEMMA BesideStep ==
    ASSUME StorageInv,
           \/ \E p \in Providers : OwnerWrites(p)
           \/ Tick \/ PolicySave \/ PolicyEnsureMonitor \/ UNCHANGED vars
    PROVE  StorageInv'
<1>. USE DEF StorageInv
<1>1. UNCHANGED <<active, quarantines, receipts, holder, at, todo, failed, ghost>>
  BY DEF OwnerWrites, Tick, PolicySave, PolicyEnsureMonitor, vars, host, files, mine
<1>2. dir' \in [Providers -> FileSets]
  BY DEF OwnerWrites, Tick, PolicySave, PolicyEnsureMonitor, vars, files, Typed, FileSets, Absent
<1>3. now' \in Nat
  BY DEF OwnerWrites, Tick, PolicySave, PolicyEnsureMonitor, vars, host, Typed
<1>. QED BY <1>1, <1>2, <1>3 DEF Typed, Shapes, Placed, AsideKept, Over, Current, Spared, OnReceipt,
            Intended, Rows, Settled, ReclaimsApart

(***************************************************************************)
(* The theorems.                                                           *)
(***************************************************************************)
LEMMA StorageInit == Init => StorageInv
<1>. SUFFICES ASSUME Init PROVE StorageInv
  OBVIOUS
<1>. USE DEF Init
<1>1. Typed
  BY SelectedShape DEF Typed, FileSets, GhostRec, Inside
<1>2. \A c \in Commands : at[c] \in {"start", "ended"} /\ ~failed[c] /\ holder # c
  BY NoOneAssumption
<1>3. Rows = {} /\ ReclaimsApart
  BY DEF Rows, ReclaimsApart
<1>. QED BY <1>1, <1>2, <1>3 DEF StorageInv, Placed, AsideKept, Spared, OnReceipt, Settled, Inside, Begun,
            Unfailed, Undoing, Moved

LEMMA StorageStep == StorageInv /\ [Next]_vars => StorageInv'
<1>. SUFFICES ASSUME StorageInv, [Next]_vars PROVE StorageInv'
  OBVIOUS
<1>1. ASSUME NEW c \in Commands, Step(c) \/ Crash(c) PROVE StorageInv'
  BY <1>1, CommandTyped, CommandPlaced, CommandAside, CommandSpared, CommandReceipts, CommandSettled,
     CommandApart DEF StorageInv
<1>. QED BY <1>1, OwnersStep, BesideStep DEF Next

\* What an owner writes while its cache is replaced only leaves the directory when a later reclaim
\* moves the whole of it aside: neither a rollback nor a tool that fails removes it
\* (storageQuarantineRemoveDirectory, restoreQuarantinedCache).
THEOREM OwnersKeepWrites == Spec => NewWritesKept
<1>1. StorageInv /\ [Next]_vars =>
        [\A p \in Providers \cap Quarantined :
            "new" \in dir[p] /\ "new" \notin dir'[p] => \E q \in quarantines' \ quarantines : q.of = p]_vars
  <2>. SUFFICES ASSUME StorageInv, Next, NEW p \in Providers \cap Quarantined,
                       "new" \in dir[p], "new" \notin dir'[p]
                PROVE  \E q \in quarantines' \ quarantines : q.of = p
    OBVIOUS
  <2>. USE DEF StorageInv
  <2>1. PICK c \in Commands : Step(c)
    BY DEF Next, OwnerStarts, OwnerEnds, OwnerWrites, Tick, PolicySave, PolicyEnsureMonitor, Crash, files,
           Typed, Absent
  <2>2. CASE Quarantine(c)
    <3>. DEFINE q == [by |-> c, of |-> p, files |-> dir[p]]
    <3>1. at[c] = "run" /\ Current(c) = p /\ quarantines' = quarantines \cup {q}
      BY <2>2 DEF Quarantine, files, Typed
    <3>2. \A r \in quarantines : r.by # c
      BY <3>1 DEF AsideKept, Over, Moved, Undoing
    <3>3. q \notin quarantines /\ q.of = p
      BY <3>2
    <3>. QED BY <3>1, <3>3
  <2>3. CASE RunTool(c)
    BY <2>3 DEF RunTool, Typed
  <2>4. CASE Recreate(c) \/ Unlink(c) \/ RollbackRename(c)
    BY <2>4 DEF Recreate, Unlink, RollbackRename, PutBack, Typed, Absent, files
  <2>. QED BY <2>1, <2>2, <2>3, <2>4 DEF Step, Plan, PlanRefused, Lock, LockTimeout, Finish, Skip, Refuse,
              Intent, Check, Remove, Rollback, Result, files
<1>. QED BY <1>1, StorageInit, StorageStep, PTL DEF Spec, NewWritesKept

\* An owner that ran when the look for owners was made does not lose its cache
\* (executeStorageProvider asks again behind the lock).
THEOREM OwnersProtected == Spec => []OwnersSpared
<1>1. StorageInv => OwnersSpared
  BY DEF StorageInv, Spared, OwnersSpared
<1>. QED BY <1>1, StorageInit, StorageStep, PTL DEF Spec

\* Between a reclaim on record as completed and the next intent for the same provider that was not
\* forced there is a cooldown, whatever was planned before the lock (storageProviderInsideCooldown).
THEOREM ReclaimCooldown == Spec => []ReclaimsApart
<1>1. StorageInv => ReclaimsApart
  BY DEF StorageInv
<1>. QED BY <1>1, StorageInit, StorageStep, PTL DEF Spec

\* Nothing is touched without an intent on record, and what is recorded as completed left nothing
\* aside and put nothing back, also when commands die (executeStorageProvider).
THEOREM ReceiptsHold == Spec => []ReceiptsTrue
<1>1. StorageInv => ReceiptsTrue
  <2>. SUFFICES ASSUME StorageInv PROVE ReceiptsTrue
    OBVIOUS
  <2>1. \A a \in ghost.taken : \E r \in Rows : r.mode = "intent" /\ <<r.by, r.of>> = a
    BY DEF StorageInv, OnReceipt, Intended
  <2>. QED BY <2>1 DEF StorageInv, Settled, ReceiptsTrue
<1>. QED BY <1>1, StorageInit, StorageStep, PTL DEF Spec
=============================================================================
