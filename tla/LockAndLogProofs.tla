----------------------------- MODULE LockAndLogProofs -----------------------------
(***************************************************************************)
(* Theorems about the two things every wrapper of a machine shares besides *)
(* the ledger: the in-process queue of the ledger's lock (FileLock), for   *)
(* any number of threads, processes and channels, and the day's event log  *)
(* with what its three readers make of it (WorkEvents), for any operations *)
(* and any order of appends, tears, crashes and reconciliations.           *)
(***************************************************************************)
EXTENDS WorkEvents, FileLock, WellFoundedInduction, SequenceTheorems, TLAPS

(***************************************************************************)
(* The chain.  f numbers the open channels of a process in the order in    *)
(* which they were enqueued.                                               *)
(***************************************************************************)
Chain(open, pr, tl, f) ==
    /\ f \in [Channels -> Nat]
    /\ \A c \in open : tl[c[1]] # None /\ f[c] <= f[tl[c[1]]]
    /\ \A c \in open : pr[c] # None =>
           pr[c] \in open /\ pr[c][1] = c[1] /\ f[c] = f[pr[c]] + 1
    /\ \A c, d \in open : c[1] = d[1] => /\ f[c] = f[d] => c = d
                                         /\ pr[c] = None => f[c] <= f[d]
    /\ \A p \in Procs : tl[p] # None => tl[p] \in open /\ tl[p][1] = p

\* What each caller has to close is its own, and is first in the chain at its turn.
Callers ==
    /\ \A t \in Threads : mine[t] = None <=> pc[t] = "idle"
    /\ \A t \in Threads : mine[t] # None => mine[t][1] = Proc[t] /\ mine[t] \notin abandoned
    /\ \A t, u \in Threads : mine[t] = mine[u] /\ mine[t] # None => t = u
    /\ \A t \in Turn : prev[mine[t]] = None

Numbered == \E f : Chain(Open, prev, tail, f)

LockInv == LockTypeOK /\ Callers /\ Numbered

Heads == [Channels -> Channels \cup {None}]
Tails == [Procs -> Channels \cup {None}]

\* enqueue: the newest is numbered one higher.
LEMMA ChainAppend ==
    ASSUME NEW open \in SUBSET Channels, NEW pr \in Heads, NEW tl \in Tails, NEW f,
           Chain(open, pr, tl, f), NEW p \in Procs, NEW c \in Channels \ open, c[1] = p
    PROVE  \E g : Chain(open \cup {c}, [pr EXCEPT ![c] = tl[p]], [tl EXCEPT ![p] = c], g)
<1>. DEFINE n == IF tl[p] = None THEN 0 ELSE f[tl[p]] + 1
            g == [f EXCEPT ![c] = n]
            pr2 == [pr EXCEPT ![c] = tl[p]]
            tl2 == [tl EXCEPT ![p] = c]
            open2 == open \cup {c}
<1>0. None \notin Channels /\ \A d \in Channels : d[1] \in Procs
  BY FileLockAssumption DEF Channels
<1>1. /\ f \in [Channels -> Nat] /\ n \in Nat
      /\ tl[p] # None => tl[p] \in open /\ tl[p][1] = p
  BY DEF Chain, Tails
<1>2. g \in [Channels -> Nat] /\ g[c] = n /\ \A d \in open : g[d] = f[d] /\ d # c
  BY <1>1
<1>3. pr2[c] = tl[p] /\ (\A d \in open : pr2[d] = pr[d])
  BY DEF Heads
<1>4. tl2[p] = c /\ (\A q \in Procs \ {p} : tl2[q] = tl[q])
  BY DEF Tails
<1>5. \A d \in open : d[1] = p => tl[p] # None /\ f[d] < n /\ f[d] \in Nat
  BY <1>0, <1>1 DEF Chain
<1>. HIDE DEF g, n, pr2, tl2
<1>6. \A d \in open2 : tl2[d[1]] # None /\ g[d] <= g[tl2[d[1]]]
  <2>1. ASSUME NEW d \in open PROVE tl2[d[1]] # None /\ g[d] <= g[tl2[d[1]]]
    <3>1. CASE d[1] = p
      BY <1>0, <1>2, <1>4, <1>5, <3>1
    <3>2. CASE d[1] # p
      BY <1>0, <1>2, <1>4, <3>2 DEF Chain
    <3>. QED BY <3>1, <3>2
  <2>2. tl2[c[1]] # None /\ g[c] <= g[tl2[c[1]]]
    BY <1>0, <1>1, <1>2, <1>4
  <2>. QED BY <2>1, <2>2
<1>7. \A d \in open2 : pr2[d] # None =>
         pr2[d] \in open2 /\ pr2[d][1] = d[1] /\ g[d] = g[pr2[d]] + 1
  <2>1. ASSUME NEW d \in open, pr2[d] # None
        PROVE  pr2[d] \in open2 /\ pr2[d][1] = d[1] /\ g[d] = g[pr2[d]] + 1
    BY <1>2, <1>3, <2>1 DEF Chain
  <2>2. ASSUME pr2[c] # None
        PROVE  pr2[c] \in open2 /\ pr2[c][1] = c[1] /\ g[c] = g[pr2[c]] + 1
    BY <1>1, <1>2, <1>3, <2>2 DEF n
  <2>. QED BY <2>1, <2>2
<1>8. \A d, e \in open2 : d[1] = e[1] => /\ g[d] = g[e] => d = e
                                         /\ pr2[d] = None => g[d] <= g[e]
  <2>1. ASSUME NEW d \in open, NEW e \in open, d[1] = e[1]
        PROVE  (g[d] = g[e] => d = e) /\ (pr2[d] = None => g[d] <= g[e])
    BY <1>2, <1>3, <2>1 DEF Chain
  <2>2. ASSUME NEW d \in open, d[1] = p
        PROVE  g[d] < g[c] /\ g[d] \in Nat /\ g[c] \in Nat /\ pr2[c] # None
    BY <1>1, <1>2, <1>3, <1>5, <2>2
  <2>. QED BY <1>1, <1>2, <2>1, <2>2
<1>9. \A q \in Procs : tl2[q] # None => tl2[q] \in open2 /\ tl2[q][1] = q
  BY <1>4 DEF Chain
<1>10. Chain(open2, pr2, tl2, g)
  BY <1>2, <1>6, <1>7, <1>8, <1>9 DEF Chain
<1>. QED BY <1>10 DEF pr2, tl2

\* releaseFn: the first of the chain is closed, and the next one is first.
LEMMA ChainClose ==
    ASSUME NEW open \in SUBSET Channels, NEW pr \in Heads, NEW tl \in Tails, NEW f,
           Chain(open, pr, tl, f), NEW c \in open, pr[c] = None
    PROVE  Chain(open \ {c}, [d \in Channels |-> IF pr[d] = c THEN None ELSE pr[d]],
                 [tl EXCEPT ![c[1]] = IF @ = c THEN None ELSE @], f)
<1>. DEFINE pr2 == [d \in Channels |-> IF pr[d] = c THEN None ELSE pr[d]]
            tl2 == [tl EXCEPT ![c[1]] = IF @ = c THEN None ELSE @]
            open2 == open \ {c}
<1>0. None \notin Channels /\ \A d \in Channels : d[1] \in Procs
  BY FileLockAssumption DEF Channels
<1>1. f \in [Channels -> Nat]
  BY DEF Chain
\* The first has the lowest number, so the others of its process come after it.
<1>2. \A d \in open2 : d[1] = c[1] => f[c] + 1 <= f[d]
  <2>1. ASSUME NEW d \in open2, d[1] = c[1] PROVE f[c] <= f[d] /\ f[c] # f[d]
    BY <2>1 DEF Chain
  <2>. QED BY <1>1, <2>1
<1>3. \A d \in open : pr2[d] = IF pr[d] = c THEN None ELSE pr[d]
  OBVIOUS
<1>4. \A q \in Procs : tl2[q] = IF q = c[1] /\ tl[q] = c THEN None ELSE tl[q]
  BY <1>0 DEF Tails
<1>. HIDE DEF pr2, tl2
<1>5. \A d \in open2 : tl2[d[1]] # None /\ f[d] <= f[tl2[d[1]]]
  <2>1. ASSUME NEW d \in open2 PROVE tl[d[1]] # None /\ f[d] <= f[tl[d[1]]] /\ d[1] \in Procs
    BY <1>0 DEF Chain
  <2>2. ASSUME NEW d \in open2, d[1] = c[1], tl[d[1]] = c PROVE FALSE
    <3>1. f[d] <= f[c] /\ f[c] + 1 <= f[d]
      BY <1>2, <2>1, <2>2
    <3>. QED BY <1>1, <3>1
  <2>. QED BY <1>4, <2>1, <2>2
<1>6. \A d \in open2 : pr2[d] # None =>
         pr2[d] \in open2 /\ pr2[d][1] = d[1] /\ f[d] = f[pr2[d]] + 1
  BY <1>3 DEF Chain
<1>7. \A d, e \in open2 : d[1] = e[1] => /\ f[d] = f[e] => d = e
                                         /\ pr2[d] = None => f[d] <= f[e]
  <2>1. ASSUME NEW d \in open2, NEW e \in open2, d[1] = e[1] PROVE f[d] = f[e] => d = e
    BY <2>1 DEF Chain
  <2>2. ASSUME NEW d \in open2, NEW e \in open2, d[1] = e[1], pr2[d] = None PROVE f[d] <= f[e]
    <3>1. CASE pr[d] = None
      BY <2>2, <3>1 DEF Chain
    <3>2. CASE pr[d] # None
      <4>1. pr[d] = c
        BY <1>3, <2>2, <3>2
      <4>2. d[1] = c[1] /\ f[d] = f[c] + 1
        BY <1>0, <3>2, <4>1 DEF Chain
      <4>. QED BY <1>2, <2>2, <4>2
    <3>. QED BY <3>1, <3>2
  <2>. QED BY <2>1, <2>2
<1>8. \A q \in Procs : tl2[q] # None => tl2[q] \in open2 /\ tl2[q][1] = q
  BY <1>4 DEF Chain
<1>9. Chain(open2, pr2, tl2, f)
  BY <1>1, <1>5, <1>6, <1>7, <1>8 DEF Chain
<1>. QED BY <1>9 DEF pr2, tl2

\* A process dies with its channels.
LEMMA ChainKilled ==
    ASSUME NEW open \in SUBSET Channels, NEW pr \in Heads, NEW tl \in Tails, NEW f,
           Chain(open, pr, tl, f), NEW p \in Procs
    PROVE  Chain({c \in open : c[1] # p}, [c \in Channels |-> IF c[1] = p THEN None ELSE pr[c]],
                 [tl EXCEPT ![p] = None], f)
<1>. DEFINE pr2 == [c \in Channels |-> IF c[1] = p THEN None ELSE pr[c]]
            tl2 == [tl EXCEPT ![p] = None]
            open2 == {c \in open : c[1] # p}
<1>0. \A d \in Channels : d[1] \in Procs
  BY DEF Channels
<1>1. \A d \in open2 : pr2[d] = pr[d] /\ tl2[d[1]] = tl[d[1]] /\ d \in open /\ d[1] # p
  BY <1>0 DEF Tails
<1>2. \A q \in Procs : tl2[q] = IF q = p THEN None ELSE tl[q]
  BY DEF Tails
<1>3. \A d \in open : d[1] # p => d \in open2
  OBVIOUS
<1>. HIDE DEF pr2, tl2, open2
<1>4. Chain(open2, pr2, tl2, f)
  BY <1>1, <1>2, <1>3 DEF Chain
<1>. QED BY <1>4 DEF pr2, tl2, open2

(***************************************************************************)
(* What the invariant says.                                                *)
(***************************************************************************)
\* Of two open channels of a process, only one can be first: a turn is one caller's.
LEMMA FirstIsOne ==
    ASSUME NEW open, NEW pr, NEW tl, NEW f, Chain(open, pr, tl, f),
           NEW c \in Channels, NEW d \in Channels, c \in open, d \in open, c[1] = d[1],
           pr[c] = None, pr[d] = None
    PROVE  c = d
<1>1. f[c] <= f[d] /\ f[d] <= f[c] /\ f[c] \in Nat /\ f[d] \in Nat
  BY DEF Chain
<1>2. f[c] = f[d]
  BY <1>1
<1>. QED BY <1>2 DEF Chain

\* A chain whose channels can be numbered is intact.
LEMMA ChainShape ==
    ASSUME NEW open, NEW pr, NEW tl, NEW f, open \subseteq Channels, Chain(open, pr, tl, f)
    PROVE  /\ \A c \in open : pr[c] \in open \cup {None}
           /\ \A c, d \in open : pr[c] = pr[d] /\ pr[c] # None => c = d
           /\ \A p \in Procs : tl[p] \in open \cup {None}
           /\ \A c \in open : pr[c] # None => pr[c] # tl[c[1]]
<1>1. \A c \in open : pr[c] \in open \cup {None}
  BY DEF Chain
<1>2. ASSUME NEW c \in open, NEW d \in open, pr[c] = pr[d], pr[c] # None PROVE c = d
  <2>1. c[1] = d[1] /\ f[c] = f[d]
    BY <1>2 DEF Chain
  <2>. QED BY <2>1 DEF Chain
<1>3. \A p \in Procs : tl[p] \in open \cup {None}
  BY DEF Chain
<1>4. ASSUME NEW c \in open, pr[c] # None PROVE pr[c] # tl[c[1]]
  <2>1. f[c] = f[pr[c]] + 1 /\ f[c] <= f[tl[c[1]]] /\ f[pr[c]] \in Nat
    BY <1>4 DEF Chain
  <2>. QED BY <2>1
<1>. QED BY <1>1, <1>2, <1>3, <1>4

LEMMA LockInvGives == LockInv => OneTurn
<1>. SUFFICES ASSUME LockInv PROVE OneTurn
  OBVIOUS
<1>. USE DEF LockInv
<1>1. Open \in SUBSET Channels /\ prev \in Heads /\ tail \in Tails
  BY DEF LockTypeOK, Open, Heads, Tails
<1>2. PICK f : Chain(Open, prev, tail, f)
  BY DEF Numbered
<1>3. ChainIntact
  BY <1>1, <1>2, ChainShape DEF ChainIntact
<1>4. ASSUME NEW t \in Turn, NEW u \in Turn, Proc[t] = Proc[u] PROVE t = u
  <2>1. /\ t \in Threads /\ u \in Threads
        /\ mine[t] # None /\ mine[u] # None
        /\ prev[mine[t]] = None /\ prev[mine[u]] = None
        /\ mine[t][1] = mine[u][1]
    BY <1>4 DEF Callers, Turn
  <2>2. mine[t] \in Open /\ mine[u] \in Open
    BY <2>1 DEF Open
  <2>3. mine[t] = mine[u]
    BY <1>1, <1>2, <2>1, <2>2, FirstIsOne
  <2>. QED BY <2>1, <2>3 DEF Callers
<1>. QED BY <1>3, <1>4 DEF OneTurn, OneInside

(***************************************************************************)
(* The steps.                                                              *)
(***************************************************************************)
\* A call that only moves within its own turn, or takes it: the queue stays.
LEMMA TurnStep ==
    ASSUME LockInv, UNCHANGED queue, LockTypeOK', NEW t \in Threads, NEW s,
           pc' = [pc EXCEPT ![t] = s], s # "idle", mine[t] # None, prev[mine[t]] = None
    PROVE  LockInv'
<1>. USE DEF LockInv, queue
<1>1. Open' = Open
  BY DEF Open
<1>2. Numbered'
  BY <1>1 DEF Numbered
<1>3. /\ pc'[t] = s
      /\ \A u \in Threads \ {t} : pc'[u] = pc[u]
  BY DEF LockTypeOK
<1>4. Callers'
  BY <1>3 DEF Callers, Turn
<1>. QED BY <1>2, <1>4

\* A caller that has its turn gives it back: the next one is first.
LEMMA LockReleaseStep ==
    ASSUME LockInv, LockTypeOK', NEW t \in Turn, ReleaseQueue(t), pc' = [pc EXCEPT ![t] = "idle"]
    PROVE  LockInv'
<1>. USE DEF LockInv
<1>. DEFINE c == mine[t]
<1>0. /\ t \in Threads /\ c # None /\ c \in Channels /\ c[1] = Proc[t] /\ c[1] \in Procs
      /\ prev[c] = None /\ c \notin abandoned
  <2>1. t \in Threads /\ c # None /\ c \in Channels /\ c[1] = Proc[t] /\ c \notin abandoned
    BY DEF Turn, Callers, LockTypeOK
  <2>2. Proc[t] \in Procs
    BY <2>1, FileLockAssumption
  <2>3. prev[c] = None
    BY DEF Callers
  <2>. QED BY <2>1, <2>2, <2>3
<1>1. Open \in SUBSET Channels /\ prev \in Heads /\ tail \in Tails /\ c \in Open
  BY <1>0 DEF LockTypeOK, Open, Heads, Tails
<1>2. /\ mine'[t] = None /\ pc'[t] = "idle" /\ abandoned' = abandoned
      /\ \A u \in Threads \ {t} : mine'[u] = mine[u] /\ pc'[u] = pc[u] /\ mine[u] # c
  BY <1>0 DEF ReleaseQueue, LockTypeOK, Callers
<1>3. prev' = [d \in Channels |-> IF prev[d] = c THEN None ELSE prev[d]]
  BY DEF ReleaseQueue, Close
<1>4. tail' = [tail EXCEPT ![c[1]] = IF @ = c THEN None ELSE @]
  BY DEF ReleaseQueue, Close
<1>. HIDE DEF c
<1>5. Open' = Open \ {c}
  BY <1>0, <1>2 DEF Open, c
<1>6. PICK f : Chain(Open, prev, tail, f)
  BY DEF Numbered
<1>7. Chain(Open', prev', tail', f)
  BY <1>0, <1>1, <1>3, <1>4, <1>5, <1>6, ChainClose
<1>8. Numbered'
  BY <1>7 DEF Numbered
<1>9. Callers'
  <2>1. \A d \in Channels : prev[d] = None => prev'[d] = None
    BY <1>3
  <2>2. Turn' = Turn \ {t}
    BY <1>0, <1>2 DEF Turn
  <2>3. \A u \in Turn' : mine'[u] = mine[u] /\ mine[u] \in Channels /\ prev[mine[u]] = None
    BY <1>2, <2>2 DEF Callers, Turn, LockTypeOK
  <2>4. \A u \in Turn' : prev'[mine'[u]] = None
    BY <2>1, <2>3
  <2>. QED BY <1>0, <1>2, <2>4 DEF Callers
<1>. QED BY <1>8, <1>9

LEMMA EnqueueStep == ASSUME LockInv, LockTypeOK', NEW t \in Threads, Enqueue(t) PROVE LockInv'
<1>. USE DEF LockInv
<1>1. PICK c \in Channels \ Open :
        /\ c[1] = Proc[t]
        /\ pc' = [pc EXCEPT ![t] = IF tail[Proc[t]] = None THEN "create" ELSE "queued"]
        /\ prev' = [prev EXCEPT ![c] = tail[Proc[t]]]
        /\ tail' = [tail EXCEPT ![Proc[t]] = c]
        /\ mine' = [mine EXCEPT ![t] = c]
        /\ abandoned' = abandoned /\ pc[t] = "idle"
  <2>. DEFINE free == {d \in Channels \ Open : d[1] = Proc[t]}
              c == CHOOSE d \in free : TRUE
  <2>1. c \in free
    BY DEF Enqueue
  <2>2. /\ c \in Channels \ Open /\ c[1] = Proc[t]
    BY <2>1
  <2>3. /\ pc' = [pc EXCEPT ![t] = IF tail[Proc[t]] = None THEN "create" ELSE "queued"]
        /\ prev' = [prev EXCEPT ![c] = tail[Proc[t]]]
        /\ tail' = [tail EXCEPT ![Proc[t]] = c]
        /\ mine' = [mine EXCEPT ![t] = c]
        /\ abandoned' = abandoned /\ pc[t] = "idle"
    BY DEF Enqueue, Advance
  <2>. HIDE DEF c
  <2>. QED BY <2>2, <2>3
<1>2. Open \in SUBSET Channels /\ prev \in Heads /\ tail \in Tails /\ Proc[t] \in Procs
  BY FileLockAssumption DEF LockTypeOK, Open, Heads, Tails
<1>3. c # None
  BY FileLockAssumption DEF Channels
<1>4. /\ mine'[t] = c /\ mine[t] = None /\ pc'[t] \in {"create", "queued"}
      /\ pc'[t] = "create" => tail[Proc[t]] = None
      /\ \A u \in Threads \ {t} : mine'[u] = mine[u] /\ pc'[u] = pc[u]
  BY <1>1 DEF LockTypeOK, Callers
<1>5. Open' = Open \cup {c}
  BY <1>1, <1>3, <1>4 DEF Open
<1>6. PICK f : Chain(Open, prev, tail, f)
  BY DEF Numbered
<1>7. \E g : Chain(Open \cup {c}, prev', tail', g)
  BY <1>1, <1>2, <1>6, ChainAppend
<1>8. Numbered'
  BY <1>5, <1>7 DEF Numbered
<1>9. Callers'
  <2>1. \A u \in Threads \ {t} : mine[u] # None => mine[u] \in Open /\ mine[u] # c
    BY <1>1 DEF Open
  <2>2. prev'[c] = tail[Proc[t]] /\ \A d \in Channels \ {c} : prev'[d] = prev[d]
    BY <1>1 DEF LockTypeOK
  <2>3. \A u \in Turn' : prev'[mine'[u]] = None
    <3>1. ASSUME NEW u \in Turn', u # t PROVE prev'[mine'[u]] = None
      <4>1. u \in Turn /\ u \in Threads /\ mine'[u] = mine[u]
        BY <1>4, <3>1 DEF Turn
      <4>2. mine[u] \in Channels \ {c} /\ prev[mine[u]] = None
        BY <2>1, <3>1, <4>1 DEF Callers, Turn, LockTypeOK
      <4>. QED BY <2>2, <4>1, <4>2
    <3>2. ASSUME t \in Turn' PROVE prev'[mine'[t]] = None
      BY <1>4, <2>2, <3>2 DEF Turn
    <3>. QED BY <3>1, <3>2
  <2>4. c \notin abandoned
    BY DEF Open
  <2>. QED BY <1>1, <1>3, <1>4, <2>1, <2>3, <2>4 DEF Callers
<1>. QED BY <1>8, <1>9

\* The caller leaves, its channel stays in the chain.
LEMMA LockAbandonStep == ASSUME LockInv, LockTypeOK', NEW t \in Threads, Abandon(t) PROVE LockInv'
<1>. USE DEF LockInv
<1>1. /\ mine[t] # None /\ pc[t] = "queued"
      /\ mine'[t] = None /\ pc'[t] = "idle"
      /\ abandoned' = abandoned \cup {mine[t]}
      /\ \A u \in Threads \ {t} : mine'[u] = mine[u] /\ pc'[u] = pc[u] /\ mine[u] # mine[t]
      /\ tail' = tail /\ prev' = prev
  BY DEF Abandon, Advance, LockTypeOK, Callers
<1>2. Open' = Open
  BY <1>1 DEF Open
<1>3. Numbered'
  BY <1>1, <1>2 DEF Numbered
<1>4. Turn' = Turn
  BY <1>1 DEF Turn
<1>5. Callers'
  BY <1>1, <1>4 DEF Callers, Turn
<1>. QED BY <1>3, <1>5

LEMMA HandOffStep == ASSUME LockInv, LockTypeOK', NEW c \in Channels, HandOff(c) PROVE LockInv'
<1>. USE DEF LockInv
<1>0. /\ c \in abandoned /\ prev[c] = None /\ abandoned' = abandoned \ {c}
      /\ mine' = mine /\ pc' = pc
      /\ prev' = [d \in Channels |-> IF prev[d] = c THEN None ELSE prev[d]]
      /\ tail' = [tail EXCEPT ![c[1]] = IF @ = c THEN None ELSE @]
  BY DEF HandOff, Close
<1>1. Open \in SUBSET Channels /\ prev \in Heads /\ tail \in Tails /\ c \in Open
  BY <1>0 DEF LockTypeOK, Open, Heads, Tails
<1>2. Open' = Open \ {c}
  BY <1>0 DEF Open, Callers
<1>3. PICK f : Chain(Open, prev, tail, f)
  BY DEF Numbered
<1>4. Chain(Open', prev', tail', f)
  BY <1>0, <1>1, <1>2, <1>3, ChainClose
<1>5. Numbered'
  BY <1>4 DEF Numbered
<1>6. Callers'
  <2>1. \A t \in Turn : t \in Threads /\ mine[t] \in Channels /\ prev[mine[t]] = None
    BY DEF Callers, Turn, LockTypeOK
  <2>2. \A t \in Turn : prev'[mine[t]] = None
    BY <1>0, <2>1
  <2>. QED BY <1>0, <2>2 DEF Callers, Turn
<1>. QED BY <1>5, <1>6

LEMMA LockKilledStep == ASSUME LockInv, LockTypeOK', NEW p \in Procs, Killed(p) PROVE LockInv'
<1>. USE DEF LockInv
<1>0. /\ tail' = [tail EXCEPT ![p] = None]
      /\ prev' = [c \in Channels |-> IF c[1] = p THEN None ELSE prev[c]]
      /\ abandoned' = {c \in abandoned : c[1] # p}
      /\ \A t \in Threads : /\ mine'[t] = IF Proc[t] = p THEN None ELSE mine[t]
                            /\ pc'[t] = IF Proc[t] = p THEN "idle" ELSE pc[t]
  BY DEF Killed
<1>1. Open \in SUBSET Channels /\ prev \in Heads /\ tail \in Tails
  BY DEF LockTypeOK, Open, Heads, Tails
<1>2. Open' = {c \in Open : c[1] # p}
  <2>1. \A t \in Threads : mine[t] # None => mine[t][1] = Proc[t]
    BY DEF Callers
  <2>. QED BY <1>0, <2>1 DEF Open
<1>3. PICK f : Chain(Open, prev, tail, f)
  BY DEF Numbered
<1>4. Chain(Open', prev', tail', f)
  BY <1>0, <1>1, <1>2, <1>3, ChainKilled
<1>5. Numbered'
  BY <1>4 DEF Numbered
<1>6. Callers'
  <2>1. \A t \in Turn' : t \in Turn /\ mine'[t] = mine[t] /\ mine[t] \in Channels
                         /\ prev[mine[t]] = None
    BY <1>0 DEF Callers, Turn, LockTypeOK
  <2>2. \A t \in Turn' : prev'[mine'[t]] = None
    BY <1>0, <2>1
  <2>. QED BY <1>0, <2>2 DEF Callers
<1>. QED BY <1>5, <1>6

\* Types: what a step writes is of its kind.
LEMMA LockTypes == ASSUME LockTypeOK, Callers, [LockNext]_lockVars PROVE LockTypeOK'
<1>. USE DEF LockTypeOK, Sidecars, Missing, Advance
<1>0. \A t \in Threads : t # None /\ Proc[t] \in Procs
  BY FileLockAssumption
<1>1. ASSUME NEW t \in Threads, Enqueue(t) PROVE LockTypeOK'
  <2>. DEFINE free == {d \in Channels \ Open : d[1] = Proc[t]}
  <2>1. (CHOOSE d \in free : TRUE) \in Channels
    BY <1>1 DEF Enqueue
  <2>. QED BY <1>0, <1>1, <2>1 DEF Enqueue
<1>2. ASSUME NEW t \in Threads, Granted(t) PROVE LockTypeOK'
  BY <1>2 DEF Granted, queue
<1>3. ASSUME NEW t \in Threads, Abandon(t) PROVE LockTypeOK'
  BY <1>3 DEF Abandon, Callers
<1>4. ASSUME NEW t \in Threads, TryCreateLock(t) PROVE LockTypeOK'
  BY <1>4 DEF TryCreateLock, queue
<1>5. ASSUME NEW t \in Threads, Probe(t) \/ Reclaim(t) \/ Poll(t) PROVE LockTypeOK'
  BY <1>5 DEF Probe, Reclaim, Poll, queue
<1>6. ASSUME NEW t \in Threads, Timeout(t) \/ Fail(t) \/ Leave(t) PROVE LockTypeOK'
  <2>1. ReleaseQueue(t) /\ pc' = [pc EXCEPT ![t] = "idle"] /\ file' = file
    BY <1>6 DEF Timeout, Fail, Leave
  <2>. QED BY <2>1 DEF ReleaseQueue, Close
<1>7. ASSUME NEW t \in Threads, ReadToken(t) \/ Unlink(t) PROVE LockTypeOK'
  BY <1>7 DEF ReadToken, Unlink, queue
<1>8. ASSUME NEW c \in Channels, HandOff(c) PROVE LockTypeOK'
  BY <1>8 DEF HandOff, Close
<1>9. ASSUME NEW p \in Procs, Killed(p) PROVE LockTypeOK'
  BY <1>9 DEF Killed
<1>10. ASSUME ReusePID \/ ReuserExits \/ AgeLitter PROVE LockTypeOK'
  BY <1>10 DEF ReusePID, ReuserExits, AgeLitter, queue
<1>11. ASSUME UNCHANGED lockVars PROVE LockTypeOK'
  BY <1>11 DEF lockVars
<1>. QED BY <1>1, <1>2, <1>3, <1>4, <1>5, <1>6, <1>7, <1>8, <1>9, <1>10, <1>11 DEF LockNext

LEMMA LockStep == LockInv /\ [LockNext]_lockVars => LockInv'
<1>. SUFFICES ASSUME LockInv, [LockNext]_lockVars PROVE LockInv'
  OBVIOUS
<1>0. LockTypeOK'
  BY LockTypes DEF LockInv
<1>1. ASSUME NEW t \in Threads,
             Granted(t) \/ TryCreateLock(t) \/ Probe(t) \/ Reclaim(t)
               \/ Poll(t) \/ ReadToken(t) \/ Unlink(t)
      PROVE  LockInv'
  <2>1. /\ UNCHANGED queue
        /\ \E s : s # "idle" /\ pc' = [pc EXCEPT ![t] = s]
    BY <1>1 DEF Granted, TryCreateLock, Probe, Reclaim, Poll, ReadToken, Unlink, Advance
  <2>2. mine[t] # None /\ prev[mine[t]] = None
    BY <1>1 DEF LockInv, Callers, Turn, Granted, TryCreateLock, Probe, Reclaim, Poll,
                ReadToken, Unlink, Advance
  <2>. QED BY <1>0, <2>1, <2>2, TurnStep
<1>2. ASSUME NEW t \in Threads, Timeout(t) \/ Fail(t) \/ Leave(t) PROVE LockInv'
  <2>1. ReleaseQueue(t) /\ pc' = [pc EXCEPT ![t] = "idle"] /\ t \in Turn
    BY <1>2 DEF Timeout, Fail, Leave, Advance, Turn
  <2>. QED BY <1>0, <2>1, LockReleaseStep
<1>3. ASSUME ReusePID \/ ReuserExits \/ AgeLitter \/ UNCHANGED lockVars PROVE LockInv'
  <2>1. UNCHANGED <<tail, prev, mine, abandoned, pc>>
    BY <1>3 DEF ReusePID, ReuserExits, AgeLitter, queue, lockVars
  <2>2. Open' = Open /\ Turn' = Turn
    BY <2>1 DEF Open, Turn
  <2>3. Callers' /\ Numbered'
    BY <2>1, <2>2 DEF LockInv, Callers, Numbered
  <2>. QED BY <1>0, <2>3 DEF LockInv
<1>. QED BY <1>0, <1>1, <1>2, <1>3, EnqueueStep, LockAbandonStep, HandOffStep, LockKilledStep DEF LockNext

LEMMA LockInvInit == LockInit => LockInv
<1>. SUFFICES ASSUME LockInit PROVE LockInv
  OBVIOUS
<1>1. LockTypeOK
  BY DEF LockInit, LockTypeOK, Sidecars, Missing
<1>2. Open = {} /\ Turn = {}
  BY DEF LockInit, Open, Turn
<1>3. Chain({}, prev, tail, [c \in Channels |-> 0])
  BY DEF Chain, LockInit
<1>4. Callers
  BY <1>2 DEF LockInit, Callers
<1>. QED BY <1>1, <1>2, <1>3, <1>4 DEF LockInv, Numbered

\* One caller of a process is past the in-process queue, and the queue stays a chain
\* nobody is cut off from, whatever times out, gives up, is handed off or is killed
\* (enqueue, AcquireContext, unlock in filelock.go).
THEOREM OneCallerInside == LockSpec => []OneTurn
<1>1. LockInit => LockInv
  BY LockInvInit
<1>2. LockInv /\ [LockNext]_lockVars => LockInv'
  BY LockStep
<1>3. LockInv => OneTurn
  BY LockInvGives
<1>. QED BY <1>1, <1>2, <1>3, PTL DEF LockSpec

(***************************************************************************)
(* The validator goes through the rows one by one: what it makes of a      *)
(* history is what it made of the history before, and the last row.        *)
(***************************************************************************)
LEMMA LeastOf ==
    ASSUME NEW S \in SUBSET Nat, S # {}
    PROVE  \E m \in S : \A k \in S : m <= k
<1>1. IsWellFoundedOn(OpToRel(<, Nat), Nat) BY NatLessThanWellFounded
<1>2. PICK m \in S : \A k \in S : ~(<<k, m>> \in OpToRel(<, Nat))
  BY <1>1, WFMin
<1>3. \A k \in S : ~(k < m) BY <1>2 DEF OpToRel
<1>. QED BY <1>3

Judged(g, rows, n) ==
    g = [k \in 0..n |-> IF k = 0 THEN NewLifecycle ELSE AddEvent(g[k - 1], rows[k])]

LEMMA JudgedOne ==
    ASSUME NEW g, NEW rows, NEW n \in Nat, Judged(g, rows, n)
    PROVE  /\ g[0] = NewLifecycle
           /\ \A k \in 1..n : g[k] = AddEvent(g[k - 1], rows[k])
           /\ g = [k \in 0..n |-> g[k]]
<1>. DEFINE e(k) == IF k = 0 THEN NewLifecycle ELSE AddEvent(g[k - 1], rows[k])
<1>1. g = [k \in 0..n |-> e(k)] BY DEF Judged
<1>2. \A k \in 0..n : g[k] = e(k) BY <1>1
<1>3. 0 \in 0..n /\ \A k \in 1..n : k \in 0..n /\ k # 0 OBVIOUS
<1>4. g[0] = NewLifecycle BY <1>2, <1>3
<1>5. \A k \in 1..n : g[k] = AddEvent(g[k - 1], rows[k]) BY <1>2, <1>3
<1>6. [k \in 0..n |-> e(k)] = [k \in 0..n |-> g[k]] BY <1>2
<1>. QED BY <1>1, <1>4, <1>5, <1>6

LEMMA JudgedBy ==
    ASSUME NEW g, NEW rows, NEW n \in Nat, g = [k \in 0..n |-> g[k]],
           g[0] = NewLifecycle, \A k \in 1..n : g[k] = AddEvent(g[k - 1], rows[k])
    PROVE  Judged(g, rows, n)
<1>. DEFINE e(k) == IF k = 0 THEN NewLifecycle ELSE AddEvent(g[k - 1], rows[k])
<1>1. \A k \in 0..n : k = 0 \/ k \in 1..n OBVIOUS
<1>2. \A k \in 1..n : k # 0 OBVIOUS
<1>3. \A k \in 0..n : g[k] = e(k) BY <1>1, <1>2
<1>4. [k \in 0..n |-> e(k)] = [k \in 0..n |-> g[k]] BY <1>3
<1>. QED BY <1>4 DEF Judged

LEMMA JudgedExists ==
    ASSUME NEW rows, NEW n \in Nat
    PROVE  \E g : Judged(g, rows, n)
<1>. DEFINE S == {k \in Nat : ~\E g : Judged(g, rows, k)}
<1>. SUFFICES ASSUME S # {} PROVE FALSE OBVIOUS
<1>1. PICK m \in S : \A k \in S : m <= k BY LeastOf
<1>2. CASE m = 0
  <2>. DEFINE g == [k \in 0..0 |-> NewLifecycle]
  <2>1. g = [k \in 0..0 |-> g[k]] /\ g[0] = NewLifecycle OBVIOUS
  <2>. HIDE DEF g
  <2>2. \A k \in 1..0 : g[k] = AddEvent(g[k - 1], rows[k]) OBVIOUS
  <2>3. Judged(g, rows, 0) BY <2>1, <2>2, JudgedBy
  <2>. QED BY <1>1, <1>2, <2>3
<1>3. CASE m # 0
  <2>1. m - 1 \in Nat /\ m - 1 < m /\ m \in Nat BY <1>1, <1>3
  <2>2. m - 1 \notin S BY <1>1, <2>1
  <2>3. PICK g : Judged(g, rows, m - 1) BY <2>1, <2>2
  <2>. DEFINE h == [k \in 0..m |-> IF k = m THEN AddEvent(g[m - 1], rows[m]) ELSE g[k]]
  <2>4. h = [k \in 0..m |-> h[k]] /\ h[m] = AddEvent(g[m - 1], rows[m]) BY <2>1
  <2>5. \A k \in 0..(m - 1) : h[k] = g[k] BY <2>1
  <2>. HIDE DEF h
  <2>6. /\ g[0] = NewLifecycle
        /\ \A k \in 1..(m - 1) : g[k] = AddEvent(g[k - 1], rows[k])
    BY <2>1, <2>3, JudgedOne
  <2>7. 0 \in 0..(m - 1) /\ m - 1 \in 0..(m - 1) BY <2>1
  <2>8. \A k \in 1..m : k = m \/ (k \in 1..(m - 1) /\ k \in 0..(m - 1) /\ k - 1 \in 0..(m - 1))
    BY <2>1
  <2>9. \A k \in 1..m : h[k] = AddEvent(h[k - 1], rows[k])
    BY <2>4, <2>5, <2>6, <2>7, <2>8
  <2>10. Judged(h, rows, m) BY <2>1, <2>4, <2>5, <2>6, <2>7, <2>9, JudgedBy
  <2>. QED BY <1>1, <2>10
<1>. QED BY <1>2, <1>3

LEMMA JudgedAlike ==
    ASSUME NEW g, NEW h, NEW rows, NEW more, NEW n \in Nat, NEW m \in Nat, n <= m,
           Judged(g, rows, n), Judged(h, more, m), \A k \in 1..n : rows[k] = more[k]
    PROVE  \A k \in 0..n : g[k] = h[k]
<1>. DEFINE S == {k \in 0..n : g[k] # h[k]}
<1>. SUFFICES ASSUME S # {} PROVE FALSE OBVIOUS
<1>0. S \in SUBSET Nat OBVIOUS
<1>1. PICK j \in S : \A k \in S : j <= k BY <1>0, LeastOf
<1>2. /\ g[0] = NewLifecycle /\ h[0] = NewLifecycle
      /\ \A k \in 1..n : g[k] = AddEvent(g[k - 1], rows[k])
      /\ \A k \in 1..m : h[k] = AddEvent(h[k - 1], more[k])
  BY JudgedOne
<1>3. j # 0 /\ j \in 0..n BY <1>1, <1>2
<1>4. j \in 1..n /\ j \in 1..m /\ j - 1 \in 0..n /\ j - 1 < j BY <1>3
<1>5. j - 1 \notin S BY <1>1, <1>4
<1>6. g[j - 1] = h[j - 1] BY <1>4, <1>5
<1>7. g[j] = h[j] BY <1>2, <1>4, <1>6
<1>. QED BY <1>1, <1>7

LEMMA LifecycleIs ==
    ASSUME NEW rows, Len(rows) \in Nat, NEW g, Judged(g, rows, Len(rows))
    PROVE  Lifecycle(rows) = g[Len(rows)]
<1>. DEFINE after == CHOOSE h : h = [n \in 0..Len(rows) |->
                  IF n = 0 THEN NewLifecycle ELSE AddEvent(h[n - 1], rows[n])]
<1>1. Lifecycle(rows) = after[Len(rows)] BY DEF Lifecycle
<1>2. Judged(after, rows, Len(rows)) BY JudgedExists DEF Judged
<1>. HIDE DEF after
<1>3. after[Len(rows)] = g[Len(rows)] BY <1>2, JudgedAlike
<1>. QED BY <1>1, <1>3

LEMMA LifecycleOfNone == Lifecycle(<<>>) = NewLifecycle
<1>1. PICK g : Judged(g, <<>>, 0) BY JudgedExists
<1>2. g[0] = NewLifecycle BY <1>1, JudgedOne
<1>3. Len(<<>>) = 0 OBVIOUS
<1>. QED BY <1>1, <1>2, <1>3, LifecycleIs

LEMMA LifecycleAppend ==
    ASSUME NEW s \in Seq(Row), NEW r \in Row
    PROVE  Lifecycle(Append(s, r)) = AddEvent(Lifecycle(s), r)
<1>. DEFINE t == Append(s, r)
<1>1. /\ Len(s) \in Nat /\ Len(t) = Len(s) + 1 /\ t[Len(s) + 1] = r
      /\ \A k \in 1..Len(s) : s[k] = t[k]
  OBVIOUS
<1>. HIDE DEF t
<1>2. PICK g : Judged(g, s, Len(s)) BY <1>1, JudgedExists
<1>0. Len(s) + 1 \in Nat BY <1>1
<1>3. PICK h : Judged(h, t, Len(s) + 1) BY <1>0, JudgedExists
<1>4. g[Len(s)] = h[Len(s)] BY <1>1, <1>2, <1>3, JudgedAlike
<1>5. h[Len(s) + 1] = AddEvent(h[Len(s)], r)
  <2>1. \A k \in 1..(Len(s) + 1) : h[k] = AddEvent(h[k - 1], t[k]) BY <1>1, <1>3, JudgedOne
  <2>2. Len(s) + 1 \in 1..(Len(s) + 1) /\ (Len(s) + 1) - 1 = Len(s) BY <1>1
  <2>. QED BY <1>1, <2>1, <2>2
<1>6. Lifecycle(s) = g[Len(s)] BY <1>1, <1>2, LifecycleIs
<1>7. Lifecycle(t) = h[Len(s) + 1] BY <1>1, <1>3, LifecycleIs
<1>. QED BY <1>4, <1>5, <1>6, <1>7 DEF t

\* A refused operation is not looked at again.
LEMMA AddToBad ==
    ASSUME NEW st, NEW r
    PROVE  AddEvent(st, r).bad = FALSE => ~st.bad
BY DEF AddEvent

LEMMA BadStays ==
    ASSUME NEW g, NEW rows, NEW n \in Nat, Judged(g, rows, n), NEW k \in 0..n, g[n].bad = FALSE
    PROVE  ~g[k].bad
<1>. DEFINE S == {d \in 0..n : g[n - d].bad}
<1>. SUFFICES ASSUME S # {} PROVE FALSE
  <2>1. n - k \in 0..n /\ n - (n - k) = k OBVIOUS
  <2>2. g[k].bad => n - k \in S BY <2>1
  <2>. QED BY <2>2
<1>0. S \in SUBSET Nat OBVIOUS
<1>1. PICK d \in S : \A e \in S : d <= e BY <1>0, LeastOf
<1>2. n - 0 = n OBVIOUS
<1>3. d # 0 /\ d \in 0..n /\ g[n - d].bad BY <1>1, <1>2
<1>4. /\ d - 1 \in 0..n /\ d - 1 < d /\ n - (d - 1) = (n - d) + 1
      /\ (n - d) + 1 \in 1..n /\ ((n - d) + 1) - 1 = n - d
  BY <1>3
<1>5. d - 1 \notin S BY <1>1, <1>4
<1>6. ~g[(n - d) + 1].bad BY <1>4, <1>5
<1>7. \A i \in 1..n : g[i] = AddEvent(g[i - 1], rows[i]) BY JudgedOne
<1>8. g[(n - d) + 1] = AddEvent(g[n - d], rows[(n - d) + 1]) BY <1>4, <1>7
<1>9. AddEvent(g[n - d], rows[(n - d) + 1]) = g[n - d] BY <1>3 DEF AddEvent
<1>. QED BY <1>3, <1>6, <1>8, <1>9

(***************************************************************************)
(* What the validator remembers of the rows it accepts.                    *)
(***************************************************************************)
LifeState == [order : -1..6, seen : SUBSET Events, lease : Nat, reserved : BOOLEAN,
              terminal : Row \cup {NoRow}, bad : BOOLEAN]

EventsIn(rows) == {rows[i].event : i \in DOMAIN rows}
EndsOf(rows)   == {i \in DOMAIN rows : IsWorkTerminalEvent(rows[i].event)}
\* Two terminal rows that the readers accept in this order.
Settles(x, y) ==
    \/ y.event = "expired" /\ x.event # "expired"
    \/ IsLateRealTerminalAfterReconciliation(x, y)

ReadAs(rows, st) ==
    /\ st.seen = EventsIn(rows)
    /\ st.terminal # NoRow => \E i \in EndsOf(rows) : st.terminal = rows[i]
    /\ \A i \in EndsOf(rows) : st.terminal # NoRow
                               /\ (rows[i].event # "expired" => st.terminal = rows[i])
    /\ \A i, j \in EndsOf(rows) : i < j => Settles(rows[i], rows[j])

LEMMA NoRowIs == NoRow \notin Row /\ NoRow.event \notin Terminals
BY EventsAssumption DEF NoRow, Row, Terminals

LEMMA NewIs ==
    /\ NewLifecycle \in LifeState /\ NewLifecycle.order = -1 /\ NewLifecycle.seen = {}
    /\ NewLifecycle.lease = 0 /\ NewLifecycle.reserved = FALSE
    /\ NewLifecycle.terminal = NoRow /\ NewLifecycle.bad = FALSE
BY DEF NewLifecycle, LifeState

LEMMA OrderIs == \A e : WorkEventOrder(e) \in 0..6
BY DEF WorkEventOrder

LEMMA AddIs ==
    ASSUME NEW st \in LifeState, NEW r \in Row, st.bad = FALSE, ~Refused(st, r)
    PROVE  LET next == AddEvent(st, r)
           IN  /\ next \in LifeState /\ next.bad = FALSE
               /\ next.order = (IF r.event = "override_requested" THEN st.order
                                ELSE WorkEventOrder(r.event))
               /\ next.seen = st.seen \cup {r.event}
               /\ next.lease = (IF r.lease # 0 THEN r.lease ELSE st.lease)
               /\ next.reserved = (IF r.event = "reacquired" THEN FALSE
                                   ELSE IF r.event = "reserved" THEN TRUE ELSE st.reserved)
               /\ next.terminal = (IF r.event \in Terminals /\ (st.terminal = NoRow \/ r.event # "expired")
                                   THEN r ELSE st.terminal)
<1>. DEFINE order    == IF r.event = "override_requested" THEN st.order ELSE WorkEventOrder(r.event)
            seen     == st.seen \cup {r.event}
            lease    == IF r.lease # 0 THEN r.lease ELSE st.lease
            reserved == (st.reserved \/ r.event = "reserved") /\ r.event # "reacquired"
            terminal == IF IsWorkTerminalEvent(r.event) /\ (st.terminal = NoRow \/ r.event # "expired")
                        THEN r ELSE st.terminal
            next     == AddEvent(st, r)
<1>1. next = [order |-> order, seen |-> seen, lease |-> lease, reserved |-> reserved,
              terminal |-> terminal, bad |-> FALSE]
  BY DEF AddEvent
<1>2. /\ st.order \in -1..6 /\ st.seen \in SUBSET Events /\ st.lease \in Nat
      /\ st.reserved \in BOOLEAN /\ st.terminal \in Row \cup {NoRow}
      /\ r.event \in Events /\ r.lease \in Nat
  BY DEF LifeState, Row
<1>3. order \in -1..6 BY <1>2, OrderIs
<1>4. seen \in SUBSET Events /\ lease \in Nat /\ terminal \in Row \cup {NoRow} BY <1>2
<1>5. reserved \in BOOLEAN
      /\ reserved = (IF r.event = "reacquired" THEN FALSE
                     ELSE IF r.event = "reserved" THEN TRUE ELSE st.reserved)
  BY <1>2
<1>6. terminal = IF r.event \in Terminals /\ (st.terminal = NoRow \/ r.event # "expired")
                 THEN r ELSE st.terminal
  BY DEF IsWorkTerminalEvent
<1>. HIDE DEF order, seen, lease, reserved, terminal, next
<1>7. next \in LifeState /\ next.bad = FALSE
  BY <1>1, <1>3, <1>4, <1>5 DEF LifeState
<1>8. /\ next.order = order /\ next.seen = seen /\ next.lease = lease
      /\ next.reserved = reserved /\ next.terminal = terminal
  BY <1>1
<1>. QED BY <1>5, <1>6, <1>7, <1>8 DEF order, seen, lease, next

LEMMA AddTyped ==
    ASSUME NEW st \in LifeState, NEW r \in Row
    PROVE  AddEvent(st, r) \in LifeState
<1>1. CASE st.bad = TRUE BY <1>1 DEF AddEvent
<1>2. CASE st.bad = FALSE /\ Refused(st, r)
  <2>1. AddEvent(st, r) = [st EXCEPT !.bad = TRUE] BY <1>2 DEF AddEvent
  <2>. QED BY <2>1 DEF LifeState
<1>3. CASE st.bad = FALSE /\ ~Refused(st, r) BY <1>3, AddIs
<1>. QED BY <1>1, <1>2, <1>3 DEF LifeState

LEMMA AddedGood ==
    ASSUME NEW st \in LifeState, NEW r \in Row, AddEvent(st, r).bad = FALSE
    PROVE  st.bad = FALSE /\ ~Refused(st, r)
<1>1. st.bad \in BOOLEAN BY DEF LifeState
<1>2. CASE st.bad = TRUE BY <1>2 DEF AddEvent
<1>3. CASE st.bad = FALSE /\ Refused(st, r)
  <2>1. AddEvent(st, r) = [st EXCEPT !.bad = TRUE] BY <1>3 DEF AddEvent
  <2>2. [st EXCEPT !.bad = TRUE].bad = TRUE BY DEF LifeState
  <2>. QED BY <2>1, <2>2
<1>. QED BY <1>1, <1>2, <1>3

LEMMA AppendedRows ==
    ASSUME NEW s \in Seq(Row), NEW r \in Row
    PROVE  /\ Append(s, r) \in Seq(Row)
           /\ DOMAIN Append(s, r) = DOMAIN s \cup {Len(s) + 1}
           /\ Len(s) + 1 \notin DOMAIN s /\ \A i \in DOMAIN s : i < Len(s) + 1
           /\ Append(s, r)[Len(s) + 1] = r
           /\ \A i \in DOMAIN s : Append(s, r)[i] = s[i] /\ s[i] \in Row
OBVIOUS

LEMMA AddReads ==
    ASSUME NEW s \in Seq(Row), NEW st \in LifeState, NEW r \in Row,
           st.bad = FALSE => ReadAs(s, st), AddEvent(st, r).bad = FALSE
    PROVE  ReadAs(Append(s, r), AddEvent(st, r))
<1>. DEFINE t == Append(s, r)
            next == AddEvent(st, r)
            n == Len(s) + 1
<1>. SUFFICES ReadAs(t, next) OBVIOUS
<1>1. /\ DOMAIN t = DOMAIN s \cup {n} /\ n \notin DOMAIN s /\ t[n] = r
      /\ \A i \in DOMAIN s : i < n /\ t[i] = s[i] /\ s[i] \in Row
  BY AppendedRows
<1>2. st.bad = FALSE /\ ~Refused(st, r) BY AddedGood
<1>3. ReadAs(s, st) BY <1>2
<1>4. /\ next.seen = st.seen \cup {r.event}
      /\ next.terminal = (IF r.event \in Terminals /\ (st.terminal = NoRow \/ r.event # "expired")
                          THEN r ELSE st.terminal)
  BY <1>2, AddIs
<1>5. r # NoRow /\ r.event \in Events /\ st.terminal \in Row \cup {NoRow}
  BY NoRowIs DEF Row, LifeState
<1>6. n \in Nat /\ \A i \in DOMAIN s : i \in Nat OBVIOUS
<1>. HIDE DEF t, next, n
<1>7. EventsIn(t) = EventsIn(s) \cup {r.event}
  BY <1>1 DEF EventsIn
<1>14. next.seen = EventsIn(t) BY <1>3, <1>4, <1>7 DEF ReadAs
<1>8. EndsOf(t) = EndsOf(s) \cup (IF r.event \in Terminals THEN {n} ELSE {})
  BY <1>1 DEF EndsOf, IsWorkTerminalEvent
<1>9. \A i \in EndsOf(s) : i \in DOMAIN s /\ t[i] = s[i] /\ i < n BY <1>1 DEF EndsOf
<1>10. CASE r.event \notin Terminals
  <2>1. EndsOf(t) = EndsOf(s) /\ next.terminal = st.terminal BY <1>4, <1>8, <1>10
  <2>2. /\ st.terminal # NoRow => \E i \in EndsOf(s) : st.terminal = s[i]
        /\ \A i \in EndsOf(s) : st.terminal # NoRow
                                   /\ (s[i].event # "expired" => st.terminal = s[i])
        /\ \A i, j \in EndsOf(s) : i < j => Settles(s[i], s[j])
    BY <1>3 DEF ReadAs
  <2>3. \A i, j \in EndsOf(t) : i < j => Settles(t[i], t[j]) BY <1>9, <2>1, <2>2
  <2>4. /\ next.terminal # NoRow => \E i \in EndsOf(t) : next.terminal = t[i]
        /\ \A i \in EndsOf(t) : next.terminal # NoRow
                                   /\ (t[i].event # "expired" => next.terminal = t[i])
    BY <1>9, <2>1, <2>2
  <2>. QED BY <1>14, <2>3, <2>4 DEF ReadAs
<1>11. CASE r.event \in Terminals /\ EndsOf(s) = {}
  <2>1. EndsOf(t) = {n} BY <1>8, <1>11
  <2>2. st.terminal = NoRow BY <1>3, <1>11 DEF ReadAs
  <2>3. next.terminal = r BY <1>4, <1>11, <2>2
  <2>4. ~(n < n) BY <1>6
  <2>5. \A i, j \in EndsOf(t) : ~(i < j) BY <2>1, <2>4
  <2>6. \A i \in EndsOf(t) : next.terminal = t[i] BY <1>1, <2>1, <2>3
  <2>7. \E i \in EndsOf(t) : next.terminal = t[i] BY <2>1, <2>6
  <2>8. next.terminal # NoRow BY <1>5, <2>3
  <2>. QED BY <1>14, <2>5, <2>6, <2>7, <2>8 DEF ReadAs
<1>12. CASE r.event \in Terminals /\ EndsOf(s) # {}
  <2>1. st.terminal # NoRow BY <1>3, <1>12 DEF ReadAs
  <2>2. \/ r.event = "expired" /\ st.terminal.event # "expired"
        \/ IsLateRealTerminalAfterReconciliation(st.terminal, r)
    BY <1>2, <1>12, <2>1 DEF Refused, BadTerminal, IsWorkTerminalEvent
  <2>3. PICK k \in EndsOf(s) : st.terminal = s[k] BY <1>3, <2>1 DEF ReadAs
  <2>4. r.event \notin st.seen
    BY <1>2, <1>12 DEF Refused, Repeatable, Terminals
  <2>5. \A i \in EndsOf(s) : s[i].event # r.event
    BY <1>3, <2>4 DEF ReadAs, EventsIn, EndsOf
  <2>6. ASSUME NEW i \in EndsOf(s) PROVE Settles(s[i], r)
    <3>1. CASE r.event = "expired" BY <2>5, <3>1 DEF Settles
    <3>2. CASE r.event # "expired"
      <4>1. IsLateRealTerminalAfterReconciliation(st.terminal, r) /\ st.terminal.event = "expired"
        BY <2>2, <3>2 DEF IsLateRealTerminalAfterReconciliation
      <4>2. s[i].event = "expired" BY <1>3, <4>1 DEF ReadAs
      <4>3. i = k
        <5>1. \A x, y \in EndsOf(s) : x < y => ~(s[x].event = "expired" /\ s[y].event = "expired")
          BY <1>3 DEF ReadAs, Settles, IsLateRealTerminalAfterReconciliation
        <5>2. s[k].event = "expired" BY <2>3, <4>1
        <5>3. i < k \/ i = k \/ k < i BY <1>6, <1>9
        <5>. QED BY <4>2, <5>1, <5>2, <5>3
      <4>. QED BY <2>3, <4>1, <4>3 DEF Settles
    <3>. QED BY <3>1, <3>2
  <2>7. EndsOf(t) = EndsOf(s) \cup {n} BY <1>8, <1>12
  <2>8. \A i, j \in EndsOf(t) : i < j => Settles(t[i], t[j])
    <3>1. ASSUME NEW i \in EndsOf(t), NEW j \in EndsOf(t), i < j PROVE Settles(t[i], t[j])
      <4>1. i # n
        <5>1. j = n \/ j < n BY <1>9, <2>7
        <5>. QED BY <1>6, <1>9, <2>7, <3>1, <5>1
      <4>2. CASE j = n BY <1>1, <1>9, <2>6, <2>7, <4>1, <4>2
      <4>3. CASE j # n BY <1>3, <1>9, <2>7, <3>1, <4>1, <4>3 DEF ReadAs
      <4>. QED BY <4>2, <4>3
    <3>. QED BY <3>1
  <2>9. next.terminal = (IF r.event = "expired" THEN st.terminal ELSE r)
    BY <1>4, <1>12, <2>1
  <2>10. r.event # "expired" => \A i \in EndsOf(s) : s[i].event = "expired"
    BY <2>6 DEF Settles, IsLateRealTerminalAfterReconciliation
  <2>11. \A i \in EndsOf(t) : t[i].event # "expired" => next.terminal = t[i]
    BY <1>1, <1>3, <1>9, <2>7, <2>9, <2>10 DEF ReadAs
  <2>12. \E i \in EndsOf(t) : next.terminal = t[i]
    BY <1>1, <1>9, <2>3, <2>7, <2>9
  <2>13. next.terminal # NoRow BY <1>5, <2>1, <2>9
  <2>. QED BY <1>14, <2>8, <2>11, <2>12, <2>13 DEF ReadAs
<1>. QED BY <1>10, <1>11, <1>12

\* A history that is read is counted by the row that says how the command ended.
LEMMA RealCounts ==
    ASSUME NEW s \in Seq(Row), \A x, y \in EndsOf(s) : x < y => Settles(s[x], s[y]),
           NEW i \in EndsOf(s), s[i].event # "expired"
    PROVE  Summary(s) = [outcome |-> s[i].event, interrupt |-> IsWrapperInterruptEvent(s[i])]
<1>0. \A k \in EndsOf(s) : k \in DOMAIN s /\ k \in Nat BY DEF EndsOf
<1>1. i \in Outcomes(s)
  BY <1>0 DEF Outcomes, NormalizeLateReconciliationTerminals, EndsOf
<1>2. Outcomes(s) \subseteq EndsOf(s)
  BY DEF Outcomes, NormalizeLateReconciliationTerminals, EndsOf
<1>3. ASSUME NEW j \in Outcomes(s) PROVE i <= j
  <2>. SUFFICES ASSUME j < i PROVE FALSE BY <1>0, <1>2
  <2>1. Settles(s[j], s[i]) BY <1>2
  <2>2. IsLateRealTerminalAfterReconciliation(s[j], s[i]) BY <2>1 DEF Settles
  <2>3. s[j].event = "expired" /\ Recovered(s)
    BY <1>0, <1>2, <2>2 DEF Recovered, IsLateRealTerminalAfterReconciliation
  <2>. QED BY <2>3 DEF Outcomes, NormalizeLateReconciliationTerminals
<1>. DEFINE first == CHOOSE k \in Outcomes(s) : \A j \in Outcomes(s) : k <= j
<1>4. first \in Outcomes(s) /\ \A j \in Outcomes(s) : first <= j BY <1>1, <1>3
<1>5. first = i
  <2>. HIDE DEF first
  <2>. QED BY <1>0, <1>1, <1>2, <1>3, <1>4
<1>6. Outcomes(s) # {} BY <1>1
<1>7. Summary(s) = [outcome |-> s[first].event, interrupt |-> IsWrapperInterruptEvent(s[first])]
  BY <1>6 DEF Summary
<1>. QED BY <1>5, <1>7

(***************************************************************************)
(* The parties.                                                            *)
(***************************************************************************)
Past   == {"release", "record", "receipt", "reap", "finalize", "leaving", "done", "dead"}
Points == {"new", "admission", "waiting", "acquired", "owned", "reserving", "reserved",
           "reacquired", "bound", "running"} \cup Past
Receipts == {"completed", "failed", "cancelled"}
Kinds  == {"none", "completed", "failed", "interrupt", "timeout"}
Where  == {"absent", "waiter", "wrapper", "child"}

PartiesTyped ==
    /\ log \in [Ops -> Seq(Row)] /\ torn \in {"none", "today", "older", "pruned"}
    /\ place \in [Ops -> Where] /\ leaseID \in [Ops -> Nat]
    /\ verdict \in [Ops -> [kind : Kinds, lease : Nat]]
    /\ child \in [Ops -> {"none", "live", "gone"}] /\ aged \in [Ops -> BOOLEAN]
    /\ at \in [Ops -> Points] /\ stuck \subseteq Ops
    /\ drop \in [op : Ops \cup {NoOp}, stage : {"none", "signalled", "locked", "over"}]
    /\ drop.stage # "none" => drop.op \in Ops

\* A row that may be appended for an operation.
NewRow(o, r) ==
    /\ r \in Row /\ r.op = o /\ r.lease <= leaseID[o]
    /\ r.exit = TRUE => r.event \in Receipts

OwnRows == \A o \in Ops : \A i \in DOMAIN log[o] : NewRow(o, log[o][i])

\* How far the wrapper is, and the leases it had.
Ordered(o) ==
    /\ at[o] = "new" => log[o] = <<>> /\ place[o] = "absent"
    /\ at[o] \in {"new", "admission", "waiting"} => leaseID[o] = 0
    /\ at[o] = "acquired" => leaseID[o] = 1
    /\ at[o] = "reacquired" => leaseID[o] > 1
    /\ at[o] \in {"owned", "reserving", "reserved", "bound", "running", "receipt", "reap"}
           => leaseID[o] > 0
    /\ at[o] \in {"acquired", "reacquired"} =>
           \A i \in DOMAIN log[o] : log[o][i].lease < leaseID[o]
    /\ at[o] \in {"owned", "reserving"} => \A i \in DOMAIN log[o] :
           log[o][i].lease = leaseID[o] => log[o][i].event # "reserved"
    /\ at[o] \in Past \ {"done", "dead"} => verdict[o].kind # "none"
    /\ verdict[o].lease <= leaseID[o]

\* Who is cancelled is past its run.
CancelledPast == drop.op \in Ops => at[drop.op] \in Past

PartiesInv == PartiesTyped /\ OwnRows /\ CancelledPast /\ \A o \in Ops : Ordered(o)

LEMMA ExpiredIs ==
    ASSUME PartiesTyped, NEW o \in Ops
    PROVE  LET r == ExpiredRow(o)
           IN  /\ NewRow(o, r) /\ r.event = "expired" /\ r.outcome = "dead_owner" /\ r.exit = FALSE
               /\ r.lease = IF place[o] = "waiter" THEN 0 ELSE leaseID[o]
<1>. DEFINE l == IF place[o] = "waiter" THEN 0 ELSE leaseID[o]
<1>1. l \in Nat /\ l <= leaseID[o] BY DEF PartiesTyped
<1>2. "expired" \in Events BY DEF Events, Terminals
<1>. HIDE DEF l
<1>3. ExpiredRow(o) = [Plain(o, "expired", l) EXCEPT !.outcome = "dead_owner"]
  BY DEF ExpiredRow, l
<1>4. ExpiredRow(o) = [op |-> o, event |-> "expired", lease |-> l, outcome |-> "dead_owner",
                       exit |-> FALSE, late |-> FALSE]
  BY <1>3 DEF Plain
<1>. QED BY <1>1, <1>2, <1>4 DEF l, NewRow, Row

LEMMA TerminalIs ==
    ASSUME PartiesTyped, NEW o \in Ops, verdict[o].kind # "none", verdict[o].lease <= leaseID[o]
    PROVE  LET r == TerminalRow(o)
           IN  /\ NewRow(o, r) /\ r.event \in Receipts /\ r.lease = verdict[o].lease
               /\ r.exit = (at[o] = "reap") /\ r.late = aged[o]
<1>. DEFINE e == TerminalEvent(verdict[o].kind)
            c == WorkCancelOutcome(verdict[o].kind)
            x == (at[o] = "reap")
            l == verdict[o].lease
<1>1. verdict[o].kind \in Kinds /\ l \in Nat /\ aged[o] \in BOOLEAN
  BY DEF PartiesTyped
<1>2. e \in Receipts /\ e \in Events
  BY <1>1 DEF TerminalEvent, Kinds, Receipts, Events, Terminals
<1>3. c \in {"none", "wrapper_interrupt", "interrupted"} BY DEF WorkCancelOutcome
<1>4. TerminalRow(o) = [Plain(o, e, l) EXCEPT !.outcome = c, !.exit = x, !.late = aged[o]]
  BY DEF TerminalRow
<1>5. x \in BOOLEAN OBVIOUS
<1>. HIDE DEF e, c, x, l
<1>6. TerminalRow(o) = [op |-> o, event |-> e, lease |-> l, outcome |-> c,
                        exit |-> x, late |-> aged[o]]
  BY <1>4 DEF Plain
<1>7. TerminalRow(o) \in Row BY <1>1, <1>2, <1>3, <1>5, <1>6 DEF Row
<1>8. /\ TerminalRow(o).op = o /\ TerminalRow(o).event = e /\ TerminalRow(o).lease = l
      /\ TerminalRow(o).exit = x /\ TerminalRow(o).late = aged[o]
  BY <1>6
<1>9. NewRow(o, TerminalRow(o)) BY <1>2, <1>7, <1>8 DEF NewRow, l
<1>. QED BY <1>2, <1>8, <1>9 DEF x, l

LEMMA CancelledIs ==
    ASSUME PartiesTyped, NEW o \in Ops
    PROVE  NewRow(o, CancelledRow(o)) /\ CancelledRow(o).event = "cancelled"
<1>. DEFINE l == leaseID[o]
<1>1. l \in Nat BY DEF PartiesTyped
<1>2. CancelledRow(o) = [Plain(o, "cancelled", l) EXCEPT !.outcome = "operator_cancel"]
  BY DEF CancelledRow
<1>. HIDE DEF l
<1>3. CancelledRow(o) = [op |-> o, event |-> "cancelled", lease |-> l,
                         outcome |-> "operator_cancel", exit |-> FALSE, late |-> FALSE]
  BY <1>2 DEF Plain
<1>4. "cancelled" \in Events BY DEF Events, Terminals
<1>5. CancelledRow(o) \in Row BY <1>1, <1>3, <1>4 DEF Row
<1>6. /\ CancelledRow(o).op = o /\ CancelledRow(o).event = "cancelled"
      /\ CancelledRow(o).lease = l /\ CancelledRow(o).exit = FALSE
  BY <1>3
<1>. QED BY <1>1, <1>5, <1>6 DEF NewRow, l

\* A row of an operation is appended, unless its identity is there.
Known(o, r) ==
    r.event # "override_requested"
    /\ \E i \in DOMAIN log[o] : log[o][i].event = r.event /\ log[o][i].lease = r.lease

LEMMA AppendIs ==
    ASSUME PartiesTyped, OwnRows, NEW o \in Ops, NEW r, NewRow(o, r), AppendDurable(r)
    PROVE  /\ log' \in [Ops -> Seq(Row)] /\ torn' = torn
           /\ \A q \in Ops \ {o} : log'[q] = log[q]
           /\ Known(o, r) => log'[o] = log[o]
           /\ ~Known(o, r) => log'[o] = Append(log[o], r)
<1>1. r.op = o /\ r \in Row /\ \A i \in DOMAIN log[o] : log[o][i].op = o
  BY DEF OwnRows, NewRow
<1>2. WorkEventIDExists(r) <=> Known(o, r)
  BY <1>1 DEF WorkEventIDExists, SameIdentity, Known
<1>3. log \in [Ops -> Seq(Row)] BY DEF PartiesTyped
<1>4. torn' = torn BY DEF AppendDurable
<1>5. CASE Known(o, r)
  <2>1. log' = log BY <1>2, <1>5 DEF AppendDurable
  <2>. QED BY <1>3, <1>4, <1>5, <2>1
<1>6. CASE ~Known(o, r)
  <2>1. log' = [log EXCEPT ![o] = Append(log[o], r)]
    BY <1>1, <1>2, <1>6 DEF AppendDurable
  <2>2. Append(log[o], r) \in Seq(Row) BY <1>1, <1>3
  <2>. QED BY <1>3, <1>4, <1>6, <2>1, <2>2
<1>. QED BY <1>5, <1>6

\* What somebody else's call may do to an operation.
Swept(q) ==
    /\ place'[q] = place[q] \/ (place'[q] = "absent" /\ (Expirable(q) \/ drop.op = q))
    /\ \/ log'[q] = log[q]
       \/ Expirable(q) /\ ~OperationHasTerminal(q) /\ log'[q] = Append(log[q], ExpiredRow(q))
Aside(q) == at'[q] = at[q] /\ leaseID'[q] = leaseID[q] /\ verdict'[q] = verdict[q] /\ Swept(q)

LEMMA RecordExpiredIs ==
    ASSUME PartiesTyped, NEW D, log' = RecordExpired(D)
    PROVE  /\ log' \in [Ops -> Seq(Row)]
           /\ \A q \in Ops : log'[q] = IF q \in D /\ ~OperationHasTerminal(q)
                                       THEN Append(log[q], ExpiredRow(q)) ELSE log[q]
<1>. DEFINE f(q) == IF q \in D /\ ~OperationHasTerminal(q)
                    THEN Append(log[q], ExpiredRow(q)) ELSE log[q]
<1>1. log' = [q \in Ops |-> f(q)] BY DEF RecordExpired
<1>2. ASSUME NEW q \in Ops PROVE f(q) \in Seq(Row)
  <2>1. ExpiredRow(q) \in Row BY ExpiredIs DEF NewRow
  <2>2. log[q] \in Seq(Row) BY DEF PartiesTyped
  <2>3. Append(log[q], ExpiredRow(q)) \in Seq(Row) BY <2>1, <2>2
  <2>. QED BY <2>2, <2>3
<1>. QED BY <1>1, <1>2

LEMMA LedgerIs ==
    ASSUME PartiesTyped, NEW o \in Ops, NEW p \in Where, Ledger(Dead, o, p), WrapperAlive(o)
    PROVE  /\ log' \in [Ops -> Seq(Row)] /\ place' \in [Ops -> Where] /\ torn' = torn
           /\ log'[o] = log[o] /\ place'[o] = p
           /\ \A q \in Ops \ {o} : Swept(q)
<1>1. log' = RecordExpired(Dead) /\ torn' = torn
      /\ place' = [q \in Ops |-> IF q = o THEN p ELSE IF q \in Dead THEN "absent" ELSE place[q]]
  BY DEF Ledger
<1>2. o \notin Dead /\ \A q \in Ops : q \in Dead <=> Expirable(q)
  BY DEF Dead, Expirable
<1>3. place' \in [Ops -> Where] BY <1>1 DEF PartiesTyped, Where
<1>4. log' \in [Ops -> Seq(Row)]
      /\ \A q \in Ops : log'[q] = IF q \in Dead /\ ~OperationHasTerminal(q)
                                  THEN Append(log[q], ExpiredRow(q)) ELSE log[q]
  BY <1>1, RecordExpiredIs
<1>5. log'[o] = log[o] /\ place'[o] = p BY <1>1, <1>2, <1>4
<1>6. ASSUME NEW q \in Ops \ {o} PROVE Swept(q)
  <2>1. place'[q] = place[q] \/ (q \in Dead /\ place'[q] = "absent") BY <1>1
  <2>. QED BY <1>2, <1>4, <2>1 DEF Swept
<1>. QED BY <1>1, <1>3, <1>4, <1>5, <1>6

Actor(o) == Wrapper(o) \/ Crash(o) \/ ProbeRace(o) \/ Age(o) \/ CancelSignal(o) \/ OverrideWaiter(o)
Nobody == Status \/ StatusTears \/ DropLeaseCheck \/ Midnight \/ Prune \/ UNCHANGED vars

LEMMA PlaceNames == "absent" \in Where /\ "waiter" \in Where /\ "wrapper" \in Where /\ "child" \in Where
BY DEF Where

\* Steps of nobody's wrapper: every operation is at most swept.
LEMMA NobodyIs ==
    ASSUME PartiesTyped, Nobody
    PROVE  /\ PartiesTyped' /\ \A q \in Ops : Aside(q)
           /\ aged' = aged /\ stuck' = stuck /\ drop'.op = drop.op
<1>0. \A q : q \in Dead <=> q \in Ops /\ Expirable(q) BY DEF Dead
<1>1. ASSUME NEW D \in SUBSET Ops, \A q \in D : Expirable(q) \/ drop.op = q,
             \/ place' = [o \in Ops |-> IF o \in D THEN "absent" ELSE place[o]]
             \/ place' = place,
             log' = RecordExpired(Dead) \/ log' = log
      PROVE  log' \in [Ops -> Seq(Row)] /\ place' \in [Ops -> Where] /\ \A q \in Ops : Swept(q)
  <2>1. log' \in [Ops -> Seq(Row)]
        /\ \A q \in Ops : \/ log'[q] = log[q]
                          \/ /\ q \in Dead /\ ~OperationHasTerminal(q)
                             /\ log'[q] = Append(log[q], ExpiredRow(q))
    <3>1. CASE log' = RecordExpired(Dead) BY <3>1, RecordExpiredIs
    <3>2. CASE log' = log BY <3>2 DEF PartiesTyped
    <3>. QED BY <1>1, <3>1, <3>2
  <2>2. place \in [Ops -> Where] BY DEF PartiesTyped
  <2>3. place' \in [Ops -> Where]
        /\ \A q \in Ops : place'[q] = place[q] \/ (q \in D /\ place'[q] = "absent")
    <3>1. CASE place' = [o \in Ops |-> IF o \in D THEN "absent" ELSE place[o]]
      BY <2>2, <3>1, PlaceNames
    <3>2. CASE place' = place BY <2>2, <3>2
    <3>. QED BY <1>1, <3>1, <3>2
  <2>4. \A q \in Ops : Swept(q) BY <1>0, <1>1, <2>1, <2>3 DEF Swept
  <2>. QED BY <2>1, <2>3, <2>4
<1>2. Dead \in SUBSET Ops BY DEF Dead
<1>3. CASE Status
  <2>1. /\ log' = RecordExpired(Dead)
        /\ place' = [o \in Ops |-> IF o \in Dead THEN "absent" ELSE place[o]] \/ place' = place
        /\ UNCHANGED <<leaseID, child, aged, drop, torn, at, verdict, stuck>>
    BY <1>3 DEF Status, Holding, Elsewhere
  <2>2. log' \in [Ops -> Seq(Row)] /\ place' \in [Ops -> Where] /\ \A q \in Ops : Swept(q)
    BY <1>0, <1>1, <1>2, <2>1
  <2>. QED BY <2>1, <2>2 DEF PartiesTyped, Aside
<1>4. CASE StatusTears \/ Midnight \/ Prune \/ UNCHANGED vars
  <2>1. /\ UNCHANGED <<leaseID, child, aged, drop, log, place, at, verdict, stuck>>
        /\ torn' \in {torn, "today", "older", "pruned"}
    BY <1>4 DEF StatusTears, Midnight, Prune, vars, Holding, Elsewhere
  <2>. QED BY <2>1 DEF PartiesTyped, Aside, Swept
<1>5. CASE DropLeaseCheck
  <2>1. /\ UNCHANGED <<leaseID, child, torn, at, verdict, aged, stuck>>
        /\ drop' \in {[drop EXCEPT !.stage = "over"], [drop EXCEPT !.stage = "locked"]}
        /\ drop.stage = "signalled"
    BY <1>5 DEF DropLeaseCheck, Holding
  <2>2. /\ drop' \in [op : Ops \cup {NoOp}, stage : {"none", "signalled", "locked", "over"}]
        /\ drop'.op = drop.op /\ drop.op \in Ops
    BY <2>1 DEF PartiesTyped
  <2>3. \/ log' = log /\ place' = place
        \/ /\ log' = RecordExpired(Dead)
           /\ \/ place' = [o \in Ops |-> IF o \in Dead \cup {drop.op} THEN "absent" ELSE place[o]]
              \/ place' = [o \in Ops |-> IF o \in Dead THEN "absent" ELSE place[o]]
    BY <1>5 DEF DropLeaseCheck
  <2>4. Dead \cup {drop.op} \in SUBSET Ops BY <1>2, <2>2
  <2>5. \A q \in Dead \cup {drop.op} : Expirable(q) \/ drop.op = q BY <1>0
  <2>6. log' \in [Ops -> Seq(Row)] /\ place' \in [Ops -> Where] /\ \A q \in Ops : Swept(q)
    <3>1. CASE log' = log /\ place' = place BY <1>0, <1>1, <1>2, <3>1
    <3>2. CASE /\ log' = RecordExpired(Dead)
               /\ place' = [o \in Ops |-> IF o \in Dead \cup {drop.op} THEN "absent" ELSE place[o]]
      BY <1>1, <2>4, <2>5, <3>2
    <3>3. CASE /\ log' = RecordExpired(Dead)
               /\ place' = [o \in Ops |-> IF o \in Dead THEN "absent" ELSE place[o]]
      BY <1>0, <1>1, <1>2, <3>3
    <3>. QED BY <2>3, <3>1, <3>2, <3>3
  <2>. QED BY <2>1, <2>2, <2>6 DEF PartiesTyped, Aside
<1>. QED BY <1>3, <1>4, <1>5 DEF Nobody

(***************************************************************************)
(* What each step of a wrapper does to its own operation.                  *)
(***************************************************************************)
Apart(o) == \A q \in Ops \ {o} : Aside(q)
Grow == /\ \A q \in Ops : aged[q] = TRUE => aged'[q] = TRUE
        /\ \A q \in Ops : drop.op = q => drop'.op = q
        /\ stuck \subseteq stuck'

Goes(o, x)        == at'[o] = x /\ verdict'[o] = verdict[o] /\ leaseID'[o] = leaseID[o]
Gives(o, x, v, h) == at'[o] = x /\ verdict'[o] = [kind |-> v, lease |-> h] /\ leaseID'[o] = leaseID[o]
Adds(o, r)        == log'[o] = IF Known(o, r) THEN log[o] ELSE Append(log[o], r)
Fates == Kinds \ {"none"}
Same(o) == log'[o] = log[o] /\ place'[o] = place[o]

LEMMA FatesAre ==
    ASSUME NEW o \in Ops
    PROVE  Endings[o] \subseteq Fates /\ Exits[o] \subseteq Fates
BY EventsAssumption DEF Fates, Kinds

\* The others are at most swept, and the rest stays or grows.
Beside(o) ==
    /\ log' \in [Ops -> Seq(Row)] /\ place' \in [Ops -> Where] /\ torn' \in {torn, "today"}
    /\ \A q \in Ops \ {o} : Swept(q)
Tame == /\ child' \in [Ops -> {"none", "live", "gone"}] /\ leaseID' = leaseID
        /\ stuck \subseteq stuck' /\ stuck' \subseteq Ops /\ aged' = aged /\ drop' = drop

LEMMA LeftAlone ==
    ASSUME PartiesTyped, NEW o \in Ops, UNCHANGED <<log, torn, place>>
    PROVE  Beside(o) /\ Same(o)
BY DEF PartiesTyped, Swept, Same, Beside

LEMMA Written ==
    ASSUME PartiesTyped, OwnRows, NEW o \in Ops, NEW r, NewRow(o, r), AppendDurable(r), place' = place
    PROVE  Beside(o) /\ Adds(o, r) /\ place'[o] = place[o]
<1>1. /\ log' \in [Ops -> Seq(Row)] /\ torn' = torn
      /\ \A q \in Ops \ {o} : log'[q] = log[q]
      /\ Known(o, r) => log'[o] = log[o]
      /\ ~Known(o, r) => log'[o] = Append(log[o], r)
  BY AppendIs
<1>. QED BY <1>1 DEF PartiesTyped, Swept, Adds, Beside

LEMMA NotWritten ==
    ASSUME PartiesTyped, NEW o \in Ops, AppendFails, place' = place
    PROVE  Beside(o) /\ Same(o)
<1>1. log' = log /\ torn' \in {torn, "today"} BY DEF AppendFails
<1>. QED BY <1>1 DEF PartiesTyped, Swept, Same, Beside

LEMMA LedgerCalled ==
    ASSUME PartiesTyped, NEW o \in Ops, NEW p \in Where, Ledger(Dead, o, p), WrapperAlive(o)
    PROVE  Beside(o) /\ log'[o] = log[o] /\ place'[o] = p
BY LedgerIs DEF Beside

LEMMA Steps ==
    ASSUME PartiesTyped, NEW o \in Ops, Beside(o),
           child' \in [Ops -> {"none", "live", "gone"}], leaseID' \in [Ops -> Nat],
           at' \in [Ops -> Points], verdict' \in [Ops -> [kind : Kinds, lease : Nat]],
           stuck \subseteq stuck', stuck' \subseteq Ops, aged' = aged, drop' = drop,
           \A q \in Ops \ {o} : /\ at'[q] = at[q] /\ leaseID'[q] = leaseID[q]
                                 /\ verdict'[q] = verdict[q]
    PROVE  PartiesTyped' /\ Apart(o) /\ Grow
<1>1. Apart(o) BY DEF Beside, Apart, Aside
<1>. QED BY <1>1 DEF PartiesTyped, Grow, Beside

LEMMA Going ==
    ASSUME PartiesTyped, NEW o \in Ops, NEW x \in Points, Goto(o, x), verdict' = verdict, Beside(o), Tame
    PROVE  PartiesTyped' /\ Apart(o) /\ Grow /\ Goes(o, x)
<1>1. /\ at' \in [Ops -> Points] /\ at'[o] = x /\ \A q \in Ops \ {o} : at'[q] = at[q]
  BY DEF PartiesTyped, Goto
<1>2. leaseID' \in [Ops -> Nat] /\ verdict' \in [Ops -> [kind : Kinds, lease : Nat]]
  BY DEF PartiesTyped, Tame
<1>. QED BY <1>1, <1>2, Steps DEF Goes, Tame

LEMMA Deciding ==
    ASSUME PartiesTyped, NEW o \in Ops, NEW x \in Points, NEW v \in Fates, NEW h \in Nat,
           Decide(o, x, v, h), Beside(o), Tame
    PROVE  PartiesTyped' /\ Apart(o) /\ Grow /\ Gives(o, x, v, h)
<1>. DEFINE d == [kind |-> v, lease |-> h]
<1>1. at' = [at EXCEPT ![o] = x] /\ verdict' = [verdict EXCEPT ![o] = d] BY DEF Decide, Goto
<1>2. /\ at' \in [Ops -> Points] /\ at'[o] = x /\ \A q \in Ops \ {o} : at'[q] = at[q]
  BY <1>1 DEF PartiesTyped
<1>3. d \in [kind : Kinds, lease : Nat] BY DEF Fates
<1>. HIDE DEF d
<1>4. /\ verdict' \in [Ops -> [kind : Kinds, lease : Nat]] /\ verdict'[o] = d
      /\ \A q \in Ops \ {o} : verdict'[q] = verdict[q]
  BY <1>1, <1>3 DEF PartiesTyped
<1>5. leaseID' \in [Ops -> Nat] BY DEF PartiesTyped, Tame
<1>6. PartiesTyped' /\ Apart(o) /\ Grow BY <1>2, <1>4, <1>5, Steps DEF Tame
<1>. QED BY <1>2, <1>4, <1>6 DEF Gives, Tame, d

LEMMA PointsAre ==
    /\ \A x \in {"new", "admission", "waiting", "acquired", "owned", "reserving", "reserved",
                 "reacquired", "bound", "running"} : x \in Points \ Past
    /\ \A x \in {"release", "record", "receipt", "reap", "finalize", "leaving", "done", "dead"} :
           x \in Points /\ x \in Past
    /\ Fates \subseteq Kinds /\ "failed" \in Fates /\ "none" \notin Fates
BY DEF Points, Past, Fates, Kinds

LEMMA EventsAre ==
    /\ \A e \in {"queued", "override_requested", "acquired", "reserved", "reacquired", "started"} :
           e \in Events /\ e \notin Terminals /\ e \notin Receipts
    /\ Receipts \subseteq Terminals /\ Terminals \subseteq Events /\ "expired" \in Terminals
    /\ "expired" \notin Receipts
BY DEF Events, Terminals, Receipts

LEMMA PlainNew ==
    ASSUME PartiesTyped, NEW o \in Ops, NEW l \in 0..leaseID[o],
           NEW e \in {"queued", "override_requested", "acquired", "reserved", "reacquired", "started"}
    PROVE  NewRow(o, Plain(o, e, l))
<1>1. leaseID[o] \in Nat BY DEF PartiesTyped
<1>2. l \in Nat /\ l <= leaseID[o] /\ e \in Events BY <1>1, EventsAre
<1>. DEFINE r == Plain(o, e, l)
<1>3. r = [op |-> o, event |-> e, lease |-> l, outcome |-> "none", exit |-> FALSE, late |-> FALSE]
  BY DEF Plain
<1>. HIDE DEF r
<1>4. r \in Row /\ r.op = o /\ r.lease = l /\ r.exit = FALSE BY <1>2, <1>3 DEF Row
<1>5. NewRow(o, r) BY <1>2, <1>4 DEF NewRow
<1>. QED BY <1>5 DEF r


\* The steps of a wrapper, each with what it does to its own operation.
LEMMA QueuedStep ==
    ASSUME PartiesInv, NEW o \in Ops, RecordQueued(o)
    PROVE  /\ PartiesTyped' /\ Apart(o) /\ Grow
           /\ at[o] = "new" /\ place'[o] = place[o]
           /\ \/ Goes(o, "admission") /\ Adds(o, Plain(o, "queued", 0))
              \/ Goes(o, "done") /\ Same(o)
<1>0. PartiesTyped /\ OwnRows /\ leaseID[o] \in Nat BY DEF PartiesInv, PartiesTyped
<1>1. at[o] = "new" /\ place'[o] = place[o] /\ UNCHANGED <<leaseID, aged, drop, child, place, verdict, stuck>>
  BY DEF RecordQueued, Holding, Elsewhere
<1>2. \/ AppendDurable(Plain(o, "queued", 0)) /\ Goto(o, "admission")
      \/ AppendFails /\ Goto(o, "done")
  BY DEF RecordQueued, Holding, Elsewhere
<1>3. CASE AppendDurable(Plain(o, "queued", 0)) /\ Goto(o, "admission")
  <2>1. Tame BY <1>0, <1>1, <1>3 DEF PartiesTyped, Tame
  <2>2. NewRow(o, Plain(o, "queued", 0)) BY <1>0, <1>1, PlainNew
  <2>3. Beside(o) /\ Adds(o, Plain(o, "queued", 0)) /\ place'[o] = place[o]
    BY <1>0, <1>1, <1>3, <2>2, Written
  <2>4. "admission" \in Points BY PointsAre
  <2>5. PartiesTyped' /\ Apart(o) /\ Grow /\ Goes(o, "admission")
    BY <1>0, <1>1, <1>3, <2>1, <2>2, <2>3, <2>4, Going
  <2>. QED BY <1>1, <1>3, <2>2, <2>3, <2>4, <2>5
<1>4. CASE AppendFails /\ Goto(o, "done")
  <2>1. Tame BY <1>0, <1>1, <1>4 DEF PartiesTyped, Tame
  <2>2. Beside(o) /\ Same(o) BY <1>0, <1>1, <1>4, NotWritten
  <2>3. "done" \in Points BY PointsAre
  <2>4. PartiesTyped' /\ Apart(o) /\ Grow /\ Goes(o, "done")
    BY <1>0, <1>1, <1>4, <2>1, <2>2, <2>3, Going
  <2>. QED BY <1>1, <1>4, <2>2, <2>3, <2>4 DEF Same
<1>. QED BY <1>1, <1>2, <1>3, <1>4

LEMMA EndsStep ==
    ASSUME PartiesInv, NEW o \in Ops, AdmissionEnds(o)
    PROVE  /\ PartiesTyped' /\ Apart(o) /\ Grow
           /\ at[o] = "admission"
           /\ (\E v \in Fates : Gives(o, "record", v, 0)) /\ Same(o)
<1>0. PartiesTyped /\ OwnRows /\ leaseID[o] \in Nat BY DEF PartiesInv, PartiesTyped
<1>1. at[o] = "admission" /\ UNCHANGED <<leaseID, aged, drop, child, stuck, log, torn, place>>
  BY DEF AdmissionEnds, Holding, Elsewhere
<1>2. \E v \in Endings[o] : Decide(o, "record", v, 0)
  BY DEF AdmissionEnds, Holding, Elsewhere
<1>3. CASE \E v \in Endings[o] : Decide(o, "record", v, 0)
  <2>1. Tame BY <1>0, <1>1, <1>3 DEF PartiesTyped, Tame
  <2>2. Beside(o) /\ Same(o) BY <1>0, <1>1, <1>3, LeftAlone DEF LedgerFails
  <2>3. PICK v \in Endings[o] : Decide(o, "record", v, 0) BY <1>3
  <2>4. v \in Fates /\ "record" \in Points BY FatesAre, PointsAre
  <2>5. PartiesTyped' /\ Apart(o) /\ Grow /\ Gives(o, "record", v, 0)
    BY <1>0, <1>1, <1>3, <2>1, <2>2, <2>3, <2>4, Deciding
  <2>. QED BY <1>1, <1>3, <2>2, <2>3, <2>4, <2>5 DEF Same
<1>. QED BY <1>1, <1>2, <1>3

LEMMA RegisterStep ==
    ASSUME PartiesInv, NEW o \in Ops, RegisterWaiter(o)
    PROVE  /\ PartiesTyped' /\ Apart(o) /\ Grow
           /\ at[o] = "admission"
           /\ \/ Goes(o, "waiting") /\ log'[o] = log[o] /\ place'[o] = "waiter"
              \/ Gives(o, "record", "failed", 0) /\ Same(o)
<1>0. PartiesTyped /\ OwnRows /\ leaseID[o] \in Nat BY DEF PartiesInv, PartiesTyped
<1>1. at[o] = "admission" /\ UNCHANGED <<leaseID, aged, drop, child, stuck>>
  BY DEF RegisterWaiter, Holding, Elsewhere
<1>2. \/ Ledger(Dead, o, "waiter") /\ Goto(o, "waiting") /\ verdict' = verdict
      \/ LedgerFails(o) /\ Decide(o, "record", "failed", 0)
  BY DEF RegisterWaiter, Holding, Elsewhere
<1>3. CASE Ledger(Dead, o, "waiter") /\ Goto(o, "waiting") /\ verdict' = verdict
  <2>1. Tame BY <1>0, <1>1, <1>3 DEF PartiesTyped, Tame
  <2>2. WrapperAlive(o) BY <1>1 DEF WrapperAlive
  <2>3. Beside(o) /\ log'[o] = log[o] /\ place'[o] = "waiter"
    BY <1>0, <1>1, <1>3, <2>2, LedgerCalled, PlaceNames
  <2>4. "waiting" \in Points BY PointsAre
  <2>5. PartiesTyped' /\ Apart(o) /\ Grow /\ Goes(o, "waiting")
    BY <1>0, <1>1, <1>3, <2>1, <2>2, <2>3, <2>4, Going
  <2>. QED BY <1>1, <1>3, <2>2, <2>3, <2>4, <2>5
<1>4. CASE LedgerFails(o) /\ Decide(o, "record", "failed", 0)
  <2>1. Tame BY <1>0, <1>1, <1>4 DEF PartiesTyped, Tame
  <2>2. Beside(o) /\ Same(o) BY <1>0, <1>1, <1>4, LeftAlone DEF LedgerFails
  <2>3. "failed" \in Fates /\ "record" \in Points BY PointsAre
  <2>4. PartiesTyped' /\ Apart(o) /\ Grow /\ Gives(o, "record", "failed", 0)
    BY <1>0, <1>1, <1>4, <2>1, <2>2, <2>3, Deciding
  <2>. QED BY <1>1, <1>4, <2>2, <2>3, <2>4 DEF Same
<1>. QED BY <1>1, <1>2, <1>3, <1>4

LEMMA GiveUpStep ==
    ASSUME PartiesInv, NEW o \in Ops, GiveUp(o)
    PROVE  /\ PartiesTyped' /\ Apart(o) /\ Grow
           /\ at[o] \in {"waiting", "reserved"} /\ \E v \in Fates : Gives(o, "record", v, 0)
           /\ \/ log'[o] = log[o] /\ place'[o] = "absent"
              \/ Same(o) /\ o \in stuck'
<1>0. PartiesTyped /\ OwnRows /\ leaseID[o] \in Nat BY DEF PartiesInv, PartiesTyped
<1>1. at[o] \in {"waiting", "reserved"} /\ (\E v \in Endings[o] : Decide(o, "record", v, 0)) /\ UNCHANGED <<leaseID, aged, drop, child>>
  BY DEF GiveUp, Holding, Elsewhere
<1>2. \/ Ledger(Dead, o, "absent") /\ stuck' = stuck
      \/ LedgerFails(o) /\ stuck' = stuck \cup {o}
  BY DEF GiveUp, Holding, Elsewhere
<1>3. CASE Ledger(Dead, o, "absent") /\ stuck' = stuck
  <2>1. Tame BY <1>0, <1>1, <1>3 DEF PartiesTyped, Tame
  <2>2. WrapperAlive(o) BY <1>1 DEF WrapperAlive
  <2>3. Beside(o) /\ log'[o] = log[o] /\ place'[o] = "absent"
    BY <1>0, <1>1, <1>3, <2>2, LedgerCalled, PlaceNames
  <2>4. PICK v \in Endings[o] : Decide(o, "record", v, 0) BY <1>1
  <2>5. v \in Fates /\ "record" \in Points BY FatesAre, PointsAre
  <2>6. PartiesTyped' /\ Apart(o) /\ Grow /\ Gives(o, "record", v, 0)
    BY <1>0, <1>1, <1>3, <2>1, <2>2, <2>3, <2>4, <2>5, Deciding
  <2>7. \E x \in Fates : Gives(o, "record", x, 0) BY <2>5, <2>6
  <2>. QED BY <1>1, <2>3, <2>6, <2>7
<1>4. CASE LedgerFails(o) /\ stuck' = stuck \cup {o}
  <2>1. Tame BY <1>0, <1>1, <1>4 DEF PartiesTyped, Tame
  <2>2. Beside(o) /\ Same(o) BY <1>0, <1>1, <1>4, LeftAlone DEF LedgerFails
  <2>3. PICK v \in Endings[o] : Decide(o, "record", v, 0) BY <1>1
  <2>4. v \in Fates /\ "record" \in Points BY FatesAre, PointsAre
  <2>5. PartiesTyped' /\ Apart(o) /\ Grow /\ Gives(o, "record", v, 0)
    BY <1>0, <1>1, <1>4, <2>1, <2>2, <2>3, <2>4, Deciding
  <2>6. \E x \in Fates : Gives(o, "record", x, 0) BY <2>4, <2>5
  <2>7. o \in stuck' BY <1>4
  <2>. QED BY <1>1, <2>2, <2>5, <2>6, <2>7
<1>. QED BY <1>1, <1>2, <1>3, <1>4

LEMMA AcquiredStep ==
    ASSUME PartiesInv, NEW o \in Ops, RecordAcquired(o)
    PROVE  /\ PartiesTyped' /\ Apart(o) /\ Grow
           /\ at[o] \in {"acquired", "reacquired"} /\ place'[o] = place[o]
           /\ \/ Goes(o, "owned") /\ Adds(o, Plain(o, at[o], leaseID[o]))
              \/ Gives(o, "release", "failed", leaseID[o]) /\ Same(o)
<1>0. PartiesTyped /\ OwnRows /\ leaseID[o] \in Nat BY DEF PartiesInv, PartiesTyped
<1>1. at[o] \in {"acquired", "reacquired"} /\ place'[o] = place[o] /\ UNCHANGED <<leaseID, aged, drop, child, place, stuck>>
  BY DEF RecordAcquired, Persist, Holding, Elsewhere
<1>2. \/ AppendDurable(Plain(o, at[o], leaseID[o])) /\ Goto(o, "owned") /\ verdict' = verdict
      \/ AppendFails /\ Decide(o, "release", "failed", leaseID[o])
  BY DEF RecordAcquired, Persist, Holding, Elsewhere
<1>3. CASE AppendDurable(Plain(o, at[o], leaseID[o])) /\ Goto(o, "owned") /\ verdict' = verdict
  <2>1. Tame BY <1>0, <1>1, <1>3 DEF PartiesTyped, Tame
  <2>2. NewRow(o, Plain(o, at[o], leaseID[o])) BY <1>0, <1>1, PlainNew
  <2>3. Beside(o) /\ Adds(o, Plain(o, at[o], leaseID[o])) /\ place'[o] = place[o]
    BY <1>0, <1>1, <1>3, <2>2, Written
  <2>4. "owned" \in Points BY PointsAre
  <2>5. PartiesTyped' /\ Apart(o) /\ Grow /\ Goes(o, "owned")
    BY <1>0, <1>1, <1>3, <2>1, <2>2, <2>3, <2>4, Going
  <2>. QED BY <1>1, <1>3, <2>2, <2>3, <2>4, <2>5
<1>4. CASE AppendFails /\ Decide(o, "release", "failed", leaseID[o])
  <2>1. Tame BY <1>0, <1>1, <1>4 DEF PartiesTyped, Tame
  <2>2. Beside(o) /\ Same(o) BY <1>0, <1>1, <1>4, NotWritten
  <2>3. "failed" \in Fates /\ "release" \in Points BY PointsAre
  <2>4. PartiesTyped' /\ Apart(o) /\ Grow /\ Gives(o, "release", "failed", leaseID[o])
    BY <1>0, <1>1, <1>4, <2>1, <2>2, <2>3, Deciding
  <2>. QED BY <1>1, <1>4, <2>2, <2>3, <2>4 DEF Same
<1>. QED BY <1>1, <1>2, <1>3, <1>4

LEMMA ReserveStep ==
    ASSUME PartiesInv, NEW o \in Ops, ReserveForPressure(o)
    PROVE  /\ PartiesTyped' /\ Apart(o) /\ Grow
           /\ at[o] = "owned"
           /\ \/ Goes(o, "reserving") /\ log'[o] = log[o] /\ place'[o] = "waiter"
              \/ Gives(o, "release", "failed", leaseID[o]) /\ Same(o)
<1>0. PartiesTyped /\ OwnRows /\ leaseID[o] \in Nat BY DEF PartiesInv, PartiesTyped
<1>1. at[o] = "owned" /\ UNCHANGED <<leaseID, aged, drop, child, stuck>>
  BY DEF ReserveForPressure, Holding, Elsewhere
<1>2. \/ Ledger(Dead, o, "waiter") /\ Goto(o, "reserving") /\ verdict' = verdict
      \/ LedgerFails(o) /\ Decide(o, "release", "failed", leaseID[o])
  BY DEF ReserveForPressure, Holding, Elsewhere
<1>3. CASE Ledger(Dead, o, "waiter") /\ Goto(o, "reserving") /\ verdict' = verdict
  <2>1. Tame BY <1>0, <1>1, <1>3 DEF PartiesTyped, Tame
  <2>2. WrapperAlive(o) BY <1>1 DEF WrapperAlive
  <2>3. Beside(o) /\ log'[o] = log[o] /\ place'[o] = "waiter"
    BY <1>0, <1>1, <1>3, <2>2, LedgerCalled, PlaceNames
  <2>4. "reserving" \in Points BY PointsAre
  <2>5. PartiesTyped' /\ Apart(o) /\ Grow /\ Goes(o, "reserving")
    BY <1>0, <1>1, <1>3, <2>1, <2>2, <2>3, <2>4, Going
  <2>. QED BY <1>1, <1>3, <2>2, <2>3, <2>4, <2>5
<1>4. CASE LedgerFails(o) /\ Decide(o, "release", "failed", leaseID[o])
  <2>1. Tame BY <1>0, <1>1, <1>4 DEF PartiesTyped, Tame
  <2>2. Beside(o) /\ Same(o) BY <1>0, <1>1, <1>4, LeftAlone DEF LedgerFails
  <2>3. "failed" \in Fates /\ "release" \in Points BY PointsAre
  <2>4. PartiesTyped' /\ Apart(o) /\ Grow /\ Gives(o, "release", "failed", leaseID[o])
    BY <1>0, <1>1, <1>4, <2>1, <2>2, <2>3, Deciding
  <2>. QED BY <1>1, <1>4, <2>2, <2>3, <2>4 DEF Same
<1>. QED BY <1>1, <1>2, <1>3, <1>4

LEMMA ReservedStep ==
    ASSUME PartiesInv, NEW o \in Ops, RecordReserved(o)
    PROVE  /\ PartiesTyped' /\ Apart(o) /\ Grow
           /\ at[o] = "reserving" /\ place'[o] = place[o]
           /\ \/ Goes(o, "reserved") /\ Adds(o, Plain(o, "reserved", leaseID[o]))
              \/ Gives(o, "release", "failed", 0) /\ Same(o)
<1>0. PartiesTyped /\ OwnRows /\ leaseID[o] \in Nat BY DEF PartiesInv, PartiesTyped
<1>1. at[o] = "reserving" /\ place'[o] = place[o] /\ UNCHANGED <<leaseID, aged, drop, child, place, stuck>>
  BY DEF RecordReserved, Persist, Holding, Elsewhere
<1>2. \/ AppendDurable(Plain(o, "reserved", leaseID[o])) /\ Goto(o, "reserved") /\ verdict' = verdict
      \/ AppendFails /\ Decide(o, "release", "failed", 0)
  BY DEF RecordReserved, Persist, Holding, Elsewhere
<1>3. CASE AppendDurable(Plain(o, "reserved", leaseID[o])) /\ Goto(o, "reserved") /\ verdict' = verdict
  <2>1. Tame BY <1>0, <1>1, <1>3 DEF PartiesTyped, Tame
  <2>2. NewRow(o, Plain(o, "reserved", leaseID[o])) BY <1>0, <1>1, PlainNew
  <2>3. Beside(o) /\ Adds(o, Plain(o, "reserved", leaseID[o])) /\ place'[o] = place[o]
    BY <1>0, <1>1, <1>3, <2>2, Written
  <2>4. "reserved" \in Points BY PointsAre
  <2>5. PartiesTyped' /\ Apart(o) /\ Grow /\ Goes(o, "reserved")
    BY <1>0, <1>1, <1>3, <2>1, <2>2, <2>3, <2>4, Going
  <2>. QED BY <1>1, <1>3, <2>2, <2>3, <2>4, <2>5
<1>4. CASE AppendFails /\ Decide(o, "release", "failed", 0)
  <2>1. Tame BY <1>0, <1>1, <1>4 DEF PartiesTyped, Tame
  <2>2. Beside(o) /\ Same(o) BY <1>0, <1>1, <1>4, NotWritten
  <2>3. "failed" \in Fates /\ "release" \in Points BY PointsAre
  <2>4. PartiesTyped' /\ Apart(o) /\ Grow /\ Gives(o, "release", "failed", 0)
    BY <1>0, <1>1, <1>4, <2>1, <2>2, <2>3, Deciding
  <2>. QED BY <1>1, <1>4, <2>2, <2>3, <2>4 DEF Same
<1>. QED BY <1>1, <1>2, <1>3, <1>4

LEMMA AbandonStep ==
    ASSUME PartiesInv, NEW o \in Ops, AbandonStart(o)
    PROVE  /\ PartiesTyped' /\ Apart(o) /\ Grow
           /\ at[o] = "owned"
           /\ (\E v \in Fates : Gives(o, "release", v, leaseID[o])) /\ Same(o)
<1>0. PartiesTyped /\ OwnRows /\ leaseID[o] \in Nat BY DEF PartiesInv, PartiesTyped
<1>1. at[o] = "owned" /\ UNCHANGED <<leaseID, aged, drop, child, stuck, log, torn, place>>
  BY DEF AbandonStart, Holding, Elsewhere
<1>2. \E v \in Endings[o] : Decide(o, "release", v, leaseID[o])
  BY DEF AbandonStart, Holding, Elsewhere
<1>3. CASE \E v \in Endings[o] : Decide(o, "release", v, leaseID[o])
  <2>1. Tame BY <1>0, <1>1, <1>3 DEF PartiesTyped, Tame
  <2>2. Beside(o) /\ Same(o) BY <1>0, <1>1, <1>3, LeftAlone DEF LedgerFails
  <2>3. PICK v \in Endings[o] : Decide(o, "release", v, leaseID[o]) BY <1>3
  <2>4. v \in Fates /\ "release" \in Points BY FatesAre, PointsAre
  <2>5. PartiesTyped' /\ Apart(o) /\ Grow /\ Gives(o, "release", v, leaseID[o])
    BY <1>0, <1>1, <1>3, <2>1, <2>2, <2>3, <2>4, Deciding
  <2>. QED BY <1>1, <1>3, <2>2, <2>3, <2>4, <2>5 DEF Same
<1>. QED BY <1>1, <1>2, <1>3

LEMMA BindStep ==
    ASSUME PartiesInv, NEW o \in Ops, BindPID(o)
    PROVE  /\ PartiesTyped' /\ Apart(o) /\ Grow
           /\ at[o] = "owned"
           /\ \/ Goes(o, "bound") /\ log'[o] = log[o] /\ place'[o] = "child"
              \/ Gives(o, "receipt", "failed", leaseID[o]) /\ Same(o)
<1>0. PartiesTyped /\ OwnRows /\ leaseID[o] \in Nat BY DEF PartiesInv, PartiesTyped
<1>1. at[o] = "owned" /\ UNCHANGED <<leaseID, aged, drop, stuck>>
  BY DEF BindPID, Elsewhere
<1>2. \/ Ledger(Dead, o, "child") /\ Goto(o, "bound") /\ verdict' = verdict /\ child' = [child EXCEPT ![o] = "live"]
      \/ LedgerFails(o) /\ Decide(o, "receipt", "failed", leaseID[o]) /\ child' = child
  BY DEF BindPID, Elsewhere
<1>3. CASE Ledger(Dead, o, "child") /\ Goto(o, "bound") /\ verdict' = verdict /\ child' = [child EXCEPT ![o] = "live"]
  <2>1. Tame BY <1>0, <1>1, <1>3 DEF PartiesTyped, Tame
  <2>2. WrapperAlive(o) BY <1>1 DEF WrapperAlive
  <2>3. Beside(o) /\ log'[o] = log[o] /\ place'[o] = "child"
    BY <1>0, <1>1, <1>3, <2>2, LedgerCalled, PlaceNames
  <2>4. "bound" \in Points BY PointsAre
  <2>5. PartiesTyped' /\ Apart(o) /\ Grow /\ Goes(o, "bound")
    BY <1>0, <1>1, <1>3, <2>1, <2>2, <2>3, <2>4, Going
  <2>. QED BY <1>1, <1>3, <2>2, <2>3, <2>4, <2>5
<1>4. CASE LedgerFails(o) /\ Decide(o, "receipt", "failed", leaseID[o]) /\ child' = child
  <2>1. Tame BY <1>0, <1>1, <1>4 DEF PartiesTyped, Tame
  <2>2. Beside(o) /\ Same(o) BY <1>0, <1>1, <1>4, LeftAlone DEF LedgerFails
  <2>3. "failed" \in Fates /\ "receipt" \in Points BY PointsAre
  <2>4. PartiesTyped' /\ Apart(o) /\ Grow /\ Gives(o, "receipt", "failed", leaseID[o])
    BY <1>0, <1>1, <1>4, <2>1, <2>2, <2>3, Deciding
  <2>. QED BY <1>1, <1>4, <2>2, <2>3, <2>4 DEF Same
<1>. QED BY <1>1, <1>2, <1>3, <1>4

LEMMA StartedStep ==
    ASSUME PartiesInv, NEW o \in Ops, RecordStarted(o)
    PROVE  /\ PartiesTyped' /\ Apart(o) /\ Grow
           /\ at[o] = "bound" /\ place'[o] = place[o]
           /\ \/ Goes(o, "running") /\ Adds(o, Plain(o, "started", leaseID[o]))
              \/ Gives(o, "receipt", "failed", leaseID[o]) /\ Same(o)
<1>0. PartiesTyped /\ OwnRows /\ leaseID[o] \in Nat BY DEF PartiesInv, PartiesTyped
<1>1. at[o] = "bound" /\ place'[o] = place[o] /\ UNCHANGED <<leaseID, aged, drop, place, stuck>>
  BY DEF RecordStarted, Elsewhere
<1>2. \/ AppendDurable(Plain(o, "started", leaseID[o])) /\ Goto(o, "running") /\ verdict' = verdict /\ child' = child
      \/ AppendFails /\ Decide(o, "receipt", "failed", leaseID[o]) /\ child' = [child EXCEPT ![o] = "gone"]
  BY DEF RecordStarted, Elsewhere
<1>3. CASE AppendDurable(Plain(o, "started", leaseID[o])) /\ Goto(o, "running") /\ verdict' = verdict /\ child' = child
  <2>1. Tame BY <1>0, <1>1, <1>3 DEF PartiesTyped, Tame
  <2>2. NewRow(o, Plain(o, "started", leaseID[o])) BY <1>0, <1>1, PlainNew
  <2>3. Beside(o) /\ Adds(o, Plain(o, "started", leaseID[o])) /\ place'[o] = place[o]
    BY <1>0, <1>1, <1>3, <2>2, Written
  <2>4. "running" \in Points BY PointsAre
  <2>5. PartiesTyped' /\ Apart(o) /\ Grow /\ Goes(o, "running")
    BY <1>0, <1>1, <1>3, <2>1, <2>2, <2>3, <2>4, Going
  <2>. QED BY <1>1, <1>3, <2>2, <2>3, <2>4, <2>5
<1>4. CASE AppendFails /\ Decide(o, "receipt", "failed", leaseID[o]) /\ child' = [child EXCEPT ![o] = "gone"]
  <2>1. Tame BY <1>0, <1>1, <1>4 DEF PartiesTyped, Tame
  <2>2. Beside(o) /\ Same(o) BY <1>0, <1>1, <1>4, NotWritten
  <2>3. "failed" \in Fates /\ "receipt" \in Points BY PointsAre
  <2>4. PartiesTyped' /\ Apart(o) /\ Grow /\ Gives(o, "receipt", "failed", leaseID[o])
    BY <1>0, <1>1, <1>4, <2>1, <2>2, <2>3, Deciding
  <2>. QED BY <1>1, <1>4, <2>2, <2>3, <2>4 DEF Same
<1>. QED BY <1>1, <1>2, <1>3, <1>4

LEMMA ReleaseStep ==
    ASSUME PartiesInv, NEW o \in Ops, Release(o)
    PROVE  /\ PartiesTyped' /\ Apart(o) /\ Grow
           /\ at[o] \in {"release", "finalize"} /\ Goes(o, IF at[o] = "release" THEN "record" ELSE "leaving")
           /\ \/ log'[o] = log[o] /\ place'[o] = "absent"
              \/ Same(o) /\ (place[o] = "waiter" => o \in stuck')
<1>0. PartiesTyped /\ OwnRows /\ leaseID[o] \in Nat BY DEF PartiesInv, PartiesTyped
<1>1. at[o] \in {"release", "finalize"} /\ Goto(o, IF at[o] = "release" THEN "record" ELSE "leaving") /\ UNCHANGED <<leaseID, aged, drop, child, verdict>>
  BY DEF Release, Holding, Elsewhere
<1>2. \/ Ledger(Dead, o, "absent") /\ stuck' = stuck
      \/ LedgerFails(o) /\ stuck' = IF place[o] = "waiter" THEN stuck \cup {o} ELSE stuck
  BY DEF Release, Holding, Elsewhere
<1>3. CASE Ledger(Dead, o, "absent") /\ stuck' = stuck
  <2>1. Tame BY <1>0, <1>1, <1>3 DEF PartiesTyped, Tame
  <2>2. WrapperAlive(o) BY <1>1 DEF WrapperAlive
  <2>3. Beside(o) /\ log'[o] = log[o] /\ place'[o] = "absent"
    BY <1>0, <1>1, <1>3, <2>2, LedgerCalled, PlaceNames
  <2>4. (IF at[o] = "release" THEN "record" ELSE "leaving") \in Points BY PointsAre
  <2>5. PartiesTyped' /\ Apart(o) /\ Grow /\ Goes(o, (IF at[o] = "release" THEN "record" ELSE "leaving"))
    BY <1>0, <1>1, <1>3, <2>1, <2>2, <2>3, <2>4, Going
  <2>. QED BY <1>1, <1>3, <2>2, <2>3, <2>4, <2>5
<1>4. CASE LedgerFails(o) /\ stuck' = IF place[o] = "waiter" THEN stuck \cup {o} ELSE stuck
  <2>1. Tame BY <1>0, <1>1, <1>4 DEF PartiesTyped, Tame
  <2>2. Beside(o) /\ Same(o) BY <1>0, <1>1, <1>4, LeftAlone DEF LedgerFails
  <2>3. (IF at[o] = "release" THEN "record" ELSE "leaving") \in Points BY PointsAre
  <2>4. PartiesTyped' /\ Apart(o) /\ Grow /\ Goes(o, (IF at[o] = "release" THEN "record" ELSE "leaving"))
    BY <1>0, <1>1, <1>4, <2>1, <2>2, <2>3, Going
  <2>. QED BY <1>1, <1>4, <2>2, <2>3, <2>4 DEF Same
<1>. QED BY <1>1, <1>2, <1>3, <1>4

LEMMA ExitStep ==
    ASSUME PartiesInv, NEW o \in Ops, Exit(o)
    PROVE  /\ PartiesTyped' /\ Apart(o) /\ Grow
           /\ at[o] = "leaving"
           /\ Goes(o, "done") /\ Same(o)
<1>0. PartiesTyped /\ OwnRows /\ leaseID[o] \in Nat BY DEF PartiesInv, PartiesTyped
<1>1. at[o] = "leaving" /\ UNCHANGED <<leaseID, aged, drop, child, verdict, stuck, log, torn, place>>
  BY DEF Exit, Holding, Elsewhere
<1>2. Goto(o, "done")
  BY DEF Exit, Holding, Elsewhere
<1>3. CASE Goto(o, "done")
  <2>1. Tame BY <1>0, <1>1, <1>3 DEF PartiesTyped, Tame
  <2>2. Beside(o) /\ Same(o) BY <1>0, <1>1, <1>3, LeftAlone DEF LedgerFails
  <2>3. "done" \in Points BY PointsAre
  <2>4. PartiesTyped' /\ Apart(o) /\ Grow /\ Goes(o, "done")
    BY <1>0, <1>1, <1>3, <2>1, <2>2, <2>3, Going
  <2>. QED BY <1>1, <1>3, <2>2, <2>3, <2>4 DEF Same
<1>. QED BY <1>1, <1>2, <1>3

LEMMA CrashStep ==
    ASSUME PartiesInv, NEW o \in Ops, Crash(o)
    PROVE  /\ PartiesTyped' /\ Apart(o) /\ Grow
           /\ at[o] \notin {"new", "done", "dead"}
           /\ Goes(o, "dead") /\ Same(o)
<1>0. PartiesTyped /\ OwnRows /\ leaseID[o] \in Nat BY DEF PartiesInv, PartiesTyped
<1>1. at[o] \notin {"new", "done", "dead"} /\ UNCHANGED <<leaseID, aged, drop, child, verdict, stuck, log, torn, place>>
  BY DEF Crash, WrapperAlive, Holding, Elsewhere
<1>2. Goto(o, "dead")
  BY DEF Crash, WrapperAlive, Holding, Elsewhere
<1>3. CASE Goto(o, "dead")
  <2>1. Tame BY <1>0, <1>1, <1>3 DEF PartiesTyped, Tame
  <2>2. Beside(o) /\ Same(o) BY <1>0, <1>1, <1>3, LeftAlone DEF LedgerFails
  <2>3. "dead" \in Points BY PointsAre
  <2>4. PartiesTyped' /\ Apart(o) /\ Grow /\ Goes(o, "dead")
    BY <1>0, <1>1, <1>3, <2>1, <2>2, <2>3, Going
  <2>. QED BY <1>1, <1>3, <2>2, <2>3, <2>4 DEF Same
<1>. QED BY <1>1, <1>2, <1>3

LEMMA AcquireStep ==
    ASSUME PartiesInv, NEW o \in Ops, Acquire(o)
    PROVE  /\ PartiesTyped' /\ Apart(o) /\ Grow
           /\ at[o] \in {"admission", "waiting", "reserved"}
           /\ at'[o] = (IF at[o] = "reserved" THEN "reacquired" ELSE "acquired")
           /\ verdict'[o] = verdict[o] /\ leaseID'[o] = leaseID[o] + 1
           /\ log'[o] = log[o] /\ place'[o] = "wrapper"
<1>0. PartiesTyped /\ OwnRows /\ leaseID[o] \in Nat BY DEF PartiesInv, PartiesTyped
<1>. DEFINE x == IF at[o] = "reserved" THEN "reacquired" ELSE "acquired"
<1>1. /\ at[o] \in {"admission", "waiting", "reserved"} /\ Goto(o, x)
      /\ Ledger(Dead, o, "wrapper") /\ leaseID' = [leaseID EXCEPT ![o] = @ + 1]
      /\ UNCHANGED <<aged, drop, child, verdict, stuck>>
  BY DEF Acquire, Elsewhere
<1>2. x \in Points BY PointsAre
<1>. HIDE DEF x
<1>3. WrapperAlive(o) BY <1>1 DEF WrapperAlive
<1>4. Beside(o) /\ log'[o] = log[o] /\ place'[o] = "wrapper"
  BY <1>0, <1>1, <1>3, LedgerCalled, PlaceNames
<1>5. /\ leaseID' \in [Ops -> Nat] /\ leaseID'[o] = leaseID[o] + 1
      /\ \A q \in Ops \ {o} : leaseID'[q] = leaseID[q]
  BY <1>0, <1>1 DEF PartiesTyped
<1>6. at' \in [Ops -> Points] /\ at'[o] = x /\ \A q \in Ops \ {o} : at'[q] = at[q]
  BY <1>0, <1>1, <1>2 DEF PartiesTyped, Goto
<1>7. /\ child' \in [Ops -> {"none", "live", "gone"}]
      /\ verdict' \in [Ops -> [kind : Kinds, lease : Nat]] /\ stuck' \subseteq Ops
  BY <1>0, <1>1 DEF PartiesTyped
<1>8. PartiesTyped' /\ Apart(o) /\ Grow BY <1>0, <1>1, <1>4, <1>5, <1>6, <1>7, Steps
<1>. QED BY <1>1, <1>4, <1>5, <1>6, <1>8 DEF x

LEMMA ChildStep ==
    ASSUME PartiesInv, NEW o \in Ops, ChildExit(o)
    PROVE  /\ PartiesTyped' /\ Apart(o) /\ Grow /\ Same(o)
           /\ \/ at[o] = "running" /\ \E v \in Fates : Gives(o, "reap", v, leaseID[o])
              \/ at[o] = "dead" /\ Goes(o, "dead")
<1>0. PartiesTyped /\ OwnRows /\ leaseID[o] \in Nat BY DEF PartiesInv, PartiesTyped
<1>1. child' = [child EXCEPT ![o] = "gone"] /\ UNCHANGED <<leaseID, aged, drop, stuck, log, torn, place>>
  BY DEF ChildExit, Elsewhere
<1>2. Tame BY <1>0, <1>1 DEF PartiesTyped, Tame
<1>3. Beside(o) /\ Same(o) BY <1>0, <1>1, LeftAlone
<1>4. CASE at[o] = "running" /\ \E v \in Exits[o] : Decide(o, "reap", v, leaseID[o])
  <2>1. PICK v \in Exits[o] : Decide(o, "reap", v, leaseID[o]) BY <1>4
  <2>2. v \in Fates /\ "reap" \in Points BY FatesAre, PointsAre
  <2>3. PartiesTyped' /\ Apart(o) /\ Grow /\ Gives(o, "reap", v, leaseID[o])
    BY <1>0, <1>2, <1>3, <2>1, <2>2, Deciding
  <2>. QED BY <1>3, <1>4, <2>2, <2>3
<1>5. CASE at[o] = "dead" /\ UNCHANGED <<at, verdict>>
  <2>1. at' \in [Ops -> Points] /\ verdict' \in [Ops -> [kind : Kinds, lease : Nat]]
    BY <1>0, <1>5 DEF PartiesTyped
  <2>2. leaseID' \in [Ops -> Nat] /\ stuck' \subseteq Ops BY <1>0, <1>1 DEF PartiesTyped
  <2>3. PartiesTyped' /\ Apart(o) /\ Grow
    BY <1>0, <1>1, <1>2, <1>3, <1>5, <2>1, <2>2, Steps DEF Tame
  <2>. QED BY <1>1, <1>3, <1>5, <2>3 DEF Goes
<1>. QED BY <1>4, <1>5 DEF ChildExit

LEMMA TerminalStep ==
    ASSUME PartiesInv, NEW o \in Ops, RecordTerminal(o)
    PROVE  /\ PartiesTyped' /\ Apart(o) /\ Grow /\ place'[o] = place[o]
           /\ at[o] \in {"record", "receipt", "reap"}
           /\ Goes(o, IF at[o] = "record" THEN "leaving" ELSE "finalize")
           /\ Adds(o, TerminalRow(o)) \/ Same(o)
<1>0. PartiesTyped /\ OwnRows /\ Ordered(o) BY DEF PartiesInv
<1>. DEFINE x == IF at[o] = "record" THEN "leaving" ELSE "finalize"
<1>1. /\ at[o] \in {"record", "receipt", "reap"} /\ Goto(o, x)
      /\ UNCHANGED <<leaseID, child, aged, drop, place, verdict, stuck>>
  BY DEF RecordTerminal, Holding, Elsewhere
<1>2. AppendDurable(TerminalRow(o)) \/ AppendFails BY DEF RecordTerminal
<1>3. x \in Points BY PointsAre
<1>. HIDE DEF x
<1>4. Tame BY <1>0, <1>1 DEF PartiesTyped, Tame
<1>5. NewRow(o, TerminalRow(o))
  BY <1>0, <1>1, PointsAre, TerminalIs DEF Ordered
<1>6. Beside(o) /\ place'[o] = place[o] /\ (Adds(o, TerminalRow(o)) \/ Same(o))
  <2>1. CASE AppendDurable(TerminalRow(o)) BY <1>0, <1>1, <1>5, <2>1, Written
  <2>2. CASE AppendFails BY <1>0, <1>1, <2>2, NotWritten
  <2>. QED BY <1>1, <1>2, <2>1, <2>2
<1>7. PartiesTyped' /\ Apart(o) /\ Grow /\ Goes(o, x)
  BY <1>0, <1>1, <1>3, <1>4, <1>6, Going
<1>. QED BY <1>1, <1>6, <1>7 DEF x

LEMMA ProbeStep ==
    ASSUME PartiesInv, NEW o \in Ops, ProbeRace(o)
    PROVE  /\ PartiesTyped' /\ Apart(o) /\ Grow
           /\ at[o] = "running" /\ place[o] = "child" /\ place'[o] = "absent"
           /\ \E v \in Fates : Gives(o, "reap", v, leaseID[o])
           /\ \/ log'[o] = log[o]
              \/ ~OperationHasTerminal(o) /\ log'[o] = Append(log[o], ExpiredRow(o))
<1>0. PartiesTyped /\ OwnRows /\ leaseID[o] \in Nat BY DEF PartiesInv, PartiesTyped
<1>1. /\ at[o] = "running" /\ place[o] = "child" /\ Ledger(Dead \cup {o}, o, "absent")
      /\ child' = [child EXCEPT ![o] = "gone"]
      /\ UNCHANGED <<aged, drop, leaseID, stuck>>
  BY DEF ProbeRace, Elsewhere
<1>2. PICK v \in Exits[o] : Decide(o, "reap", v, leaseID[o]) BY DEF ProbeRace
<1>3. v \in Fates /\ "reap" \in Points BY FatesAre, PointsAre
<1>4. Tame BY <1>0, <1>1 DEF PartiesTyped, Tame
<1>5. /\ log' = RecordExpired(Dead \cup {o}) /\ torn' = torn
      /\ place' = [q \in Ops |-> IF q = o THEN "absent"
                                 ELSE IF q \in Dead \cup {o} THEN "absent" ELSE place[q]]
  BY <1>1 DEF Ledger
<1>6. log' \in [Ops -> Seq(Row)]
      /\ \A q \in Ops : log'[q] = IF q \in Dead \cup {o} /\ ~OperationHasTerminal(q)
                                  THEN Append(log[q], ExpiredRow(q)) ELSE log[q]
  BY <1>0, <1>5, RecordExpiredIs
<1>7. place' \in [Ops -> Where] /\ place'[o] = "absent"
      /\ \A q \in Ops \ {o} : place'[q] = place[q] \/ (q \in Dead /\ place'[q] = "absent")
  BY <1>0, <1>5, PlaceNames DEF PartiesTyped
<1>8. \A q \in Ops \ {o} : Swept(q) BY <1>6, <1>7 DEF Swept, Dead
<1>9. Beside(o) BY <1>5, <1>6, <1>7, <1>8 DEF Beside
<1>10. PartiesTyped' /\ Apart(o) /\ Grow /\ Gives(o, "reap", v, leaseID[o])
  BY <1>0, <1>2, <1>3, <1>4, <1>9, Deciding
<1>11. \/ log'[o] = log[o]
       \/ ~OperationHasTerminal(o) /\ log'[o] = Append(log[o], ExpiredRow(o))
  BY <1>6
<1>12. \E x \in Fates : Gives(o, "reap", x, leaseID[o]) BY <1>3, <1>10
<1>. QED BY <1>1, <1>7, <1>10, <1>11, <1>12

LEMMA AgeStep ==
    ASSUME PartiesInv, NEW o \in Ops, Age(o)
    PROVE  PartiesTyped' /\ Apart(o) /\ Grow /\ Goes(o, at[o]) /\ Same(o) /\ aged'[o] = TRUE
<1>0. PartiesTyped BY DEF PartiesInv
<1>1. aged' = [aged EXCEPT ![o] = TRUE]
      /\ UNCHANGED <<leaseID, child, log, torn, place, at, verdict, drop, stuck>>
  BY DEF Age, Holding
<1>2. aged' \in [Ops -> BOOLEAN] /\ aged'[o] = TRUE /\ \A q \in Ops \ {o} : aged'[q] = aged[q]
  BY <1>0, <1>1 DEF PartiesTyped
<1>3. PartiesTyped' BY <1>0, <1>1, <1>2 DEF PartiesTyped
<1>. QED BY <1>1, <1>2, <1>3 DEF Apart, Aside, Swept, Grow, Goes, Same

LEMMA SignalStep ==
    ASSUME PartiesInv, NEW o \in Ops, CancelSignal(o)
    PROVE  /\ PartiesTyped' /\ Apart(o) /\ Grow /\ Same(o) /\ at[o] = "running"
           /\ Gives(o, "reap", "failed", leaseID[o]) /\ drop'.op = o
<1>0. PartiesTyped /\ leaseID[o] \in Nat BY DEF PartiesInv, PartiesTyped
<1>1. /\ drop.op = NoOp /\ at[o] = "running" /\ child' = [child EXCEPT ![o] = "gone"]
      /\ Decide(o, "reap", "failed", leaseID[o])
      /\ drop' = [op |-> o, stage |-> "signalled"]
      /\ UNCHANGED <<log, torn, place, leaseID, aged, stuck>>
  BY DEF CancelSignal
<1>2. "failed" \in Fates /\ "reap" \in Points BY PointsAre
<1>. DEFINE d == [kind |-> "failed", lease |-> leaseID[o]]
<1>3. d \in [kind : Kinds, lease : Nat] BY <1>0, <1>2 DEF Fates
<1>4. verdict' = [verdict EXCEPT ![o] = d] /\ at' = [at EXCEPT ![o] = "reap"]
  BY <1>1 DEF Decide, Goto
<1>5. at' \in [Ops -> Points] /\ at'[o] = "reap" /\ \A q \in Ops \ {o} : at'[q] = at[q]
  BY <1>0, <1>2, <1>4 DEF PartiesTyped
<1>6. /\ verdict' \in [Ops -> [kind : Kinds, lease : Nat]] /\ verdict'[o] = d
      /\ \A q \in Ops \ {o} : verdict'[q] = verdict[q]
  <2>. HIDE DEF d
  <2>. QED BY <1>0, <1>3, <1>4 DEF PartiesTyped
<1>7. child' \in [Ops -> {"none", "live", "gone"}] BY <1>0, <1>1 DEF PartiesTyped
<1>8. /\ drop' \in [op : Ops \cup {NoOp}, stage : {"none", "signalled", "locked", "over"}]
      /\ drop'.op = o
  BY <1>1
<1>9. \A q \in Ops : q # NoOp BY EventsAssumption
<1>. HIDE DEF d
<1>10. PartiesTyped' BY <1>0, <1>1, <1>5, <1>6, <1>7, <1>8 DEF PartiesTyped
<1>11. Apart(o) BY <1>1, <1>5, <1>6 DEF Apart, Aside, Swept
<1>12. Grow BY <1>1, <1>8, <1>9 DEF Grow
<1>. QED BY <1>1, <1>5, <1>6, <1>8, <1>10, <1>11, <1>12 DEF Gives, Same, d

LEMMA OverrideStep ==
    ASSUME PartiesInv, NEW o \in Ops, OverrideWaiter(o)
    PROVE  /\ PartiesTyped' /\ Apart(o) /\ Grow /\ Goes(o, at[o])
           /\ place[o] = "waiter" /\ place'[o] = "waiter" /\ WrapperAlive(o)
           /\ \A i \in DOMAIN log[o] : log[o][i].event # "override_requested"
           /\ log'[o] = Append(log[o], Plain(o, "override_requested", 0))
           /\ NewRow(o, Plain(o, "override_requested", 0))
<1>0. PartiesTyped /\ OwnRows /\ leaseID[o] \in Nat BY DEF PartiesInv, PartiesTyped
<1>. DEFINE r == Plain(o, "override_requested", 0)
<1>1. /\ place[o] = "waiter" /\ o \notin Dead
      /\ \A i \in DOMAIN log[o] : log[o][i].event # "override_requested"
      /\ log' = [RecordExpired(Dead) EXCEPT ![o] = Append(@, r)]
      /\ place' = [q \in Ops |-> IF q \in Dead THEN "absent" ELSE place[q]]
      /\ UNCHANGED <<leaseID, child, aged, drop, torn, at, verdict, stuck>>
  BY DEF OverrideWaiter, Holding, Elsewhere
<1>11. NewRow(o, r)
  <2>1. 0 \in 0..leaseID[o] BY <1>0
  <2>. QED BY <1>0, <2>1, PlainNew
<1>. HIDE DEF r
<1>2. NewRow(o, r) /\ r \in Row BY <1>11 DEF NewRow
<1>. DEFINE L == RecordExpired(Dead)
<1>3. L \in [Ops -> Seq(Row)]
      /\ \A q \in Ops : L[q] = IF q \in Dead /\ ~OperationHasTerminal(q)
                               THEN Append(log[q], ExpiredRow(q)) ELSE log[q]
  <2>. DEFINE f(q) == IF q \in Dead /\ ~OperationHasTerminal(q)
                      THEN Append(log[q], ExpiredRow(q)) ELSE log[q]
  <2>1. L = [q \in Ops |-> f(q)] BY DEF RecordExpired
  <2>2. ASSUME NEW q \in Ops PROVE f(q) \in Seq(Row)
    <3>1. ExpiredRow(q) \in Row BY <1>0, ExpiredIs DEF NewRow
    <3>2. log[q] \in Seq(Row) BY <1>0 DEF PartiesTyped
    <3>3. Append(log[q], ExpiredRow(q)) \in Seq(Row) BY <3>1, <3>2
    <3>. QED BY <3>2, <3>3
  <2>. QED BY <2>1, <2>2
<1>. HIDE DEF L
<1>4. log' = [L EXCEPT ![o] = Append(@, r)] BY <1>1 DEF L
<1>5. L[o] = log[o] /\ log[o] \in Seq(Row) BY <1>0, <1>1, <1>3 DEF PartiesTyped
<1>6. Append(log[o], r) \in Seq(Row) BY <1>2, <1>5
<1>7. /\ log' \in [Ops -> Seq(Row)] /\ log'[o] = Append(log[o], r)
      /\ \A q \in Ops \ {o} : log'[q] = L[q]
  BY <1>3, <1>4, <1>5, <1>6
<1>8. place' \in [Ops -> Where] /\ place'[o] = place[o]
      /\ \A q \in Ops : place'[q] = place[q] \/ (q \in Dead /\ place'[q] = "absent")
  BY <1>0, <1>1, PlaceNames DEF PartiesTyped
<1>9. \A q \in Ops \ {o} : Swept(q) BY <1>3, <1>7, <1>8 DEF Swept, Dead
<1>10. PartiesTyped' BY <1>0, <1>1, <1>7, <1>8 DEF PartiesTyped
<1>12. WrapperAlive(o) BY <1>1 DEF Dead, Expirable
<1>. QED BY <1>1, <1>2, <1>7, <1>8, <1>9, <1>10, <1>12 DEF Apart, Aside, Grow, Goes, r

LEMMA DropStep ==
    ASSUME PartiesInv, DropLeaseAppend
    PROVE  /\ PartiesTyped' /\ Grow /\ \A q \in Ops \ {drop.op} : Aside(q)
           /\ drop.op \in Ops /\ drop'.op = drop.op /\ Goes(drop.op, at[drop.op])
           /\ Adds(drop.op, CancelledRow(drop.op)) \/ log'[drop.op] = log[drop.op]
           /\ place'[drop.op] \in {place[drop.op], "absent"}
<1>0. PartiesTyped /\ OwnRows BY DEF PartiesInv
<1>1. /\ drop.stage = "locked" /\ drop' = [drop EXCEPT !.stage = "over"]
      /\ UNCHANGED <<leaseID, child, at, verdict, aged, stuck>>
  BY DEF DropLeaseAppend, Holding
<1>2. /\ drop.op \in Ops /\ drop'.op = drop.op
      /\ drop' \in [op : Ops \cup {NoOp}, stage : {"none", "signalled", "locked", "over"}]
  BY <1>0, <1>1 DEF PartiesTyped
<1>. DEFINE o == drop.op
<1>. HIDE DEF o
<1>3. o \in Ops BY <1>2 DEF o
<1>4. \/ AppendDurable(CancelledRow(o)) /\ place' = [place EXCEPT ![o] = "absent"]
      \/ UNCHANGED <<log, torn, place>>
  BY DEF DropLeaseAppend, o
<1>5. CASE AppendDurable(CancelledRow(o)) /\ place' = [place EXCEPT ![o] = "absent"]
  <2>1. NewRow(o, CancelledRow(o)) BY <1>0, <1>3, CancelledIs
  <2>2. /\ log' \in [Ops -> Seq(Row)] /\ torn' = torn
        /\ \A q \in Ops \ {o} : log'[q] = log[q]
        /\ Known(o, CancelledRow(o)) => log'[o] = log[o]
        /\ ~Known(o, CancelledRow(o)) => log'[o] = Append(log[o], CancelledRow(o))
    BY <1>0, <1>3, <1>5, <2>1, AppendIs
  <2>3. /\ place' \in [Ops -> Where] /\ place'[o] = "absent"
        /\ \A q \in Ops \ {o} : place'[q] = place[q]
    BY <1>0, <1>3, <1>5, PlaceNames DEF PartiesTyped
  <2>4. PartiesTyped' BY <1>0, <1>1, <1>2, <2>2, <2>3 DEF PartiesTyped
  <2>5. \A q \in Ops \ {o} : Aside(q) BY <1>1, <2>2, <2>3 DEF Aside, Swept
  <2>6. Adds(o, CancelledRow(o)) BY <2>2 DEF Adds
  <2>7. Grow /\ Goes(o, at[o]) BY <1>1, <1>2 DEF Grow, Goes
  <2>. QED BY <1>2, <2>3, <2>4, <2>5, <2>6, <2>7 DEF o
<1>6. CASE UNCHANGED <<log, torn, place>>
  <2>1. PartiesTyped' BY <1>0, <1>1, <1>2, <1>6 DEF PartiesTyped
  <2>. QED BY <1>1, <1>2, <1>3, <1>6, <2>1 DEF Grow, Goes, Aside, Swept, o
<1>. QED BY <1>4, <1>5, <1>6

(***************************************************************************)
(* The parties stay in order.                                              *)
(***************************************************************************)
Logged(q) == log'[q] = log[q] \/ \E r : NewRow(q, r) /\ log'[q] = Append(log[q], r)

LEMMA AddedLogs ==
    ASSUME NEW o \in Ops, NEW r, NewRow(o, r), Adds(o, r)
    PROVE  Logged(o)
BY DEF Adds, Logged

LEMMA OwnRowsKept ==
    ASSUME PartiesTyped, OwnRows, NEW o \in Ops, Logged(o), leaseID'[o] >= leaseID[o],
           leaseID'[o] \in Nat
    PROVE  (\A i \in DOMAIN log[o] : NewRow(o, log[o][i]))'
<1>. DEFINE Good(r) == /\ r \in Row /\ r.op = o /\ r.lease <= leaseID'[o]
                       /\ r.exit = TRUE => r.event \in Receipts
<1>. SUFFICES \A i \in DOMAIN log'[o] : Good(log'[o][i]) BY DEF NewRow
<1>1. \A r : NewRow(o, r) => Good(r)
  <2>1. leaseID[o] \in Nat BY DEF PartiesTyped
  <2>2. \A r \in Row : r.lease \in Nat BY DEF Row
  <2>. QED BY <2>1, <2>2 DEF NewRow
<1>2. \A i \in DOMAIN log[o] : NewRow(o, log[o][i]) BY DEF OwnRows
<1>. HIDE DEF Good
<1>3. CASE log'[o] = log[o] BY <1>1, <1>2, <1>3
<1>4. ASSUME NEW r, NewRow(o, r), log'[o] = Append(log[o], r)
      PROVE  \A i \in DOMAIN log'[o] : Good(log'[o][i])
  <2>1. log[o] \in Seq(Row) /\ r \in Row BY <1>4 DEF PartiesTyped, NewRow
  <2>2. /\ DOMAIN log'[o] = DOMAIN log[o] \cup {Len(log[o]) + 1}
        /\ log'[o][Len(log[o]) + 1] = r
        /\ \A i \in DOMAIN log[o] : log'[o][i] = log[o][i]
    BY <1>4, <2>1, AppendedRows
  <2>. QED BY <1>1, <1>2, <1>4, <2>2
<1>. QED BY <1>3, <1>4 DEF Logged

LEMMA AsideOrdered ==
    ASSUME PartiesInv, NEW q \in Ops, Aside(q)
    PROVE  Logged(q) /\ leaseID'[q] = leaseID[q] /\ Ordered(q)'
<1>0. PartiesTyped /\ Ordered(q) BY DEF PartiesInv
<1>1. at'[q] = at[q] /\ leaseID'[q] = leaseID[q] /\ verdict'[q] = verdict[q] /\ Swept(q)
  BY DEF Aside
<1>2. Logged(q)
  <2>1. NewRow(q, ExpiredRow(q)) BY <1>0, ExpiredIs
  <2>. QED BY <1>1, <2>1 DEF Swept, Logged
<1>3. at[q] # "new" \/ (log'[q] = log[q] /\ place'[q] = place[q])
  BY <1>0, <1>1 DEF Swept, Ordered, Expirable
<1>4. at[q] \in {"dead", "done"} \/ log'[q] = log[q]
  BY <1>1 DEF Swept, Expirable, WrapperAlive
<1>5. CASE log'[q] = log[q] BY <1>0, <1>1, <1>2, <1>3, <1>5 DEF Ordered
<1>6. CASE at[q] \in {"dead", "done"} BY <1>0, <1>1, <1>2, <1>6 DEF Ordered
<1>. QED BY <1>1, <1>2, <1>4, <1>5, <1>6

LEMMA OwnOrdered ==
    ASSUME PartiesInv, NEW o \in Ops, Actor(o)
    PROVE  PartiesTyped' /\ Apart(o) /\ Grow /\ Logged(o) /\ leaseID'[o] >= leaseID[o] /\ Ordered(o)'
<1>0. /\ PartiesTyped /\ OwnRows /\ Ordered(o) /\ leaseID[o] \in Nat
      /\ verdict[o] \in [kind : Kinds, lease : Nat]
      /\ 0 \in 0..leaseID[o] /\ leaseID[o] \in 0..leaseID[o]
      /\ \A i \in DOMAIN log[o] : log[o][i].lease \in Nat /\ log[o][i].lease <= leaseID[o]
  <2>1. PartiesTyped /\ OwnRows /\ Ordered(o) BY DEF PartiesInv
  <2>2. /\ leaseID[o] \in Nat /\ verdict[o] \in [kind : Kinds, lease : Nat]
    BY <2>1 DEF PartiesTyped
  <2>3. \A r \in Row : r.lease \in Nat BY DEF Row
  <2>4. \A i \in DOMAIN log[o] : log[o][i] \in Row /\ log[o][i].lease <= leaseID[o]
    BY <2>1 DEF OwnRows, NewRow
  <2>5. 0 \in 0..leaseID[o] /\ leaseID[o] \in 0..leaseID[o] BY <2>2
  <2>. QED BY <2>1, <2>2, <2>3, <2>4, <2>5
<1>1. \A l \in 0..leaseID[o] :
        \A e \in {"queued", "override_requested", "acquired", "reserved", "reacquired", "started"} :
          NewRow(o, Plain(o, e, l))
  BY <1>0, PlainNew
<1>. DEFINE Goal == /\ PartiesTyped' /\ Apart(o) /\ Grow
                    /\ Logged(o) /\ leaseID'[o] >= leaseID[o] /\ Ordered(o)'
<1>2. CASE RecordQueued(o)
  <2>1. /\ PartiesTyped' /\ Apart(o) /\ Grow /\ at[o] = "new" /\ leaseID'[o] = leaseID[o]
        /\ at'[o] \in {"admission", "done"} /\ verdict'[o] = verdict[o]
        /\ Adds(o, Plain(o, "queued", 0)) \/ Same(o)
    BY <1>2, QueuedStep DEF Goes
  <2>2. Logged(o) BY <1>0, <1>1, <2>1, AddedLogs DEF Same, Logged
  <2>3. at'[o] \notin Past \ {"done", "dead"} BY <2>1, PointsAre
  <2>. QED BY <1>0, <2>1, <2>2, <2>3 DEF Ordered
<1>3. CASE AdmissionEnds(o)
  <2>1. PICK v \in Fates : /\ PartiesTyped' /\ Apart(o) /\ Grow /\ at[o] = "admission"
                           /\ Gives(o, "record", v, 0) /\ Same(o)
    BY <1>3, EndsStep
  <2>. QED BY <1>0, <2>1, PointsAre DEF Ordered, Gives, Same, Logged
<1>4. CASE RegisterWaiter(o)
  <2>1. /\ PartiesTyped' /\ Apart(o) /\ Grow /\ at[o] = "admission" /\ log'[o] = log[o]
        /\ Goes(o, "waiting") \/ Gives(o, "record", "failed", 0)
    BY <1>4, RegisterStep DEF Same
  <2>. QED BY <1>0, <2>1, PointsAre DEF Ordered, Goes, Gives, Logged
<1>5. CASE Acquire(o)
  <2>1. /\ PartiesTyped' /\ Apart(o) /\ Grow /\ at[o] \in {"admission", "waiting", "reserved"}
        /\ at'[o] = (IF at[o] = "reserved" THEN "reacquired" ELSE "acquired")
        /\ verdict'[o] = verdict[o] /\ leaseID'[o] = leaseID[o] + 1
        /\ log'[o] = log[o] /\ place'[o] = "wrapper"
    BY <1>5, AcquireStep
  <2>2. \A i \in DOMAIN log'[o] : log'[o][i].lease < leaseID'[o] BY <1>0, <2>1
  <2>. QED BY <1>0, <2>1, <2>2 DEF Ordered, Logged, Past
<1>6. CASE GiveUp(o)
  <2>1. /\ PartiesTyped' /\ Apart(o) /\ Grow /\ at[o] \in {"waiting", "reserved"}
        /\ log'[o] = log[o] /\ \E v \in Fates : Gives(o, "record", v, 0)
    BY <1>6, GiveUpStep DEF Same
  <2>. QED BY <1>0, <2>1, PointsAre DEF Ordered, Gives, Logged
<1>7. CASE RecordAcquired(o)
  <2>. DEFINE r == Plain(o, at[o], leaseID[o])
  <2>1. /\ PartiesTyped' /\ Apart(o) /\ Grow /\ at[o] \in {"acquired", "reacquired"}
        /\ \/ Goes(o, "owned") /\ Adds(o, r)
           \/ Gives(o, "release", "failed", leaseID[o]) /\ Same(o)
    BY <1>7, AcquiredStep
  <2>2. NewRow(o, r) /\ r.event = at[o] BY <1>0, <1>1, <2>1 DEF Plain
  <2>. HIDE DEF r
  <2>3. CASE Gives(o, "release", "failed", leaseID[o]) /\ Same(o)
    BY <1>0, <2>1, <2>3, PointsAre DEF Ordered, Gives, Same, Logged
  <2>4. CASE Goes(o, "owned") /\ Adds(o, r)
    <3>1. log[o] \in Seq(Row) /\ r \in Row BY <1>0, <2>2 DEF PartiesTyped, NewRow
    <3>2. \A i \in DOMAIN log[o] : log[o][i].lease < leaseID[o] BY <1>0, <2>1 DEF Ordered
    <3>3. \A i \in DOMAIN log'[o] : log'[o][i].lease = leaseID[o] => log'[o][i].event # "reserved"
      <4>1. CASE log'[o] = log[o] BY <1>0, <3>2, <4>1
      <4>2. CASE log'[o] = Append(log[o], r)
        <5>1. \A i \in DOMAIN log'[o] : (i \in DOMAIN log[o] /\ log'[o][i] = log[o][i]) \/ log'[o][i] = r
          BY <3>1, <4>2, AppendedRows
        <5>. QED BY <1>0, <2>1, <2>2, <3>2, <5>1
      <4>. QED BY <2>4, <4>1, <4>2 DEF Adds
    <3>4. Logged(o) BY <2>2, <2>4, AddedLogs
    <3>5. leaseID[o] > 0 /\ verdict[o].lease <= leaseID[o] BY <1>0, <2>1 DEF Ordered
    <3>6. at'[o] = "owned" /\ verdict'[o] = verdict[o] /\ leaseID'[o] = leaseID[o]
      BY <2>4 DEF Goes
    <3>. QED BY <1>0, <2>1, <3>3, <3>4, <3>5, <3>6 DEF Ordered, Past
  <2>. QED BY <2>1, <2>3, <2>4
<1>8. CASE ReserveForPressure(o)
  <2>1. /\ PartiesTyped' /\ Apart(o) /\ Grow /\ at[o] = "owned" /\ log'[o] = log[o]
        /\ Goes(o, "reserving") \/ Gives(o, "release", "failed", leaseID[o])
    BY <1>8, ReserveStep DEF Same
  <2>. QED BY <1>0, <2>1, PointsAre DEF Ordered, Goes, Gives, Logged
<1>9. CASE RecordReserved(o)
  <2>1. /\ PartiesTyped' /\ Apart(o) /\ Grow /\ at[o] = "reserving"
        /\ Goes(o, "reserved") \/ Gives(o, "release", "failed", 0)
        /\ Adds(o, Plain(o, "reserved", leaseID[o])) \/ Same(o)
    BY <1>9, ReservedStep
  <2>2. Logged(o) BY <1>0, <1>1, <2>1, AddedLogs DEF Same, Logged
  <2>. QED BY <1>0, <2>1, <2>2, PointsAre DEF Ordered, Goes, Gives
<1>10. CASE AbandonStart(o)
  <2>1. PICK v \in Fates : /\ PartiesTyped' /\ Apart(o) /\ Grow /\ at[o] = "owned"
                           /\ Gives(o, "release", v, leaseID[o]) /\ Same(o)
    BY <1>10, AbandonStep
  <2>. QED BY <1>0, <2>1, PointsAre DEF Ordered, Gives, Same, Logged
<1>11. CASE BindPID(o)
  <2>1. /\ PartiesTyped' /\ Apart(o) /\ Grow /\ at[o] = "owned" /\ log'[o] = log[o]
        /\ Goes(o, "bound") \/ Gives(o, "receipt", "failed", leaseID[o])
    BY <1>11, BindStep DEF Same
  <2>. QED BY <1>0, <2>1, PointsAre DEF Ordered, Goes, Gives, Logged
<1>12. CASE RecordStarted(o)
  <2>1. /\ PartiesTyped' /\ Apart(o) /\ Grow /\ at[o] = "bound"
        /\ Goes(o, "running") \/ Gives(o, "receipt", "failed", leaseID[o])
        /\ Adds(o, Plain(o, "started", leaseID[o])) \/ Same(o)
    BY <1>12, StartedStep
  <2>2. Logged(o) BY <1>0, <1>1, <2>1, AddedLogs DEF Same, Logged
  <2>. QED BY <1>0, <2>1, <2>2, PointsAre DEF Ordered, Goes, Gives
<1>13. CASE ChildExit(o)
  <2>1. /\ PartiesTyped' /\ Apart(o) /\ Grow /\ Same(o)
        /\ \/ at[o] = "running" /\ \E v \in Fates : Gives(o, "reap", v, leaseID[o])
           \/ at[o] = "dead" /\ Goes(o, "dead")
    BY <1>13, ChildStep
  <2>2. CASE at[o] = "dead" /\ Goes(o, "dead")
    BY <1>0, <2>1, <2>2 DEF Ordered, Goes, Same, Logged
  <2>3. ASSUME at[o] = "running", NEW v \in Fates, Gives(o, "reap", v, leaseID[o]) PROVE Goal
    BY <1>0, <2>1, <2>3, PointsAre DEF Ordered, Gives, Same, Logged
  <2>. QED BY <2>1, <2>2, <2>3
<1>14. CASE RecordTerminal(o)
  <2>1. /\ PartiesTyped' /\ Apart(o) /\ Grow /\ at[o] \in {"record", "receipt", "reap"}
        /\ Goes(o, IF at[o] = "record" THEN "leaving" ELSE "finalize")
        /\ Adds(o, TerminalRow(o)) \/ Same(o)
    BY <1>14, TerminalStep
  <2>2. verdict[o].kind # "none" /\ verdict[o].lease <= leaseID[o]
    BY <1>0, <2>1, PointsAre DEF Ordered
  <2>3. Logged(o) BY <1>0, <2>1, <2>2, TerminalIs, AddedLogs DEF Same, Logged
  <2>. QED BY <1>0, <2>1, <2>2, <2>3 DEF Ordered, Goes
<1>15. CASE Release(o)
  <2>1. /\ PartiesTyped' /\ Apart(o) /\ Grow /\ at[o] \in {"release", "finalize"}
        /\ Goes(o, IF at[o] = "release" THEN "record" ELSE "leaving") /\ log'[o] = log[o]
    BY <1>15, ReleaseStep DEF Same
  <2>2. verdict[o].kind # "none" /\ verdict[o].lease <= leaseID[o]
    BY <1>0, <2>1, PointsAre DEF Ordered
  <2>. QED BY <1>0, <2>1, <2>2 DEF Ordered, Goes, Logged
<1>16. CASE Exit(o) \/ Crash(o)
  <2>1. /\ PartiesTyped' /\ Apart(o) /\ Grow /\ log'[o] = log[o]
        /\ Goes(o, "done") \/ Goes(o, "dead")
    BY <1>16, ExitStep, CrashStep DEF Same
  <2>. QED BY <1>0, <2>1 DEF Ordered, Goes, Logged
<1>17. CASE ProbeRace(o)
  <2>1. /\ PartiesTyped' /\ Apart(o) /\ Grow /\ at[o] = "running"
        /\ \E v \in Fates : Gives(o, "reap", v, leaseID[o])
        /\ log'[o] = log[o] \/ log'[o] = Append(log[o], ExpiredRow(o))
    BY <1>17, ProbeStep
  <2>2. Logged(o) BY <1>0, <2>1, ExpiredIs DEF Logged
  <2>. QED BY <1>0, <2>1, <2>2, PointsAre DEF Ordered, Gives
<1>18. CASE Age(o)
  <2>1. PartiesTyped' /\ Apart(o) /\ Grow /\ Goes(o, at[o]) /\ Same(o) BY <1>18, AgeStep
  <2>. QED BY <1>0, <2>1 DEF Ordered, Goes, Same, Logged
<1>19. CASE CancelSignal(o)
  <2>1. /\ PartiesTyped' /\ Apart(o) /\ Grow /\ Same(o) /\ at[o] = "running"
        /\ Gives(o, "reap", "failed", leaseID[o])
    BY <1>19, SignalStep
  <2>. QED BY <1>0, <2>1, PointsAre DEF Ordered, Gives, Same, Logged
<1>20. CASE OverrideWaiter(o)
  <2>. DEFINE r == Plain(o, "override_requested", 0)
  <2>1. /\ PartiesTyped' /\ Apart(o) /\ Grow /\ Goes(o, at[o]) /\ place[o] = "waiter"
        /\ place'[o] = "waiter" /\ log'[o] = Append(log[o], r) /\ NewRow(o, r)
    BY <1>20, OverrideStep
  <2>2. r.event = "override_requested" /\ r.lease = 0 BY DEF Plain
  <2>. HIDE DEF r
  <2>3. Logged(o) BY <2>1 DEF Logged
  <2>4. log[o] \in Seq(Row) /\ r \in Row BY <1>0, <2>1 DEF PartiesTyped, NewRow
  <2>5. \A i \in DOMAIN log'[o] : (i \in DOMAIN log[o] /\ log'[o][i] = log[o][i]) \/ log'[o][i] = r
    BY <2>1, <2>4, AppendedRows
  <2>6. at[o] # "new" BY <1>0, <2>1 DEF Ordered
  <2>7. at[o] \in {"acquired", "reacquired"} =>
            \A i \in DOMAIN log'[o] : log'[o][i].lease < leaseID[o]
    BY <1>0, <2>2, <2>5 DEF Ordered
  <2>8. at[o] \in {"owned", "reserving"} =>
            \A i \in DOMAIN log'[o] : log'[o][i].lease = leaseID[o] => log'[o][i].event # "reserved"
    BY <1>0, <2>2, <2>5 DEF Ordered
  <2>9. at'[o] = at[o] /\ verdict'[o] = verdict[o] /\ leaseID'[o] = leaseID[o] BY <2>1 DEF Goes
  <2>. QED BY <1>0, <2>1, <2>3, <2>6, <2>7, <2>8, <2>9 DEF Ordered
<1>. QED
  BY <1>2, <1>3, <1>4, <1>5, <1>6, <1>7, <1>8, <1>9, <1>10, <1>11, <1>12, <1>13, <1>14, <1>15,
     <1>16, <1>17, <1>18, <1>19, <1>20 DEF Actor, Wrapper

\* An operation past its run stays there and gets no other lease; what is still written
\* about it does not announce one.
Trails(o) ==
    /\ at'[o] \in Past /\ leaseID'[o] = leaseID[o]
    /\ \/ log'[o] = log[o]
       \/ \E r : NewRow(o, r) /\ r.event # "reacquired" /\ log'[o] = Append(log[o], r)

LEMMA AddedTrails ==
    ASSUME NEW o \in Ops, NEW r, NewRow(o, r), r.event # "reacquired", Adds(o, r) \/ log'[o] = log[o],
           at'[o] \in Past, leaseID'[o] = leaseID[o]
    PROVE  Trails(o)
BY DEF Adds, Trails

LEMMA PastTrails ==
    ASSUME PartiesInv, NEW o \in Ops, Actor(o), at[o] \in Past
    PROVE  Trails(o)
<1>0. PartiesTyped /\ Ordered(o) BY DEF PartiesInv
<1>1. CASE RecordQueued(o) \/ AdmissionEnds(o) \/ RegisterWaiter(o) \/ Acquire(o) \/ GiveUp(o)
  BY <1>1 DEF RecordQueued, AdmissionEnds, RegisterWaiter, Acquire, GiveUp, Past
<1>2. CASE RecordAcquired(o) \/ ReserveForPressure(o) \/ RecordReserved(o) \/ AbandonStart(o)
  BY <1>2 DEF RecordAcquired, ReserveForPressure, RecordReserved, AbandonStart, Past
<1>3. CASE BindPID(o) \/ RecordStarted(o) \/ ProbeRace(o) \/ CancelSignal(o)
  BY <1>3 DEF BindPID, RecordStarted, ProbeRace, CancelSignal, Past
<1>4. CASE ChildExit(o)
  <2>1. at[o] # "running" BY DEF Past
  <2>2. Goes(o, "dead") /\ Same(o) BY <1>4, <2>1, ChildStep
  <2>. QED BY <2>2, PointsAre DEF Trails, Goes, Same
<1>5. CASE RecordTerminal(o)
  <2>1. /\ at[o] \in {"record", "receipt", "reap"} /\ (Adds(o, TerminalRow(o)) \/ Same(o))
        /\ Goes(o, IF at[o] = "record" THEN "leaving" ELSE "finalize")
    BY <1>5, TerminalStep
  <2>2. NewRow(o, TerminalRow(o)) /\ TerminalRow(o).event # "reacquired"
    BY <1>0, <2>1, PointsAre, TerminalIs, EventsAre DEF Ordered
  <2>. QED BY <2>1, <2>2, AddedTrails, PointsAre DEF Goes, Same
<1>6. CASE Release(o)
  <2>1. Goes(o, IF at[o] = "release" THEN "record" ELSE "leaving") /\ log'[o] = log[o]
    BY <1>6, ReleaseStep DEF Same
  <2>. QED BY <2>1, PointsAre DEF Trails, Goes
<1>7. CASE Exit(o) \/ Crash(o)
  <2>1. (Goes(o, "done") \/ Goes(o, "dead")) /\ log'[o] = log[o]
    BY <1>7, ExitStep, CrashStep DEF Same
  <2>. QED BY <2>1, PointsAre DEF Trails, Goes
<1>8. CASE Age(o)
  <2>1. Goes(o, at[o]) /\ log'[o] = log[o] BY <1>8, AgeStep DEF Same
  <2>. QED BY <2>1 DEF Trails, Goes
<1>9. CASE OverrideWaiter(o)
  <2>1. /\ Goes(o, at[o]) /\ NewRow(o, Plain(o, "override_requested", 0))
        /\ log'[o] = Append(log[o], Plain(o, "override_requested", 0))
    BY <1>9, OverrideStep
  <2>2. Plain(o, "override_requested", 0).event # "reacquired" BY DEF Plain
  <2>. QED BY <2>1, <2>2 DEF Trails, Goes
<1>. QED BY <1>1, <1>2, <1>3, <1>4, <1>5, <1>6, <1>7, <1>8, <1>9 DEF Actor, Wrapper

LEMMA AsideTrails ==
    ASSUME PartiesInv, NEW q \in Ops, Aside(q), at[q] \in Past
    PROVE  Trails(q)
<1>1. NewRow(q, ExpiredRow(q)) /\ ExpiredRow(q).event # "reacquired"
  BY ExpiredIs DEF PartiesInv
<1>. QED BY <1>1 DEF Aside, Swept, Trails

LEMMA ActorDrop ==
    ASSUME NEW o \in Ops, Actor(o)
    PROVE  drop' = drop \/ CancelSignal(o)
BY DEF Actor, Wrapper, Crash, ProbeRace, Age, OverrideWaiter, RecordQueued, AdmissionEnds,
       RegisterWaiter, Acquire, GiveUp, RecordAcquired, ReserveForPressure, RecordReserved,
       AbandonStart, BindPID, RecordStarted, ChildExit, RecordTerminal, Release, Exit, Elsewhere

LEMMA DropOrdered ==
    ASSUME PartiesInv, DropLeaseAppend, NEW o \in Ops, o = drop.op
    PROVE  Logged(o) /\ leaseID'[o] = leaseID[o] /\ Ordered(o)' /\ Trails(o)
<1>1. /\ o \in Ops /\ Goes(o, at[o]) /\ at[o] \in Past /\ drop'.op = drop.op
      /\ Adds(o, CancelledRow(o)) \/ log'[o] = log[o]
  BY DropStep DEF PartiesInv, CancelledPast
<1>3. PartiesTyped /\ Ordered(o) BY <1>1 DEF PartiesInv
<1>4. NewRow(o, CancelledRow(o)) /\ CancelledRow(o).event # "reacquired"
  BY <1>1, <1>3, CancelledIs
<1>5. Logged(o) BY <1>1, <1>4, AddedLogs DEF Logged
<1>6. Trails(o) BY <1>1, <1>4, AddedTrails DEF Goes
<1>7. /\ at'[o] = at[o] /\ verdict'[o] = verdict[o] /\ leaseID'[o] = leaseID[o]
      /\ at[o] \notin {"new", "admission", "waiting", "acquired", "owned", "reserving", "reserved",
                       "reacquired", "bound", "running"}
  BY <1>1, PointsAre DEF Goes
<1>8. /\ at'[o] = "receipt" \/ at'[o] = "reap" => leaseID'[o] > 0
      /\ at'[o] \in Past \ {"done", "dead"} => verdict'[o].kind # "none"
      /\ verdict'[o].lease <= leaseID'[o]
  BY <1>3, <1>7 DEF Ordered
<1>9. Ordered(o)' BY <1>7, <1>8 DEF Ordered
<1>. QED BY <1>5, <1>6, <1>7, <1>9

LEMMA NextIs ==
    ASSUME [Next]_vars
    PROVE  Nobody \/ DropLeaseAppend \/ \E o \in Ops : Actor(o)
BY DEF Next, Nobody, Actor, Finished

LEMMA PartiesStep ==
    ASSUME PartiesInv, [Next]_vars
    PROVE  /\ PartiesInv' /\ Grow
           /\ \A q \in Ops : Logged(q) /\ leaseID'[q] >= leaseID[q] /\ (at[q] \in Past => Trails(q))
<1>0. PartiesTyped /\ OwnRows /\ CancelledPast /\ \A q \in Ops : leaseID[q] \in Nat
  BY DEF PartiesInv, PartiesTyped
<1>. DEFINE Good(q) == /\ Logged(q) /\ leaseID'[q] >= leaseID[q] /\ Ordered(q)'
                       /\ at[q] \in Past => Trails(q)
<1>1. ASSUME NEW q \in Ops, Aside(q) PROVE Good(q)
  BY <1>0, <1>1, AsideOrdered, AsideTrails
<1>2. PartiesTyped' /\ Grow /\ \A q \in Ops : Good(q)
  <2>1. CASE Nobody
    <3>1. PartiesTyped' /\ Grow /\ \A q \in Ops : Aside(q)
      BY <1>0, <2>1, NobodyIs DEF Grow
    <3>. QED BY <1>1, <3>1
  <2>2. CASE DropLeaseAppend
    <3>1. /\ PartiesTyped' /\ Grow /\ \A q \in Ops : q # drop.op => Aside(q)
      BY <2>2, DropStep
    <3>2. ASSUME NEW q \in Ops, q = drop.op PROVE Good(q)
      BY <1>0, <2>2, <3>2, DropOrdered
    <3>. QED BY <1>1, <3>1, <3>2
  <2>3. ASSUME NEW o \in Ops, Actor(o) PROVE PartiesTyped' /\ Grow /\ \A q \in Ops : Good(q)
    <3>1. PartiesTyped' /\ Apart(o) /\ Grow /\ Logged(o) /\ leaseID'[o] >= leaseID[o] /\ Ordered(o)'
      BY <2>3, OwnOrdered
    <3>2. at[o] \in Past => Trails(o) BY <2>3, PastTrails
    <3>. QED BY <1>1, <3>1, <3>2 DEF Apart
  <2>. QED BY <2>1, <2>2, <2>3, NextIs
<1>3. OwnRows'
  <2>1. \A q \in Ops : leaseID'[q] \in Nat BY <1>2 DEF PartiesTyped
  <2>2. \A q \in Ops : (\A i \in DOMAIN log[q] : NewRow(q, log[q][i]))'
    BY <1>0, <1>2, <2>1, OwnRowsKept
  <2>. QED BY <2>2 DEF OwnRows
<1>4. CancelledPast'
  <2>1. CASE drop'.op = drop.op
    <3>1. drop.op \in Ops => Trails(drop.op) BY <1>0, <1>2 DEF CancelledPast
    <3>. QED BY <2>1, <3>1 DEF CancelledPast, Trails
  <2>2. ASSUME NEW o \in Ops, CancelSignal(o) PROVE CancelledPast'
    <3>1. drop'.op = o /\ at'[o] = "reap" BY <2>2, SignalStep DEF Gives
    <3>. QED BY <3>1, PointsAre DEF CancelledPast
  <2>3. drop'.op = drop.op \/ \E o \in Ops : CancelSignal(o)
    BY <1>0, NextIs, NobodyIs, DropStep, ActorDrop
  <2>. QED BY <2>1, <2>2, <2>3
<1>. QED BY <1>2, <1>3, <1>4 DEF PartiesInv

LEMMA PartiesInit == Init => PartiesInv
<1>. SUFFICES ASSUME Init PROVE PartiesInv OBVIOUS
<1>. DEFINE d == [op |-> NoOp, stage |-> "none"]
            z == [kind |-> "none", lease |-> 0]
<1>1. /\ log = [o \in Ops |-> <<>>] /\ torn = "none" /\ place = [o \in Ops |-> "absent"]
      /\ leaseID = [o \in Ops |-> 0] /\ at = [o \in Ops |-> "new"]
      /\ verdict = [o \in Ops |-> z] /\ child = [o \in Ops |-> "none"]
      /\ aged = [o \in Ops |-> FALSE] /\ drop = d /\ stuck = {}
  BY DEF Init
<1>2. /\ d \in [op : Ops \cup {NoOp}, stage : {"none", "signalled", "locked", "over"}]
      /\ d.stage = "none" /\ d.op \notin Ops
  BY EventsAssumption
<1>3. z \in [kind : Kinds, lease : Nat] /\ z.lease = 0 BY DEF Kinds
<1>. HIDE DEF d, z
<1>4. /\ log \in [Ops -> Seq(Row)] /\ place \in [Ops -> Where] /\ leaseID \in [Ops -> Nat]
      /\ child \in [Ops -> {"none", "live", "gone"}] /\ aged \in [Ops -> BOOLEAN]
      /\ at \in [Ops -> Points]
  BY <1>1, PlaceNames, PointsAre
<1>5. verdict \in [Ops -> [kind : Kinds, lease : Nat]] BY <1>1, <1>3
<1>6. PartiesTyped BY <1>1, <1>2, <1>4, <1>5 DEF PartiesTyped
<1>7. OwnRows BY <1>1 DEF OwnRows
<1>8. CancelledPast BY <1>1, <1>2 DEF CancelledPast
<1>9. "new" \notin Past BY PointsAre
<1>10. \A o \in Ops : Ordered(o) BY <1>1, <1>3, <1>9 DEF Ordered
<1>. QED BY <1>6, <1>7, <1>8, <1>10 DEF PartiesInv

LEMMA PartiesAlways == Spec => []PartiesInv
BY PartiesInit, PartiesStep, PTL DEF Spec

(***************************************************************************)
(* The statistics.                                                         *)
(***************************************************************************)
Remembers ==
    \A o \in Ops :
        /\ Lifecycle(log[o]) \in LifeState
        /\ Lifecycle(log[o]).bad = FALSE => ReadAs(log[o], Lifecycle(log[o]))

LEMMA RemembersInit == Init => Remembers
<1>. SUFFICES ASSUME Init, NEW o \in Ops
              PROVE  /\ Lifecycle(log[o]) \in LifeState
                     /\ ReadAs(log[o], Lifecycle(log[o]))
  BY DEF Remembers
<1>1. log[o] = <<>> BY DEF Init
<1>2. Lifecycle(log[o]) = NewLifecycle BY <1>1, LifecycleOfNone
<1>3. EventsIn(<<>>) = {} /\ EndsOf(<<>>) = {} BY DEF EventsIn, EndsOf
<1>4. ReadAs(<<>>, NewLifecycle) BY <1>3, NewIs DEF ReadAs
<1>. QED BY <1>1, <1>2, <1>4, NewIs

LEMMA RemembersStep ==
    ASSUME PartiesInv, Remembers, [Next]_vars
    PROVE  Remembers'
<1>1. ASSUME NEW o \in Ops
      PROVE  /\ Lifecycle(log'[o]) \in LifeState
             /\ Lifecycle(log'[o]).bad = FALSE => ReadAs(log'[o], Lifecycle(log'[o]))
  <2>1. /\ Lifecycle(log[o]) \in LifeState
        /\ Lifecycle(log[o]).bad = FALSE => ReadAs(log[o], Lifecycle(log[o]))
    BY DEF Remembers
  <2>2. CASE log'[o] = log[o] BY <2>1, <2>2
  <2>3. ASSUME NEW r, NewRow(o, r), log'[o] = Append(log[o], r)
        PROVE  /\ Lifecycle(log'[o]) \in LifeState
               /\ Lifecycle(log'[o]).bad = FALSE => ReadAs(log'[o], Lifecycle(log'[o]))
    <3>1. log[o] \in Seq(Row) /\ r \in Row BY <2>3 DEF PartiesInv, PartiesTyped, NewRow
    <3>2. Lifecycle(log'[o]) = AddEvent(Lifecycle(log[o]), r) BY <2>3, <3>1, LifecycleAppend
    <3>3. AddEvent(Lifecycle(log[o]), r) \in LifeState BY <2>1, <3>1, AddTyped
    <3>4. AddEvent(Lifecycle(log[o]), r).bad = FALSE
          => ReadAs(Append(log[o], r), AddEvent(Lifecycle(log[o]), r))
      BY <2>1, <3>1, AddReads
    <3>. QED BY <2>3, <3>2, <3>3, <3>4
  <2>4. Logged(o) BY PartiesStep
  <2>. QED BY <2>2, <2>3, <2>4 DEF Logged
<1>. QED BY <1>1 DEF Remembers

LEMMA RemembersAlways == Spec => [](PartiesInv /\ Remembers)
<1>1. Init => PartiesInv /\ Remembers BY PartiesInit, RemembersInit
<1>2. PartiesInv /\ Remembers /\ [Next]_vars => PartiesInv' /\ Remembers'
  BY PartiesStep, RemembersStep
<1>. QED BY <1>1, <1>2, PTL DEF Spec

LEMMA ReadOrSkipped ==
    ASSUME PartiesInv, Remembers, NEW o \in Ops
    PROVE  /\ log[o] \in Seq(Row) /\ Lifecycle(log[o]).bad \in BOOLEAN
           /\ Lifecycle(log[o]).bad = FALSE => ReadAs(log[o], Lifecycle(log[o]))
BY DEF PartiesInv, PartiesTyped, Remembers, LifeState

LEMMA CountedReceipts ==
    ASSUME PartiesInv, Remembers
    PROVE  ReceiptCounts
<1>. SUFFICES ASSUME NEW o \in Ops, NEW i \in DOMAIN ReadAll(log[o]), ReadAll(log[o])[i].exit
              PROVE  Summary(ReadAll(log[o])).outcome = ReadAll(log[o])[i].event
  BY DEF ReceiptCounts
<1>1. Lifecycle(log[o]).bad = FALSE /\ ReadAll(log[o]) = log[o]
  BY ReadOrSkipped DEF ReadAll
<1>2. i \in DOMAIN log[o] /\ log[o][i].exit /\ NewRow(o, log[o][i])
  BY <1>1 DEF PartiesInv, OwnRows
<1>3. log[o][i].exit = TRUE BY <1>2 DEF NewRow, Row
<1>4. log[o][i].event \in Receipts BY <1>2, <1>3 DEF NewRow
<1>5. i \in EndsOf(log[o]) /\ log[o][i].event # "expired"
  BY <1>2, <1>4, EventsAre DEF EndsOf, IsWorkTerminalEvent
<1>6. Summary(log[o])
      = [outcome |-> log[o][i].event, interrupt |-> IsWrapperInterruptEvent(log[o][i])]
  <2>1. \A x, y \in EndsOf(log[o]) : x < y => Settles(log[o][x], log[o][y])
    BY <1>1, ReadOrSkipped DEF ReadAs
  <2>. QED BY <1>1, <1>5, <2>1, ReadOrSkipped, RealCounts
<1>. QED BY <1>1, <1>6

(***************************************************************************)
(* The two counts of interrupted operations.                               *)
(***************************************************************************)
LEMMA JudgedTyped ==
    ASSUME NEW rows \in Seq(Row), NEW g, Judged(g, rows, Len(rows))
    PROVE  \A k \in 0..Len(rows) : g[k] \in LifeState
<1>. DEFINE n == Len(rows)
            S == {k \in 0..n : g[k] \notin LifeState}
<1>. SUFFICES ASSUME S # {} PROVE FALSE OBVIOUS
<1>0. S \in SUBSET Nat /\ n \in Nat OBVIOUS
<1>1. PICK m \in S : \A k \in S : m <= k BY <1>0, LeastOf
<1>2. g[0] = NewLifecycle /\ \A k \in 1..n : g[k] = AddEvent(g[k - 1], rows[k])
  BY <1>0, JudgedOne
<1>3. m # 0 /\ m \in 0..n BY <1>1, <1>2, NewIs
<1>4. m \in 1..n /\ m - 1 \in 0..n /\ m - 1 < m BY <1>3
<1>5. m - 1 \notin S BY <1>1, <1>4
<1>6. g[m - 1] \in LifeState /\ rows[m] \in Row BY <1>4, <1>5
<1>7. g[m] \in LifeState BY <1>2, <1>4, <1>6, AddTyped
<1>. QED BY <1>1, <1>7

LEMMA PrefixJudged ==
    ASSUME NEW rows \in Seq(Row), NEW g, Judged(g, rows, Len(rows)), NEW k \in 0..Len(rows)
    PROVE  Lifecycle(SubSeq(rows, 1, k)) = g[k]
<1>. DEFINE t == SubSeq(rows, 1, k)
<1>1. Len(t) = k /\ k \in Nat /\ Len(rows) \in Nat /\ k <= Len(rows) /\ \A i \in 1..k : t[i] = rows[i]
  OBVIOUS
<1>. HIDE DEF t
<1>2. PICK h : Judged(h, t, k) BY <1>1, JudgedExists
<1>3. h[k] = g[k] BY <1>1, <1>2, JudgedAlike
<1>. QED BY <1>1, <1>2, <1>3, LifecycleIs DEF t

\* What holds of every history the validator accepts.
LEMMA GoodReads ==
    ASSUME NEW rows \in Seq(Row), Lifecycle(rows).bad = FALSE
    PROVE  ReadAs(rows, Lifecycle(rows))
<1>. DEFINE n == Len(rows)
            to(k) == SubSeq(rows, 1, k)
            S == {k \in 0..n : ~ReadAs(to(k), Lifecycle(to(k)))}
<1>0. S \in SUBSET Nat /\ n \in Nat /\ to(n) = rows /\ n \in 0..n OBVIOUS
<1>. SUFFICES ASSUME S # {} PROVE FALSE BY <1>0
<1>1. PICK m \in S : \A k \in S : m <= k BY <1>0, LeastOf
<1>2. PICK g : Judged(g, rows, n) BY <1>0, JudgedExists
<1>3. \A k \in 0..n : Lifecycle(to(k)) = g[k] /\ g[k] \in LifeState
  BY <1>2, PrefixJudged, JudgedTyped
<1>4. g[n].bad = FALSE BY <1>0, <1>3
<1>5. m # 0 /\ m \in 0..n
  <2>1. to(0) = <<>> OBVIOUS
  <2>2. EventsIn(<<>>) = {} /\ EndsOf(<<>>) = {} BY DEF EventsIn, EndsOf
  <2>3. ReadAs(<<>>, NewLifecycle) BY <2>2, NewIs DEF ReadAs
  <2>. QED BY <1>1, <2>1, <2>3, LifecycleOfNone
<1>6. m \in 1..n /\ m - 1 \in 0..n /\ m - 1 < m BY <1>5
<1>7. m - 1 \notin S BY <1>1, <1>6
<1>8. ReadAs(to(m - 1), g[m - 1]) BY <1>3, <1>6, <1>7
<1>9. to(m - 1) \in Seq(Row) /\ rows[m] \in Row /\ to(m) = Append(to(m - 1), rows[m])
  BY <1>6
<1>10. g[m] = AddEvent(g[m - 1], rows[m]) BY <1>0, <1>2, <1>6, JudgedOne
<1>11. g[m].bad = FALSE
  <2>1. ~g[m].bad BY <1>0, <1>2, <1>4, <1>5, BadStays
  <2>. QED BY <1>3, <1>5, <2>1 DEF LifeState
<1>. HIDE DEF to
<1>12. g[m - 1] \in LifeState BY <1>3, <1>6
<1>13. ReadAs(to(m), g[m]) BY <1>8, <1>9, <1>10, <1>11, <1>12, AddReads
<1>. QED BY <1>1, <1>3, <1>5, <1>13

(***************************************************************************)
(* A reader that begins after some rows, the reservation closed, accepts   *)
(* what a reader of all of them accepts: B is what it remembers, and A     *)
(* what the other does.                                                    *)
(***************************************************************************)
Alike(A, B) ==
    /\ B.bad = FALSE
    /\ B.seen \subseteq A.seen
    /\ B.order = -1 \/ B.order = A.order
    /\ B.lease = 0 \/ B.lease = A.lease
    /\ B.reserved = A.reserved
    /\ \/ B.terminal = NoRow
       \/ B.terminal = A.terminal
       \/ A.terminal # NoRow /\ A.terminal.event # "expired" /\ "expired" \in A.seen

LEMMA AlikeAccepts ==
    ASSUME NEW A \in LifeState, NEW B \in LifeState, NEW r \in Row, Alike(A, B), ~Refused(A, r)
    PROVE  ~Refused(B, r)
<1>1. ~(r.event \in B.seen \ Repeatable) BY DEF Alike, Refused
<1>2. B.terminal # NoRow => A.terminal # NoRow BY DEF Alike
<1>3. ~OutOfOrder(B, r)
  <2>1. WorkEventOrder(r.event) \in 0..6 BY OrderIs
  <2>2. ~OutOfOrder(A, r) BY DEF Refused
  <2>3. A.order \in -1..6 /\ B.order \in -1..6 BY DEF LifeState
  <2>4. CASE r.event = "override_requested" BY <1>2, <2>2, <2>4 DEF OutOfOrder
  <2>5. CASE r.event # "override_requested" /\ B.order = -1 BY <2>1, <2>5 DEF OutOfOrder
  <2>6. CASE r.event # "override_requested" /\ B.order = A.order
    BY <2>2, <2>6 DEF OutOfOrder, Alike
  <2>. QED BY <2>4, <2>5, <2>6 DEF Alike
<1>4. ~(r.lease # 0 /\ B.lease # 0 /\ B.lease # r.lease /\ ~(r.event = "reacquired" /\ B.reserved))
  BY DEF Alike, Refused
<1>5. ~(r.event = "reserved" /\ B.reserved) /\ ~(r.event = "reacquired" /\ ~B.reserved)
  BY DEF Alike, Refused
<1>6. ~BadTerminal(B, r)
  <2>1. ~BadTerminal(A, r) BY DEF Refused
  <2>2. CASE B.terminal = NoRow BY <2>2 DEF BadTerminal
  <2>3. CASE B.terminal = A.terminal BY <2>1, <2>3 DEF BadTerminal
  <2>4. CASE A.terminal # NoRow /\ A.terminal.event # "expired" /\ "expired" \in A.seen
    <3>1. r.event # "expired" BY <2>4 DEF Refused, Repeatable
    <3>2. ~IsLateRealTerminalAfterReconciliation(A.terminal, r)
      BY <2>4 DEF IsLateRealTerminalAfterReconciliation
    <3>. QED BY <2>1, <2>4, <3>1, <3>2 DEF BadTerminal
  <2>. QED BY <2>2, <2>3, <2>4 DEF Alike
<1>. QED BY <1>1, <1>3, <1>4, <1>5, <1>6 DEF Refused

LEMMA AlikeStays ==
    ASSUME NEW A \in LifeState, NEW B \in LifeState, NEW r \in Row, Alike(A, B), A.bad = FALSE,
           ~Refused(A, r)
    PROVE  Alike(AddEvent(A, r), AddEvent(B, r))
<1>1. ~Refused(B, r) BY AlikeAccepts
<1>2. B.bad = FALSE BY DEF Alike
<1>. DEFINE X == AddEvent(A, r)
            Y == AddEvent(B, r)
<1>3. /\ X.order = (IF r.event = "override_requested" THEN A.order ELSE WorkEventOrder(r.event))
      /\ X.seen = A.seen \cup {r.event}
      /\ X.lease = (IF r.lease # 0 THEN r.lease ELSE A.lease)
      /\ X.reserved = (IF r.event = "reacquired" THEN FALSE
                       ELSE IF r.event = "reserved" THEN TRUE ELSE A.reserved)
      /\ X.terminal = (IF r.event \in Terminals /\ (A.terminal = NoRow \/ r.event # "expired")
                       THEN r ELSE A.terminal)
  BY AddIs
<1>4. /\ Y.bad = FALSE
      /\ Y.order = (IF r.event = "override_requested" THEN B.order ELSE WorkEventOrder(r.event))
      /\ Y.seen = B.seen \cup {r.event}
      /\ Y.lease = (IF r.lease # 0 THEN r.lease ELSE B.lease)
      /\ Y.reserved = (IF r.event = "reacquired" THEN FALSE
                       ELSE IF r.event = "reserved" THEN TRUE ELSE B.reserved)
      /\ Y.terminal = (IF r.event \in Terminals /\ (B.terminal = NoRow \/ r.event # "expired")
                       THEN r ELSE B.terminal)
  BY <1>1, <1>2, AddIs
<1>. HIDE DEF X, Y
<1>5. Y.seen \subseteq X.seen BY <1>3, <1>4 DEF Alike
<1>6. Y.order = -1 \/ Y.order = X.order BY <1>3, <1>4 DEF Alike
<1>7. Y.lease = 0 \/ Y.lease = X.lease BY <1>3, <1>4 DEF Alike
<1>8. Y.reserved = X.reserved BY <1>3, <1>4 DEF Alike
<1>9. \/ Y.terminal = NoRow
      \/ Y.terminal = X.terminal
      \/ X.terminal # NoRow /\ X.terminal.event # "expired" /\ "expired" \in X.seen
  <2>1. CASE r.event \notin Terminals
    <3>1. X.terminal = A.terminal /\ Y.terminal = B.terminal BY <1>3, <1>4, <2>1
    <3>. QED BY <1>3, <3>1 DEF Alike
  <2>2. CASE r.event \in Terminals /\ r.event # "expired" BY <1>3, <1>4, <2>2
  <2>3. CASE r.event = "expired" /\ A.terminal = NoRow
    <3>1. r.event \in Terminals BY <2>3 DEF Terminals
    <3>2. B.terminal = NoRow BY <2>3 DEF Alike
    <3>. QED BY <1>3, <1>4, <2>3, <3>1, <3>2
  <2>4. CASE r.event = "expired" /\ A.terminal # NoRow
    <3>1. r.event \in Terminals BY <2>4 DEF Terminals
    <3>2. A.terminal.event # "expired"
      BY <2>4, <3>1 DEF Refused, BadTerminal, IsWorkTerminalEvent, IsLateRealTerminalAfterReconciliation
    <3>3. X.terminal = A.terminal /\ "expired" \in X.seen BY <1>3, <2>4
    <3>. QED BY <2>4, <3>2, <3>3
  <2>. QED BY <2>1, <2>2, <2>3, <2>4
<1>10. Alike(X, Y) BY <1>4, <1>5, <1>6, <1>7, <1>8, <1>9 DEF Alike
<1>. QED BY <1>10 DEF X, Y

LEMMA SuffixAccepted ==
    ASSUME NEW rows \in Seq(Row), NEW k \in 0..Len(rows), Lifecycle(rows).bad = FALSE,
           ~Lifecycle(SubSeq(rows, 1, k)).reserved
    PROVE  Lifecycle(SubSeq(rows, k + 1, Len(rows))).bad = FALSE
<1>. DEFINE n == Len(rows)
            t == SubSeq(rows, k + 1, n)
<1>1. n \in Nat /\ k \in Nat /\ n - k \in Nat OBVIOUS
<1>2. t \in Seq(Row) /\ Len(t) = n - k /\ \A i \in 1..(n - k) : t[i] = rows[k + i] OBVIOUS
<1>3. PICK g : Judged(g, rows, n) BY <1>1, JudgedExists
<1>4. PICK h : Judged(h, t, n - k) BY <1>1, JudgedExists
<1>. HIDE DEF t
<1>5. /\ \A i \in 0..n : g[i] \in LifeState
      /\ \A i \in 0..(n - k) : h[i] \in LifeState
  BY <1>2, <1>3, <1>4, JudgedTyped
<1>6. \A i \in 1..n : g[i] = AddEvent(g[i - 1], rows[i]) BY <1>1, <1>3, JudgedOne
<1>7. h[0] = NewLifecycle /\ \A i \in 1..(n - k) : h[i] = AddEvent(h[i - 1], t[i])
  BY <1>1, <1>4, JudgedOne
<1>8. \A i \in 0..n : g[i].bad = FALSE
  <2>1. g[n].bad = FALSE BY <1>1, <1>3, LifecycleIs
  <2>2. ASSUME NEW i \in 0..n PROVE g[i].bad = FALSE
    <3>1. ~g[i].bad BY <1>1, <1>3, <2>1, BadStays
    <3>. QED BY <1>5, <3>1 DEF LifeState
  <2>. QED BY <2>2
<1>9. g[k].reserved = FALSE
  <2>1. Lifecycle(SubSeq(rows, 1, k)) = g[k] BY <1>3, PrefixJudged
  <2>. QED BY <1>5, <2>1 DEF LifeState
<1>. DEFINE S == {i \in 0..(n - k) : ~Alike(g[k + i], h[i])}
<1>10. S = {}
  <2>. SUFFICES ASSUME S # {} PROVE FALSE OBVIOUS
  <2>0. S \in SUBSET Nat BY <1>1
  <2>1. PICK m \in S : \A i \in S : m <= i BY <2>0, LeastOf
  <2>2. Alike(g[k], NewLifecycle) BY <1>9, NewIs DEF Alike
  <2>3. m # 0 /\ m \in 0..(n - k) BY <1>1, <1>7, <2>1, <2>2
  <2>4. /\ m \in 1..(n - k) /\ m - 1 \in 0..(n - k) /\ m - 1 < m
        /\ k + m \in 1..n /\ k + (m - 1) = (k + m) - 1 /\ (k + m) - 1 \in 0..n
    BY <1>1, <2>3
  <2>5. m - 1 \notin S BY <2>1, <2>4
  <2>6. Alike(g[(k + m) - 1], h[m - 1]) BY <2>4, <2>5
  <2>7. g[k + m] = AddEvent(g[(k + m) - 1], rows[k + m]) BY <1>6, <2>4
  <2>8. h[m] = AddEvent(h[m - 1], rows[k + m]) BY <1>2, <1>7, <2>4
  <2>9. /\ rows[k + m] \in Row
        /\ g[(k + m) - 1] \in LifeState /\ h[m - 1] \in LifeState
    BY <1>5, <2>4
  <2>10. g[(k + m) - 1].bad = FALSE /\ ~Refused(g[(k + m) - 1], rows[k + m])
    <3>1. k + m \in 0..n BY <1>1, <2>4
    <3>2. AddEvent(g[(k + m) - 1], rows[k + m]).bad = FALSE BY <1>8, <2>7, <3>1
    <3>. QED BY <2>9, <3>2, AddedGood
  <2>11. Alike(g[k + m], h[m]) BY <2>6, <2>7, <2>8, <2>9, <2>10, AlikeStays
  <2>. QED BY <2>1, <2>11
<1>11. h[n - k].bad = FALSE
  <2>1. n - k \in 0..(n - k) BY <1>1
  <2>. QED BY <1>10, <2>1 DEF Alike
<1>12. Lifecycle(t) = h[n - k] BY <1>1, <1>2, <1>4, LifecycleIs
<1>. QED BY <1>11, <1>12 DEF t

(***************************************************************************)
(* The streamed count of the shards.                                       *)
(***************************************************************************)
TimedRow == [time : Nat, row : Row]
Hit(shards, j, n) == \E i \in 1..n : shards[i].time > j /\ IsWrapperInterruptEvent(shards[i].row)

StreamedOne(h, shards, j, n) ==
    h = [k \in 0..n |-> IF k = 0 THEN [life |-> NewLifecycle, interrupted |-> FALSE]
                        ELSE StreamStep(h[k - 1], shards[k].row, shards[k].time > j)]

LEMMA StreamedParts ==
    ASSUME NEW h, NEW shards, NEW j, NEW n \in Nat, StreamedOne(h, shards, j, n)
    PROVE  /\ h[0] = [life |-> NewLifecycle, interrupted |-> FALSE]
           /\ \A k \in 1..n : h[k] = StreamStep(h[k - 1], shards[k].row, shards[k].time > j)
<1>. DEFINE e(k) == IF k = 0 THEN [life |-> NewLifecycle, interrupted |-> FALSE]
                    ELSE StreamStep(h[k - 1], shards[k].row, shards[k].time > j)
<1>1. h = [k \in 0..n |-> e(k)] BY DEF StreamedOne
<1>2. \A k \in 0..n : h[k] = e(k) BY <1>1
<1>3. 0 \in 0..n /\ \A k \in 1..n : k \in 0..n /\ k # 0 OBVIOUS
<1>4. h[0] = [life |-> NewLifecycle, interrupted |-> FALSE] BY <1>2, <1>3
<1>. QED BY <1>2, <1>3, <1>4

LEMMA StreamedAlike ==
    ASSUME NEW g, NEW h, NEW shards, NEW j, NEW n \in Nat,
           StreamedOne(g, shards, j, n), StreamedOne(h, shards, j, n)
    PROVE  g[n] = h[n]
<1>. DEFINE S == {k \in 0..n : g[k] # h[k]}
<1>. SUFFICES ASSUME S # {} PROVE FALSE OBVIOUS
<1>0. S \in SUBSET Nat OBVIOUS
<1>1. PICK i \in S : \A k \in S : i <= k BY <1>0, LeastOf
<1>2. /\ g[0] = h[0]
      /\ \A k \in 1..n : g[k] = StreamStep(g[k - 1], shards[k].row, shards[k].time > j)
      /\ \A k \in 1..n : h[k] = StreamStep(h[k - 1], shards[k].row, shards[k].time > j)
  BY StreamedParts
<1>3. i # 0 /\ i \in 0..n BY <1>1, <1>2
<1>4. i \in 1..n /\ i - 1 \in 0..n /\ i - 1 < i BY <1>3
<1>5. i - 1 \notin S BY <1>1, <1>4
<1>6. g[i - 1] = h[i - 1] BY <1>4, <1>5
<1>7. g[i] = h[i] BY <1>2, <1>4, <1>6
<1>. QED BY <1>1, <1>7

LEMMA StreamStepIs ==
    ASSUME NEW st, NEW b \in BOOLEAN, NEW r, NEW w
    PROVE  StreamStep([life |-> st, interrupted |-> b], r, w)
           = [life |-> AddEvent(st, r),
              interrupted |-> ~AddEvent(st, r).bad /\ (b \/ (w /\ IsWrapperInterruptEvent(r)))]
<1>. DEFINE s == [life |-> st, interrupted |-> b]
<1>1. s.life = st /\ s.interrupted = b OBVIOUS
<1>. HIDE DEF s
<1>2. StreamStep(s, r, w) = [life |-> AddEvent(s.life, r),
              interrupted |-> ~AddEvent(s.life, r).bad
                              /\ (s.interrupted \/ (w /\ IsWrapperInterruptEvent(r)))]
  BY Zenon DEF StreamStep
<1>. QED BY <1>1, <1>2 DEF s

LEMMA ShardRows ==
    ASSUME NEW shards \in Seq(TimedRow)
    PROVE  /\ RowsOf(shards) \in Seq(Row) /\ Len(RowsOf(shards)) = Len(shards)
           /\ \A i \in 1..Len(shards) : RowsOf(shards)[i] = shards[i].row /\ shards[i] \in TimedRow
<1>1. Len(shards) \in Nat /\ DOMAIN shards = 1..Len(shards) /\ \A i \in 1..Len(shards) : shards[i] \in TimedRow
  OBVIOUS
<1>2. \A i \in 1..Len(shards) : shards[i].row \in Row BY <1>1 DEF TimedRow
<1>3. RowsOf(shards) = [i \in 1..Len(shards) |-> shards[i].row] BY <1>1 DEF RowsOf
<1>. QED BY <1>1, <1>2, <1>3

\* The stream counts an operation it can read that has an interrupt in the window.
LEMMA StreamedIs ==
    ASSUME NEW shards \in Seq(TimedRow), NEW j
    PROVE  Streamed(shards, j) <=> ~Lifecycle(RowsOf(shards)).bad /\ Hit(shards, j, Len(shards))
<1>. DEFINE n == Len(shards)
            rows == RowsOf(shards)
<1>0. n \in Nat /\ Len(rows) = n /\ \A i \in 1..n : rows[i] = shards[i].row BY ShardRows
<1>. HIDE DEF rows
<1>1. PICK g : Judged(g, rows, n) BY <1>0, JudgedExists
<1>2. /\ g[0] = NewLifecycle
      /\ \A k \in 1..n : g[k] = AddEvent(g[k - 1], shards[k].row)
  BY <1>0, <1>1, JudgedOne
<1>. DEFINE h == [k \in 0..n |-> [life |-> g[k], interrupted |-> ~g[k].bad /\ Hit(shards, j, k)]]
            e(k) == IF k = 0 THEN [life |-> NewLifecycle, interrupted |-> FALSE]
                    ELSE StreamStep(h[k - 1], shards[k].row, shards[k].time > j)
<1>3. h[0] = e(0)
  <2>1. ~Hit(shards, j, 0) BY DEF Hit
  <2>2. 0 \in 0..n BY <1>0
  <2>3. h[0] = [life |-> g[0], interrupted |-> ~g[0].bad /\ Hit(shards, j, 0)] BY <2>2
  <2>4. (~g[0].bad /\ Hit(shards, j, 0)) = FALSE BY <2>1
  <2>. HIDE DEF h
  <2>. QED BY <1>2, <2>3, <2>4
<1>4. ASSUME NEW k \in 1..n PROVE h[k] = e(k)
  <2>1. k \in 0..n /\ k - 1 \in 0..n /\ k # 0 BY <1>0
  <2>2. h[k - 1] = [life |-> g[k - 1], interrupted |-> ~g[k - 1].bad /\ Hit(shards, j, k - 1)]
    BY <2>1
  <2>3. h[k] = [life |-> g[k], interrupted |-> ~g[k].bad /\ Hit(shards, j, k)]
    BY <2>1
  <2>. DEFINE w == shards[k].time > j
              int == IsWrapperInterruptEvent(shards[k].row)
              b == ~g[k - 1].bad /\ Hit(shards, j, k - 1)
  <2>. HIDE DEF h
  <2>4. g[k] = AddEvent(g[k - 1], shards[k].row) BY <1>2
  <2>5. Hit(shards, j, k) <=> Hit(shards, j, k - 1) \/ (w /\ int)
    <3>1. \A i \in 1..k : i = k \/ i \in 1..(k - 1) BY <1>0
    <3>2. \A i \in 1..(k - 1) : i \in 1..k BY <1>0
    <3>3. k \in 1..k BY <1>0
    <3>. QED BY <3>1, <3>2, <3>3 DEF Hit
  <2>6. ~g[k].bad => ~g[k - 1].bad BY <2>4, AddToBad DEF AddEvent
  <2>. HIDE DEF w, int
  <2>7. (~g[k].bad /\ Hit(shards, j, k)) = (~g[k].bad /\ (b \/ (w /\ int))) BY <2>5, <2>6
  <2>8. StreamStep(h[k - 1], shards[k].row, w)
        = [life |-> g[k], interrupted |-> ~g[k].bad /\ (b \/ (w /\ int))]
    <3>1. b \in BOOLEAN /\ h[k - 1] = [life |-> g[k - 1], interrupted |-> b] BY <2>2
    <3>. HIDE DEF b
    <3>2. StreamStep(h[k - 1], shards[k].row, w) = [life |-> AddEvent(g[k - 1], shards[k].row),
              interrupted |-> ~AddEvent(g[k - 1], shards[k].row).bad
                              /\ (b \/ (w /\ IsWrapperInterruptEvent(shards[k].row)))]
      BY <3>1, StreamStepIs
    <3>. QED BY <2>4, <3>2 DEF int
  <2>9. e(k) = StreamStep(h[k - 1], shards[k].row, w) BY <2>1 DEF w
  <2>. HIDE DEF b, e
  <2>. QED BY <2>3, <2>7, <2>8, <2>9
<1>5. \A k \in 0..n : k = 0 \/ k \in 1..n BY <1>0
<1>6. h = [k \in 0..n |-> h[k]] OBVIOUS
<1>. HIDE DEF h
<1>7. \A k \in 0..n : h[k] = e(k)
  <2>. HIDE DEF e
  <2>. QED BY <1>3, <1>4, <1>5
<1>8. [k \in 0..n |-> h[k]] = [k \in 0..n |-> e(k)] BY <1>7
<1>9. StreamedOne(h, shards, j, n) BY <1>6, <1>8 DEF StreamedOne
<1>. DEFINE after == CHOOSE f : f = [i \in 0..n |->
                  IF i = 0 THEN [life |-> NewLifecycle, interrupted |-> FALSE]
                  ELSE StreamStep(f[i - 1], shards[i].row, shards[i].time > j)]
<1>10. Streamed(shards, j) = after[n].interrupted BY DEF Streamed
<1>11. StreamedOne(after, shards, j, n) BY <1>9 DEF StreamedOne
<1>. HIDE DEF after
<1>12. after[n] = h[n] BY <1>0, <1>9, <1>11, StreamedAlike
<1>13. h[n] = [life |-> g[n], interrupted |-> ~g[n].bad /\ Hit(shards, j, n)]
  <2>1. n \in 0..n BY <1>0
  <2>. QED BY <2>1 DEF h
<1>14. Lifecycle(rows) = g[n] BY <1>0, <1>1, LifecycleIs
<1>. DEFINE b == ~g[n].bad /\ Hit(shards, j, n)
<1>15. h[n].interrupted = b BY <1>13
<1>16. Streamed(shards, j) = b BY <1>10, <1>12, <1>15
<1>. QED BY <1>14, <1>16 DEF rows

(***************************************************************************)
(* The count of the statistics.                                            *)
(***************************************************************************)
LEMMA SummedIs ==
    ASSUME NEW rows \in Seq(Row), Lifecycle(rows).bad = FALSE, NEW j \in 0..Len(rows)
    PROVE  SummarizeWorkEvents(rows, j)
           <=> \E i \in (j + 1)..Len(rows) : IsWrapperInterruptEvent(rows[i])
<1>. DEFINE n == Len(rows)
            s == SubSeq(rows, j + 1, n)
<1>0. n \in Nat /\ j \in Nat /\ j <= n OBVIOUS
<1>1. /\ s \in Seq(Row) /\ Len(s) = n - j /\ DOMAIN s = 1..(n - j)
      /\ \A i \in 1..(n - j) : s[i] = rows[j + i]
  OBVIOUS
<1>2. SummarizeWorkEvents(rows, j) <=> Summary(s).interrupt BY DEF SummarizeWorkEvents
<1>. HIDE DEF s
<1>3. \A x, y \in EndsOf(rows) : x < y => Settles(rows[x], rows[y]) BY GoodReads DEF ReadAs
<1>4. \A x, y \in EndsOf(s) : x < y => Settles(s[x], s[y])
  <2>1. ASSUME NEW x \in EndsOf(s), NEW y \in EndsOf(s), x < y PROVE Settles(s[x], s[y])
    <3>1. x \in 1..(n - j) /\ y \in 1..(n - j) BY <1>1 DEF EndsOf
    <3>2. j + x \in DOMAIN rows /\ j + y \in DOMAIN rows /\ j + x < j + y BY <1>0, <2>1, <3>1
    <3>3. s[x] = rows[j + x] /\ s[y] = rows[j + y] BY <1>1, <3>1
    <3>4. j + x \in EndsOf(rows) /\ j + y \in EndsOf(rows) BY <3>2, <3>3 DEF EndsOf
    <3>. QED BY <1>3, <3>2, <3>3, <3>4
  <2>. QED BY <2>1
<1>5. ASSUME NEW i \in (j + 1)..n, IsWrapperInterruptEvent(rows[i]) PROVE Summary(s).interrupt
  <2>1. i - j \in 1..(n - j) /\ j + (i - j) = i BY <1>0
  <2>2. IsWrapperInterruptEvent(s[i - j]) BY <1>1, <1>5, <2>1
  <2>3. s[i - j].event = "cancelled" BY <2>2 DEF IsWrapperInterruptEvent
  <2>4. i - j \in EndsOf(s) BY <1>1, <2>1, <2>3 DEF EndsOf, IsWorkTerminalEvent, Terminals
  <2>5. Summary(s) = [outcome |-> s[i - j].event, interrupt |-> IsWrapperInterruptEvent(s[i - j])]
    BY <1>1, <1>4, <2>3, <2>4, RealCounts
  <2>6. Summary(s).interrupt = IsWrapperInterruptEvent(s[i - j]) BY <2>5
  <2>. QED BY <2>2, <2>6
<1>6. ASSUME Summary(s).interrupt
      PROVE  \E i \in (j + 1)..n : IsWrapperInterruptEvent(rows[i])
  <2>1. CASE Outcomes(s) = {}
    <3>1. Summary(s) = [outcome |-> "open", interrupt |-> FALSE] BY <2>1 DEF Summary
    <3>. QED BY <1>6, <3>1
  <2>2. CASE Outcomes(s) # {}
    <3>. DEFINE first == CHOOSE i \in Outcomes(s) : \A k \in Outcomes(s) : i <= k
    <3>1. Outcomes(s) \subseteq DOMAIN s /\ Outcomes(s) \in SUBSET Nat
      BY <1>1 DEF Outcomes, NormalizeLateReconciliationTerminals
    <3>2. \E i \in Outcomes(s) : \A k \in Outcomes(s) : i <= k BY <2>2, <3>1, LeastOf
    <3>3. first \in Outcomes(s) BY <3>2
    <3>4. Summary(s) = [outcome |-> s[first].event,
                        interrupt |-> IsWrapperInterruptEvent(s[first])]
      BY <2>2 DEF Summary
    <3>. HIDE DEF first
    <3>5. Summary(s).interrupt = IsWrapperInterruptEvent(s[first]) BY <3>4
    <3>6. first \in 1..(n - j) BY <1>1, <3>1, <3>3
    <3>7. j + first \in (j + 1)..n /\ s[first] = rows[j + first] BY <1>0, <1>1, <3>6
    <3>. QED BY <1>6, <3>5, <3>7
  <2>. QED BY <2>1, <2>2
<1>. QED BY <1>2, <1>5, <1>6

(***************************************************************************)
(* What the shards may hold: rows in the order of their stamps, or all but *)
(* two of them.                                                            *)
(***************************************************************************)
LEMMA TimedIs ==
    ASSUME NEW rows \in Seq(Row)
    PROVE  /\ Timed(rows) \in Seq(TimedRow) /\ Len(Timed(rows)) = Len(rows) /\ InOrder(Timed(rows))
           /\ \A i \in 1..Len(rows) : Timed(rows)[i] = [time |-> i, row |-> rows[i]]
<1>. DEFINE e(i) == [time |-> i, row |-> rows[i]]
<1>1. DOMAIN rows = 1..Len(rows) /\ Len(rows) \in Nat /\ \A i \in 1..Len(rows) : rows[i] \in Row
  OBVIOUS
<1>2. \A i \in 1..Len(rows) : e(i) \in TimedRow /\ e(i).time = i BY <1>1 DEF TimedRow
<1>3. Timed(rows) = [i \in 1..Len(rows) |-> e(i)] BY <1>1 DEF Timed
<1>. HIDE DEF e
<1>4. Timed(rows) \in Seq(TimedRow) /\ Len(Timed(rows)) = Len(rows) BY <1>1, <1>2, <1>3
<1>5. \A i \in 1..Len(rows) : Timed(rows)[i] = e(i) BY <1>3
<1>6. InOrder(Timed(rows)) BY <1>2, <1>3, <1>5 DEF InOrder
<1>. QED BY <1>4, <1>5, <1>6 DEF e

LEMMA OvertakenIs ==
    ASSUME NEW rows \in Seq(Row), NEW i \in Overtakers(rows)
    PROVE  /\ i \in 2..Len(rows) /\ i \in Nat
           /\ Overtaken(rows, i) \in Seq(TimedRow) /\ Len(Overtaken(rows, i)) = Len(rows)
           /\ Overtaken(rows, i)[i - 1] = [time |-> i, row |-> rows[i - 1]]
           /\ Overtaken(rows, i)[i] = [time |-> i - 1, row |-> [rows[i] EXCEPT !.late = TRUE]]
           /\ \A k \in 1..Len(rows) : k # i /\ k # i - 1
                 => Overtaken(rows, i)[k] = [time |-> k, row |-> rows[k]]
<1>. DEFINE n == Len(rows)
            f == Overtaken(rows, i)
            T == Timed(rows)
            x == [time |-> i, row |-> rows[i - 1]]
            y == [time |-> i - 1, row |-> [rows[i] EXCEPT !.late = TRUE]]
<1>1. i \in 2..n /\ n \in Nat BY DEF Overtakers
<1>2. i \in 1..n /\ i - 1 \in 1..n /\ i # i - 1 /\ i \in Nat /\ i - 1 \in Nat BY <1>1
<1>3. rows[i] \in Row /\ rows[i - 1] \in Row BY <1>2
<1>4. [rows[i] EXCEPT !.late = TRUE] \in Row BY <1>3 DEF Row
<1>5. x \in TimedRow /\ y \in TimedRow BY <1>2, <1>3, <1>4 DEF TimedRow
<1>6. /\ T \in Seq(TimedRow) /\ Len(T) = n
      /\ \A k \in 1..n : T[k] = [time |-> k, row |-> rows[k]]
  BY TimedIs
<1>7. [T[i - 1] EXCEPT !.time = i] = x
  <2>1. T[i - 1] = [time |-> i - 1, row |-> rows[i - 1]] BY <1>2, <1>6
  <2>. HIDE DEF T
  <2>. QED BY <2>1
<1>8. f = [T EXCEPT ![i - 1] = [T[i - 1] EXCEPT !.time = i], ![i] = y] BY DEF Overtaken
<1>9. f = [T EXCEPT ![i - 1] = x, ![i] = y] BY <1>7, <1>8
<1>. HIDE DEF T, x, y, f
<1>10. /\ f \in Seq(TimedRow) /\ Len(f) = n /\ f[i - 1] = x /\ f[i] = y
       /\ \A k \in 1..n : k # i /\ k # i - 1 => f[k] = T[k]
  BY <1>1, <1>2, <1>5, <1>6, <1>9
<1>. QED BY <1>1, <1>2, <1>6, <1>10 DEF f, x, y

\* Sorting gives every row the place of its stamp.
LEMMA InTimeIs ==
    ASSUME NEW rows \in Seq(Row), NEW i \in Overtakers(rows)
    PROVE  LET shards == Overtaken(rows, i)
           IN  /\ ~InOrder(shards) /\ InOrder(InTime(shards))
               /\ InTime(shards) \in Seq(TimedRow) /\ Len(InTime(shards)) = Len(rows)
               /\ \A k \in 1..Len(rows) : i < k => InTime(shards)[k] = shards[k]
<1>. DEFINE n == Len(rows)
            f == Overtaken(rows, i)
            at_(t) == CHOOSE k \in DOMAIN f : f[k].time = t
<1>1. /\ i \in 2..n /\ n \in Nat /\ i \in 1..n /\ i - 1 \in 1..n /\ i - 1 # i /\ i \in Nat
      /\ f \in Seq(TimedRow) /\ Len(f) = n
      /\ f[i - 1].time = i /\ f[i].time = i - 1
      /\ \A k \in 1..n : k # i /\ k # i - 1 => f[k].time = k
  <2>1. /\ i \in 2..n /\ i \in Nat /\ f \in Seq(TimedRow) /\ Len(f) = n
        /\ f[i - 1] = [time |-> i, row |-> rows[i - 1]]
        /\ f[i] = [time |-> i - 1, row |-> [rows[i] EXCEPT !.late = TRUE]]
        /\ \A k \in 1..n : k # i /\ k # i - 1 => f[k] = [time |-> k, row |-> rows[k]]
    BY OvertakenIs
  <2>2. f[i - 1].time = i /\ f[i].time = i - 1 BY <2>1
  <2>3. ASSUME NEW k \in 1..n, k # i, k # i - 1 PROVE f[k].time = k
    <3>1. f[k] = [time |-> k, row |-> rows[k]] BY <2>1, <2>3
    <3>. HIDE DEF f
    <3>. QED BY <3>1
  <2>4. i \in 1..n /\ i - 1 \in 1..n /\ i - 1 # i /\ n \in Nat BY <2>1
  <2>. QED BY <2>1, <2>2, <2>3, <2>4
<1>. HIDE DEF f
<1>2. DOMAIN f = 1..n /\ \A k \in 1..n : f[k] \in TimedRow BY <1>1
<1>3. ~InOrder(f) BY <1>1, <1>2 DEF InOrder
<1>4. InTime(f) = [t \in 1..n |-> f[at_(t)]] BY <1>2, <1>3 DEF InTime
<1>5. ASSUME NEW t \in 1..n PROVE at_(t) \in 1..n /\ f[at_(t)].time = t
  <2>1. \E k \in 1..n : f[k].time = t BY <1>1
  <2>. QED BY <1>2, <2>1
<1>6. ASSUME NEW t \in 1..n, i < t PROVE at_(t) = t
  <2>1. f[t].time = t BY <1>1, <1>6
  <2>2. \A k \in 1..n : f[k].time = t => k = t BY <1>1, <1>6
  <2>. QED BY <1>5, <2>2
<1>. HIDE DEF at_
<1>7. InTime(f) \in Seq(TimedRow) /\ Len(InTime(f)) = n BY <1>1, <1>2, <1>4, <1>5
<1>8. InOrder(InTime(f)) BY <1>4, <1>5 DEF InOrder
<1>9. \A k \in 1..n : i < k => InTime(f)[k] = f[k] BY <1>4, <1>6
<1>. QED BY <1>3, <1>7, <1>8, <1>9 DEF f

LEMMA ShardsAre ==
    ASSUME NEW rows \in Seq(Row), NEW shards \in Shards(rows)
    PROVE  \/ shards \in Seq(TimedRow) /\ Len(shards) = Len(rows) /\ InOrder(shards)
           \/ \E i \in Overtakers(rows) : shards = Overtaken(rows, i)
<1>1. CASE shards = Timed(rows) BY <1>1, TimedIs
<1>2. ASSUME NEW i \in Overtakers(rows), shards = InTime(Overtaken(rows, i))
      PROVE  shards \in Seq(TimedRow) /\ Len(shards) = Len(rows) /\ InOrder(shards)
  BY <1>2, InTimeIs
<1>. QED BY <1>1, <1>2 DEF Shards

(***************************************************************************)
(* The two counts.                                                         *)
(***************************************************************************)
\* What the property asks of one operation, one content of the shards, window and first day.
PartOnlyThere(shards, k, j) ==
    LET streams == CountWrapperInterruptOperations(shards, k, j)
        rows    == RowsOf(InTime(shards))
        reports == SummarizeWorkEvents(ReadAll(rows), j)
    IN  /\ streams /\ ~reports => k > 0 /\ Lifecycle(rows).bad
        /\ reports /\ ~streams => ~InOrder(shards) \/ Lifecycle(SubSeq(rows, 1, k)).reserved

LEMMA LifeBoolean ==
    ASSUME NEW rows \in Seq(Row)
    PROVE  Lifecycle(rows).bad \in BOOLEAN
<1>1. Len(rows) \in Nat /\ Len(rows) \in 0..Len(rows) OBVIOUS
<1>2. PICK g : Judged(g, rows, Len(rows)) BY <1>1, JudgedExists
<1>3. Lifecycle(rows) = g[Len(rows)] /\ g[Len(rows)] \in LifeState
  BY <1>1, <1>2, LifecycleIs, JudgedTyped
<1>. QED BY <1>3 DEF LifeState

LEMMA NoneCounted == ASSUME NEW j \in Nat PROVE ~SummarizeWorkEvents(<<>>, j)
<1>1. SubSeq(<<>>, j + 1, Len(<<>>)) = <<>> OBVIOUS
<1>2. Outcomes(<<>>) = {} BY DEF Outcomes, NormalizeLateReconciliationTerminals
<1>3. Summary(<<>>) = [outcome |-> "open", interrupt |-> FALSE] BY <1>2 DEF Summary
<1>4. SummarizeWorkEvents(<<>>, j) <=> Summary(<<>>).interrupt BY <1>1 DEF SummarizeWorkEvents
<1>5. Summary(<<>>).interrupt = FALSE BY <1>3
<1>. QED BY <1>4, <1>5

LEMMA OrderedParts ==
    ASSUME NEW shards \in Seq(TimedRow), InOrder(shards), NEW k \in 0..Len(shards), NEW j \in k..Len(shards)
    PROVE  PartOnlyThere(shards, k, j)
<1>. DEFINE n == Len(shards)
            rows == RowsOf(shards)
            read == SubSeq(shards, k + 1, n)
            streams == CountWrapperInterruptOperations(shards, k, j)
            reports == SummarizeWorkEvents(ReadAll(rows), j)
<1>0. /\ n \in Nat /\ k \in Nat /\ j \in Nat /\ k <= j /\ j <= n /\ j \in 0..n
      /\ InTime(shards) = shards
  BY DEF InTime
<1>1. /\ rows \in Seq(Row) /\ Len(rows) = n
      /\ \A i \in 1..n : rows[i] = shards[i].row /\ shards[i] \in TimedRow /\ shards[i].time = i
  <2>1. \A i \in 1..n : shards[i].time = i BY DEF InOrder
  <2>. QED BY <2>1, ShardRows
<1>2. read \in Seq(TimedRow) /\ Len(read) = n - k /\ \A i \in 1..(n - k) : read[i] = shards[k + i]
  BY <1>0
<1>3. RowsOf(read) = SubSeq(rows, k + 1, n)
  <2>1. \A i \in 1..(n - k) : k + i \in 1..n BY <1>0
  <2>2. DOMAIN read = 1..(n - k) BY <1>0, <1>2
  <2>3. RowsOf(read) = [i \in 1..(n - k) |-> rows[k + i]] BY <1>1, <1>2, <2>1, <2>2 DEF RowsOf
  <2>. HIDE DEF rows, read
  <2>4. SubSeq(rows, k + 1, n) = [i \in 1..(n - k) |-> rows[k + i]]
    <3>1. SubSeq(rows, k + 1, n) = [i \in 1..((n - (k + 1)) + 1) |-> rows[(i + (k + 1)) - 1]]
      OBVIOUS
    <3>2. 1..((n - (k + 1)) + 1) = 1..(n - k) BY <1>0
    <3>3. \A i \in 1..(n - k) : (i + (k + 1)) - 1 = k + i BY <1>0
    <3>. QED BY <3>1, <3>2, <3>3
  <2>. QED BY <2>3, <2>4
<1>4. streams <=> ~Lifecycle(RowsOf(read)).bad /\ Hit(read, j, n - k)
  BY <1>2, StreamedIs DEF CountWrapperInterruptOperations
<1>5. Hit(read, j, n - k) <=> \E i \in (j + 1)..n : IsWrapperInterruptEvent(rows[i])
  <2>. HIDE DEF rows, read
  <2>1. ASSUME NEW i \in 1..(n - k), read[i].time > j, IsWrapperInterruptEvent(read[i].row)
        PROVE  \E m \in (j + 1)..n : IsWrapperInterruptEvent(rows[m])
    <3>1. k + i \in 1..n BY <1>0
    <3>2. read[i].time = k + i /\ read[i].row = rows[k + i] BY <1>1, <1>2, <3>1
    <3>3. k + i \in (j + 1)..n BY <1>0, <2>1, <3>1, <3>2
    <3>. QED BY <2>1, <3>2, <3>3
  <2>2. ASSUME NEW m \in (j + 1)..n, IsWrapperInterruptEvent(rows[m])
        PROVE  Hit(read, j, n - k)
    <3>1. m \in 1..n /\ m - k \in 1..(n - k) /\ k + (m - k) = m /\ m > j BY <1>0
    <3>2. read[m - k].time = m /\ read[m - k].row = rows[m] BY <1>1, <1>2, <3>1
    <3>. QED BY <2>2, <3>1, <3>2 DEF Hit
  <2>. QED BY <2>1, <2>2 DEF Hit
<1>6. Lifecycle(rows).bad \in BOOLEAN /\ Lifecycle(RowsOf(read)).bad \in BOOLEAN
  BY <1>1, <1>2, ShardRows, LifeBoolean
<1>. HIDE DEF rows, read
<1>7. CASE Lifecycle(rows).bad = TRUE
  <2>1. ReadAll(rows) = <<>> BY <1>7 DEF ReadAll
  <2>2. ~reports BY <1>0, <2>1, NoneCounted
  <2>3. streams => k # 0
    <3>1. k = 0 => SubSeq(rows, k + 1, n) = rows BY <1>0, <1>1
    <3>. QED BY <1>3, <1>4, <1>7, <3>1
  <2>. QED BY <1>0, <1>7, <2>2, <2>3 DEF PartOnlyThere, rows
<1>8. CASE Lifecycle(rows).bad = FALSE
  <2>1. ReadAll(rows) = rows BY <1>8 DEF ReadAll
  <2>2. reports <=> \E i \in (j + 1)..n : IsWrapperInterruptEvent(rows[i])
    BY <1>0, <1>1, <1>8, <2>1, SummedIs
  <2>3. ASSUME ~Lifecycle(SubSeq(rows, 1, k)).reserved PROVE Lifecycle(RowsOf(read)).bad = FALSE
    <3>1. k \in 0..Len(rows) /\ rows \in Seq(Row) BY <1>1
    <3>2. Lifecycle(SubSeq(rows, k + 1, Len(rows))).bad = FALSE
      BY <1>8, <2>3, <3>1, SuffixAccepted
    <3>. QED BY <1>1, <1>3, <3>2
  <2>4. streams => reports BY <1>4, <1>5, <2>2
  <2>5. reports => streams \/ Lifecycle(SubSeq(rows, 1, k)).reserved BY <1>4, <1>5, <2>2, <2>3
  <2>. QED BY <1>0, <2>4, <2>5 DEF PartOnlyThere, rows
<1>. QED BY <1>6, <1>7, <1>8

\* A stream that comes to the two rows refuses the second.
LEMMA OvertakenRefused ==
    ASSUME NEW rows \in Seq(Row), NEW i \in Overtakers(rows), NEW k \in 0..(i - 2),
           rows[i].exit = TRUE => rows[i].event \in Receipts,
           NEW s \in Seq(Row), Len(s) = Len(rows) - k, s[(i - 1) - k] = rows[i - 1],
           s[i - k] = [rows[i] EXCEPT !.late = TRUE]
    PROVE  Lifecycle(s).bad = TRUE
<1>. DEFINE n == Len(s)
            m == i - k
            x == s[m - 1]
            y == s[m]
<1>1. i \in 2..Len(rows) /\ i \in Nat /\ rows[i] \in Row /\ rows[i - 1] \in Row
  BY DEF Overtakers
<1>2. /\ n \in Nat /\ m \in 1..n /\ m - 1 \in 1..n /\ m \in 0..n /\ m - 1 \in 0..n
      /\ (m - 1) - 1 \in 0..n /\ (i - 1) - k = m - 1
  BY <1>1
<1>3. x = rows[i - 1] /\ y = [rows[i] EXCEPT !.late = TRUE] BY <1>2
<1>4. x \in Row /\ y \in Row /\ y.event = rows[i].event /\ y.late = TRUE BY <1>1, <1>3 DEF Row
<1>5. x.event \in Terminals BY <1>3 DEF Overtakers, IsWorkTerminalEvent, Terminals
<1>6. y.event = "override_requested" \/ y.event \in Receipts
  <2>1. rows[i].exit \in BOOLEAN BY <1>1 DEF Row
  <2>. QED BY <1>4, <2>1 DEF Overtakers
<1>. HIDE DEF x, y, m
<1>7. PICK g : Judged(g, s, n) BY <1>2, JudgedExists
<1>8. Lifecycle(s) = g[n] /\ \A h \in 0..n : g[h] \in LifeState
  BY <1>2, <1>7, LifecycleIs, JudgedTyped
<1>. HIDE DEF n
<1>9. \A h \in 1..n : g[h] = AddEvent(g[h - 1], s[h])
  <2>1. n \in Nat BY <1>2
  <2>2. /\ g[0] = NewLifecycle
        /\ \A h \in 1..n : g[h] = AddEvent(g[h - 1], s[h])
        /\ g = [h \in 0..n |-> g[h]]
    BY <1>7, <2>1, JudgedOne
  <2>. QED BY <2>2
<1>10. g[m - 1] = AddEvent(g[(m - 1) - 1], x) /\ g[m] = AddEvent(g[m - 1], y)
  BY <1>2, <1>9 DEF x, y
<1>11. g[n].bad \in BOOLEAN
  <2>1. n \in 0..n BY <1>2
  <2>. QED BY <1>8, <2>1 DEF LifeState
<1>. SUFFICES ASSUME g[n].bad = FALSE PROVE FALSE BY <1>8, <1>11
<1>12. g[m].bad = FALSE /\ g[m - 1].bad = FALSE
  <2>1. ~g[m].bad /\ ~g[m - 1].bad BY <1>2, <1>7, BadStays DEF n
  <2>. QED BY <1>2, <1>8, <2>1 DEF LifeState
<1>13. g[m - 1].terminal # NoRow
  <2>. DEFINE st == g[(m - 1) - 1]
  <2>1. st \in LifeState BY <1>2, <1>8
  <2>2. st.bad = FALSE /\ ~Refused(st, x) BY <1>4, <1>10, <1>12, <2>1, AddedGood
  <2>. HIDE DEF st
  <2>3. AddEvent(st, x).terminal
        = (IF x.event \in Terminals /\ (st.terminal = NoRow \/ x.event # "expired")
           THEN x ELSE st.terminal)
    BY <1>4, <2>1, <2>2, AddIs
  <2>4. AddEvent(st, x).terminal # NoRow BY <1>4, <1>5, <2>3, NoRowIs
  <2>. QED BY <1>10, <2>4 DEF st
<1>14. ~Refused(g[m - 1], y) BY <1>2, <1>4, <1>8, <1>10, <1>12, AddedGood
<1>15. CASE y.event = "override_requested" BY <1>13, <1>14, <1>15 DEF Refused, OutOfOrder
<1>16. CASE y.event \in Receipts
  <2>1. ~IsLateRealTerminalAfterReconciliation(g[m - 1].terminal, y)
    BY <1>4 DEF IsLateRealTerminalAfterReconciliation
  <2>2. IsWorkTerminalEvent(y.event) /\ y.event # "expired"
    BY <1>16 DEF Receipts, IsWorkTerminalEvent, Terminals
  <2>3. BadTerminal(g[m - 1], y) BY <1>13, <2>1, <2>2 DEF BadTerminal
  <2>. QED BY <1>14, <2>3 DEF Refused
<1>. QED BY <1>6, <1>15, <1>16

LEMMA OvertakenParts ==
    ASSUME NEW rows \in Seq(Row), NEW i \in Overtakers(rows),
           rows[i].exit = TRUE => rows[i].event \in Receipts,
           NEW k \in Older(Overtaken(rows, i)), NEW j \in k..Len(rows)
    PROVE  PartOnlyThere(Overtaken(rows, i), k, j)
<1>. DEFINE n == Len(rows)
            f == Overtaken(rows, i)
            read == SubSeq(f, k + 1, n)
            timed == RowsOf(InTime(f))
            streams == CountWrapperInterruptOperations(f, k, j)
            reports == SummarizeWorkEvents(ReadAll(timed), j)
<1>1. /\ i \in 2..n /\ i \in Nat /\ n \in Nat
      /\ f \in Seq(TimedRow) /\ Len(f) = n
      /\ f[i - 1] = [time |-> i, row |-> rows[i - 1]]
      /\ f[i] = [time |-> i - 1, row |-> [rows[i] EXCEPT !.late = TRUE]]
      /\ \A h \in 1..n : h # i /\ h # i - 1 => f[h] = [time |-> h, row |-> rows[h]]
  BY OvertakenIs
<1>2. /\ ~InOrder(f) /\ InOrder(InTime(f))
      /\ InTime(f) \in Seq(TimedRow) /\ Len(InTime(f)) = n
      /\ \A h \in 1..n : i < h => InTime(f)[h] = f[h]
  BY InTimeIs
<1>3. k \in 0..n /\ k # i - 1
  <2>1. k \in 0..n /\ \A h \in 1..k : f[h].time <= k BY <1>1 DEF Older
  <2>2. f[i - 1].time = i BY <1>1
  <2>3. k = i - 1 => i - 1 \in 1..k BY <1>1
  <2>. QED BY <1>1, <2>1, <2>2, <2>3
<1>. HIDE DEF f
<1>4. read \in Seq(TimedRow) /\ Len(read) = n - k /\ \A h \in 1..(n - k) : read[h] = f[k + h]
  BY <1>1, <1>3
<1>5. streams <=> ~Lifecycle(RowsOf(read)).bad /\ Hit(read, j, n - k)
  BY <1>1, <1>4, StreamedIs DEF CountWrapperInterruptOperations
<1>6. RowsOf(read) \in Seq(Row) /\ Len(RowsOf(read)) = n - k
      /\ \A h \in 1..(n - k) : RowsOf(read)[h] = f[k + h].row
  BY <1>4, ShardRows
<1>7. timed \in Seq(Row) /\ Len(timed) = n /\ \A h \in 1..n : i < h => timed[h] = f[h].row
  BY <1>2, ShardRows
<1>8. Lifecycle(timed).bad \in BOOLEAN BY <1>7, LifeBoolean
<1>9. ~InOrder(f) /\ (streams /\ ~reports => k > 0 /\ Lifecycle(timed).bad) => PartOnlyThere(f, k, j)
  BY Zenon DEF PartOnlyThere
<1>. HIDE DEF read, timed
<1>10. CASE k < i - 1
  <2>1. k \in 0..(i - 2) /\ i - k \in 1..(n - k) /\ (i - 1) - k \in 1..(n - k)
        /\ k + (i - k) = i /\ k + ((i - 1) - k) = i - 1
    BY <1>1, <1>3, <1>10
  <2>2. f[i].row = [rows[i] EXCEPT !.late = TRUE] /\ f[i - 1].row = rows[i - 1] BY <1>1
  <2>3. Lifecycle(RowsOf(read)).bad = TRUE
    <3>. DEFINE s == RowsOf(read)
    <3>1. s \in Seq(Row) /\ Len(s) = Len(rows) - k BY <1>6
    <3>2. s[(i - 1) - k] = rows[i - 1] /\ s[i - k] = [rows[i] EXCEPT !.late = TRUE]
      BY <1>6, <2>1, <2>2
    <3>. HIDE DEF s
    <3>3. Lifecycle(s).bad = TRUE BY <2>1, <3>1, <3>2, OvertakenRefused
    <3>. QED BY <3>3 DEF s
  <2>4. ~streams BY <1>5, <2>3
  <2>. QED BY <1>2, <1>9, <2>4 DEF f
<1>11. CASE k >= i
  <2>1. k > 0 BY <1>1, <1>3, <1>11
  <2>2. CASE Lifecycle(timed).bad = TRUE BY <1>2, <1>9, <2>1, <2>2 DEF f
  <2>3. CASE Lifecycle(timed).bad = FALSE
    <3>1. ReadAll(timed) = timed BY <2>3 DEF ReadAll
    <3>2. j \in 0..n BY <1>1, <1>3
    <3>3. reports <=> \E h \in (j + 1)..n : IsWrapperInterruptEvent(timed[h])
      BY <1>7, <2>3, <3>1, <3>2, SummedIs
    <3>4. ASSUME NEW h \in 1..(n - k), read[h].time > j, IsWrapperInterruptEvent(read[h].row)
          PROVE  reports
      <4>1. k + h \in 1..n /\ i < k + h /\ k + h # i /\ k + h # i - 1 BY <1>1, <1>3, <1>11
      <4>2. read[h] = f[k + h] /\ f[k + h] = [time |-> k + h, row |-> rows[k + h]]
        BY <1>1, <1>4, <4>1
      <4>3. read[h].time = k + h /\ read[h].row = timed[k + h] BY <1>7, <4>1, <4>2
      <4>4. k + h \in (j + 1)..n BY <1>1, <1>3, <3>4, <4>1, <4>3
      <4>. QED BY <3>3, <3>4, <4>3, <4>4
    <3>5. streams => reports BY <1>5, <3>4 DEF Hit
    <3>. QED BY <1>2, <1>9, <3>5 DEF f
  <2>. QED BY <1>8, <2>2, <2>3
<1>. QED BY <1>1, <1>3, <1>10, <1>11

LEMMA StreamsAlike ==
    ASSUME PartiesInv
    PROVE  StreamAgrees
<1>1. ASSUME NEW o \in Ops, NEW shards \in Shards(log[o]), NEW k \in Older(shards),
             NEW j \in DOMAIN shards \cup {0}, k \in 0..j
      PROVE  PartOnlyThere(shards, k, j)
  <2>1. log[o] \in Seq(Row) /\ \A i \in DOMAIN log[o] : NewRow(o, log[o][i])
    BY DEF PartiesInv, PartiesTyped, OwnRows
  <2>2. CASE shards \in Seq(TimedRow) /\ InOrder(shards)
    <3>1. k \in 0..Len(shards) /\ j \in k..Len(shards) BY <1>1, <2>2 DEF Older
    <3>. QED BY <2>2, <3>1, OrderedParts
  <2>3. ASSUME NEW i \in Overtakers(log[o]), shards = Overtaken(log[o], i)
        PROVE  PartOnlyThere(shards, k, j)
    <3>1. shards \in Seq(TimedRow) /\ Len(shards) = Len(log[o]) BY <2>1, <2>3, OvertakenIs
    <3>2. j \in k..Len(log[o]) BY <1>1, <3>1
    <3>3. log[o][i].exit = TRUE => log[o][i].event \in Receipts
      BY <2>1 DEF Overtakers, NewRow
    <3>. QED BY <2>1, <2>3, <3>2, <3>3, OvertakenParts
  <2>. QED BY <2>1, <2>2, <2>3, ShardsAre
<1>2. Signalled \subseteq Ops BY DEF Signalled
<1>3. ASSUME NEW shards, NEW j \in DOMAIN shards \cup {0}, NEW k \in Older(shards) \cap 0..j
      PROVE  k \in Older(shards) /\ k \in 0..j
  OBVIOUS
<1>. QED BY <1>1, <1>2 DEF StreamAgrees, PartOnlyThere

\* Whatever a reconciler or an operator wrote beside it, the statistics count the exit that
\* the wrapper saw itself (NormalizeLateReconciliationTerminals and SummarizeWorkEvents).
THEOREM ReceiptsCount == Spec => []ReceiptCounts
<1>1. PartiesInv /\ Remembers => ReceiptCounts BY CountedReceipts
<1>. QED BY <1>1, RemembersAlways, PTL

\* Wherever the window and its first day begin, and whichever appends overtook each other,
\* the resident's streamed count and the statistics part in the three cases only
\* (CountWrapperInterruptOperations and SummarizeWorkEvents).
THEOREM StreamsAgree == Spec => []StreamAgrees
<1>1. PartiesInv => StreamAgrees BY StreamsAlike
<1>. QED BY <1>1, RemembersAlways, PTL

(***************************************************************************)
(* The validator is in step with the wrapper, but for the four cases.      *)
(***************************************************************************)
Excused(o) ==
    aged[o] = TRUE \/ drop.op = o \/ o \in stuck \/ (at[o] \in Past /\ Unannounced(o))

ExpiredWhile(o, l) == [op |-> o, event |-> "expired", lease |-> l, outcome |-> "dead_owner",
                       exit |-> FALSE, late |-> FALSE]
Early == {"queued", "override_requested"}
Later == Early \cup {"acquired", "reserved", "reacquired"}

\* What the validator made of the rows of a wrapper that is at a, with l leases, a verdict
\* for the lease v, and the place p.
Stands(o, a, l, v, p, st) ==
    /\ st.bad = FALSE
    /\ a \in {"admission", "waiting", "acquired"} =>
           st.order = 0 /\ st.lease = 0 /\ st.reserved = FALSE /\ st.seen \subseteq Early
    /\ a \in {"owned", "reserving", "bound"} =>
           st.order \in {2, 4} /\ st.lease = l /\ st.reserved = FALSE /\ st.seen \subseteq Later
    /\ a \in {"reserved", "reacquired"} =>
           st.order = 3 /\ st.reserved = TRUE /\ st.seen \subseteq Later
    /\ a \in {"reserved", "running", "receipt", "reap"} => st.lease = l
    /\ a \in Past => st.lease \in {0, l}
    /\ a \in Past \ {"done", "dead"} => v \in {0, l}
    /\ a \notin {"reap", "finalize", "leaving", "done", "dead"} => st.terminal = NoRow
    /\ a = "reap" => v = l /\ st.terminal \in {NoRow, ExpiredWhile(o, l)}
    /\ p = "waiter" =>
           a \in {"waiting", "reserving", "reserved", "release", "done", "dead"}

InStep(o) ==
    Stands(o, at[o], leaseID[o], verdict[o].lease, place[o], Lifecycle(log[o]))

LEMMA OrdersAre ==
    /\ WorkEventOrder("queued") = 0 /\ WorkEventOrder("override_requested") = 1
    /\ WorkEventOrder("acquired") = 2 /\ WorkEventOrder("reserved") = 3
    /\ WorkEventOrder("reacquired") = 4 /\ WorkEventOrder("started") = 5
    /\ \A e \in Terminals : WorkEventOrder(e) = 6
<1>1. /\ WorkEventOrder("queued") = 0 /\ WorkEventOrder("override_requested") = 1
      /\ WorkEventOrder("acquired") = 2 /\ WorkEventOrder("reserved") = 3
      /\ WorkEventOrder("reacquired") = 4 /\ WorkEventOrder("started") = 5
  BY DEF WorkEventOrder
<1>2. \A e \in Terminals : WorkEventOrder(e) = 6 BY DEF WorkEventOrder, Terminals
<1>. QED BY <1>1, <1>2

\* A terminal row is accepted after no other, or as the late receipt of an expired lease.
LEMMA EndAccepted ==
    ASSUME NEW s \in Seq(Row), NEW st \in LifeState, st.bad = FALSE, ReadAs(s, st),
           NEW r \in Row, r.event \in Terminals,
           r.lease = 0 \/ st.lease = 0 \/ r.lease = st.lease,
           \/ st.terminal = NoRow
           \/ /\ st.terminal.event = "expired" /\ r.event # "expired"
              /\ IsLateRealTerminalAfterReconciliation(st.terminal, r)
    PROVE  ~Refused(st, r)
<1>1. r.event \notin st.seen
  <2>. SUFFICES ASSUME r.event \in st.seen PROVE FALSE OBVIOUS
  <2>1. PICK i \in DOMAIN s : s[i].event = r.event BY DEF ReadAs, EventsIn
  <2>2. i \in EndsOf(s) BY <2>1 DEF EndsOf, IsWorkTerminalEvent
  <2>3. st.terminal # NoRow /\ (s[i].event # "expired" => st.terminal = s[i])
    BY <2>2 DEF ReadAs
  <2>. QED BY <2>1, <2>3
<1>2. WorkEventOrder(r.event) = 6 /\ st.order \in -1..6 BY OrdersAre DEF LifeState
<1>3. r.event \notin {"override_requested", "reserved", "reacquired"} BY DEF Terminals
<1>4. ~OutOfOrder(st, r) BY <1>2, <1>3 DEF OutOfOrder
<1>5. ~BadTerminal(st, r) BY DEF BadTerminal
<1>. QED BY <1>1, <1>3, <1>4, <1>5 DEF Refused

LEMMA PlainFields ==
    ASSUME NEW o, NEW e, NEW l
    PROVE  /\ Plain(o, e, l).event = e /\ Plain(o, e, l).lease = l
BY DEF Plain

\* The other rows, by their event.
LEMMA RowAccepted ==
    ASSUME NEW st \in LifeState, st.bad = FALSE, st.terminal = NoRow, NEW r \in Row,
           \/ r.event = "queued" /\ st.seen = {} /\ st.order = -1 /\ r.lease = 0
           \/ r.event = "override_requested" /\ r.lease = 0
           \/ r.event = "acquired" /\ st.seen \subseteq Early /\ st.order = 0 /\ st.lease = 0
           \/ /\ r.event = "reserved" /\ st.order \in {2, 4} /\ r.lease = st.lease
              /\ st.reserved = FALSE
           \/ r.event = "reacquired" /\ st.order = 3 /\ st.reserved = TRUE
           \/ /\ r.event = "started" /\ st.order \in {2, 4} /\ r.lease = st.lease
              /\ st.seen \subseteq Later
    PROVE  ~Refused(st, r)
<1>1. r.event \notin Terminals /\ ~BadTerminal(st, r)
  BY DEF Terminals, BadTerminal, IsWorkTerminalEvent
<1>2. ~OutOfOrder(st, r) BY OrdersAre DEF OutOfOrder
<1>3. r.event \notin st.seen \ Repeatable BY DEF Repeatable, Early, Later
<1>. QED BY <1>1, <1>2, <1>3 DEF Refused

LEMMA ExcusedStays ==
    ASSUME PartiesInv, [Next]_vars, NEW o \in Ops, Excused(o)
    PROVE  Excused(o)'
<1>1. Grow /\ (at[o] \in Past => Trails(o)) BY PartiesStep
<1>2. CASE aged[o] = TRUE \/ drop.op = o \/ o \in stuck
  BY <1>1, <1>2 DEF Grow, Excused
<1>3. CASE at[o] \in Past /\ Unannounced(o)
  <2>1. at'[o] \in Past /\ leaseID'[o] = leaseID[o] BY <1>1, <1>3 DEF Trails
  <2>2. leaseID[o] > 1 /\ \A i \in DOMAIN log[o] :
            log[o][i].event = "reacquired" => log[o][i].lease < leaseID[o]
    BY <1>3 DEF Unannounced
  <2>3. CASE log'[o] = log[o] BY <2>1, <2>2, <2>3 DEF Unannounced, Excused
  <2>4. ASSUME NEW r, NewRow(o, r), r.event # "reacquired", log'[o] = Append(log[o], r)
        PROVE  Excused(o)'
    <3>1. log[o] \in Seq(Row) /\ r \in Row BY <2>4 DEF PartiesInv, PartiesTyped, NewRow
    <3>2. \A i \in DOMAIN log'[o] : (i \in DOMAIN log[o] /\ log'[o][i] = log[o][i]) \/ log'[o][i] = r
      BY <2>4, <3>1, AppendedRows
    <3>3. Unannounced(o)' BY <2>1, <2>2, <2>4, <3>2 DEF Unannounced
    <3>. QED BY <2>1, <3>3 DEF Excused
  <2>. QED BY <1>1, <1>3, <2>3, <2>4 DEF Trails
<1>. QED BY <1>2, <1>3 DEF Excused

\* What one row makes of a reading that accepts it.
LEMMA Reads ==
    ASSUME PartiesInv, Remembers, NEW o \in Ops, NEW r, NewRow(o, r),
           log'[o] = Append(log[o], r), Lifecycle(log[o]).bad = FALSE,
           ~Refused(Lifecycle(log[o]), r)
    PROVE  LET st == Lifecycle(log[o])
               next == Lifecycle(log'[o])
           IN  /\ next \in LifeState /\ next.bad = FALSE
               /\ next.order = (IF r.event = "override_requested" THEN st.order
                                ELSE WorkEventOrder(r.event))
               /\ next.seen = st.seen \cup {r.event}
               /\ next.lease = (IF r.lease # 0 THEN r.lease ELSE st.lease)
               /\ next.reserved = (IF r.event = "reacquired" THEN FALSE
                                   ELSE IF r.event = "reserved" THEN TRUE ELSE st.reserved)
               /\ next.terminal = (IF r.event \in Terminals /\ (st.terminal = NoRow \/ r.event # "expired")
                                   THEN r ELSE st.terminal)
<1>. DEFINE st == Lifecycle(log[o])
            next == Lifecycle(log'[o])
<1>1. log[o] \in Seq(Row) /\ r \in Row /\ st \in LifeState
  BY DEF PartiesInv, PartiesTyped, NewRow, Remembers
<1>2. next = AddEvent(st, r) BY <1>1, LifecycleAppend
<1>3. st.bad = FALSE /\ ~Refused(st, r) OBVIOUS
<1>. HIDE DEF st, next
<1>4. /\ next \in LifeState /\ next.bad = FALSE
      /\ next.order = (IF r.event = "override_requested" THEN st.order
                       ELSE WorkEventOrder(r.event))
      /\ next.seen = st.seen \cup {r.event}
      /\ next.lease = (IF r.lease # 0 THEN r.lease ELSE st.lease)
      /\ next.reserved = (IF r.event = "reacquired" THEN FALSE
                          ELSE IF r.event = "reserved" THEN TRUE ELSE st.reserved)
      /\ next.terminal = (IF r.event \in Terminals /\ (st.terminal = NoRow \/ r.event # "expired")
                          THEN r ELSE st.terminal)
  BY <1>1, <1>2, <1>3, AddIs
<1>. QED BY <1>4 DEF st, next

\* Who is gone is at most recorded as expired.
LEMMA AsideInStep ==
    ASSUME PartiesInv, Remembers, NEW q \in Ops, Aside(q), InStep(q)
    PROVE  InStep(q)'
<1>. DEFINE st == Lifecycle(log[q])
            l == leaseID[q]
            r == ExpiredRow(q)
<1>0. /\ PartiesTyped /\ log[q] \in Seq(Row) /\ st \in LifeState /\ l \in Nat
      /\ st.bad = FALSE => ReadAs(log[q], st)
  BY DEF PartiesInv, PartiesTyped, Remembers
<1>1. /\ at'[q] = at[q] /\ leaseID'[q] = l /\ verdict'[q] = verdict[q]
      /\ place'[q] \in {place[q], "absent"}
      /\ \/ log'[q] = log[q]
         \/ Expirable(q) /\ ~OperationHasTerminal(q) /\ log'[q] = Append(log[q], r)
  BY DEF Aside, Swept
<1>2. Stands(q, at[q], l, verdict[q].lease, place[q], st) BY DEF InStep
<1>3. CASE log'[q] = log[q]
  <2>1. Stands(q, at[q], l, verdict[q].lease, place'[q], st)
    <3>. HIDE DEF st, l
    <3>. QED BY <1>1, <1>2 DEF Stands
  <2>. QED BY <1>1, <1>3, <2>1 DEF InStep
<1>4. CASE Expirable(q) /\ ~OperationHasTerminal(q) /\ log'[q] = Append(log[q], r)
  <2>1. at[q] \in {"dead", "done"} BY <1>4 DEF Expirable, WrapperAlive
  <2>2. st.bad = FALSE /\ st.lease \in {0, l}
    <3>. HIDE DEF st, l
    <3>. QED BY <1>2, <2>1, PointsAre DEF Stands
  <2>3. NewRow(q, r) /\ r \in Row /\ r.event = "expired" /\ r.lease \in {0, l}
    BY <1>0, ExpiredIs DEF NewRow
  <2>4. st.terminal = NoRow
    BY <1>0, <1>4, <2>2 DEF ReadAs, OperationHasTerminal, EndsOf
  <2>5. ~Refused(st, r)
    <3>. HIDE DEF st, l, r
    <3>. QED BY <1>0, <2>2, <2>3, <2>4, EndAccepted, EventsAre
  <2>. DEFINE next == Lifecycle(log'[q])
  <2>6. next.bad = FALSE /\ next.lease = (IF r.lease # 0 THEN r.lease ELSE st.lease)
    BY <1>4, <2>2, <2>3, <2>5, Reads
  <2>7. Stands(q, at[q], l, verdict[q].lease, place'[q], next)
    <3>. HIDE DEF st, l, r, next
    <3>. QED BY <2>1, <2>2, <2>3, <2>6 DEF Stands
  <2>. QED BY <1>1, <2>7 DEF InStep
<1>. QED BY <1>1, <1>3, <1>4

LEMMA OwnInStep ==
    ASSUME PartiesInv, Remembers, NEW o \in Ops, Actor(o), ~Excused(o), InStep(o)
    PROVE  Excused(o)' \/ InStep(o)'
<1>. DEFINE st == Lifecycle(log[o])
            next == Lifecycle(log'[o])
            Goal == Excused(o)' \/ InStep(o)'
<1>0. /\ PartiesTyped /\ Ordered(o) /\ log[o] \in Seq(Row) /\ leaseID[o] \in Nat
      /\ verdict[o] \in [kind : Kinds, lease : Nat] /\ aged[o] \in BOOLEAN
      /\ st \in LifeState /\ (st.bad = FALSE => ReadAs(log[o], st))
  <2>1. PartiesTyped /\ Ordered(o) BY DEF PartiesInv
  <2>2. st \in LifeState /\ (st.bad = FALSE => ReadAs(log[o], st)) BY DEF Remembers
  <2>. QED BY <2>1, <2>2 DEF PartiesTyped
<1>1. Stands(o, at[o], leaseID[o], verdict[o].lease, place[o], st) BY DEF InStep
<1>2. ASSUME NEW a, NEW m, NEW h, NEW p, at'[o] = a, leaseID'[o] = m, verdict'[o].lease = h,
             place'[o] = p, Stands(o, a, m, h, p, next)
      PROVE  Goal
  BY <1>2 DEF InStep
<1>3. log'[o] = log[o] => next = st OBVIOUS
<1>4. ASSUME NEW r, NewRow(o, r), ~Refused(st, r),
             log'[o] = Append(log[o], r) \/ (Adds(o, r) /\ ~Known(o, r))
      PROVE  /\ next.bad = FALSE
             /\ next.order = (IF r.event = "override_requested" THEN st.order
                              ELSE WorkEventOrder(r.event))
             /\ next.seen = st.seen \cup {r.event}
             /\ next.lease = (IF r.lease # 0 THEN r.lease ELSE st.lease)
             /\ next.reserved = (IF r.event = "reacquired" THEN FALSE
                                 ELSE IF r.event = "reserved" THEN TRUE ELSE st.reserved)
             /\ next.terminal = (IF r.event \in Terminals /\ (st.terminal = NoRow \/ r.event # "expired")
                                 THEN r ELSE st.terminal)
  <2>1. log'[o] = Append(log[o], r) BY <1>4 DEF Adds
  <2>2. st.bad = FALSE BY <1>1 DEF Stands
  <2>. QED BY <1>4, <2>1, <2>2, Reads
<1>. HIDE DEF st, next
<1>5. st.bad = FALSE /\ ReadAs(log[o], st) /\ aged[o] = FALSE
  BY <1>0, <1>1 DEF Stands, Excused
<1>6. \A r : Known(o, r) => /\ r.event \in st.seen
                            /\ \E i \in DOMAIN log[o] : /\ log[o][i].event = r.event
                                                        /\ log[o][i].lease = r.lease
  BY <1>5 DEF Known, ReadAs, EventsIn
<1>7. \A l \in 0..leaseID[o] :
        \A e \in {"queued", "override_requested", "acquired", "reserved", "reacquired", "started"} :
          /\ NewRow(o, Plain(o, e, l)) /\ Plain(o, e, l) \in Row
          /\ Plain(o, e, l).event = e /\ Plain(o, e, l).lease = l
          /\ e \notin Terminals
  <2>. SUFFICES ASSUME NEW l \in 0..leaseID[o], NEW e \in
         {"queued", "override_requested", "acquired", "reserved", "reacquired", "started"}
       PROVE  /\ NewRow(o, Plain(o, e, l)) /\ Plain(o, e, l) \in Row
              /\ Plain(o, e, l).event = e /\ Plain(o, e, l).lease = l
              /\ e \notin Terminals
    OBVIOUS
  <2>1. NewRow(o, Plain(o, e, l)) BY <1>0, PlainNew
  <2>2. Plain(o, e, l) \in Row BY <2>1 DEF NewRow
  <2>. QED BY <2>1, <2>2, PlainFields, EventsAre
<1>8. 0 \in 0..leaseID[o] /\ leaseID[o] \in 0..leaseID[o] BY <1>0
<1>10. CASE RecordQueued(o)
  <2>. DEFINE r == Plain(o, "queued", 0)
  <2>1. /\ at[o] = "new" /\ place'[o] = place[o]
        /\ (Goes(o, "admission") /\ Adds(o, r)) \/ (Goes(o, "done") /\ Same(o))
    BY <1>10, QueuedStep
  <2>2. NewRow(o, r) /\ r \in Row /\ r.event = "queued" /\ r.lease = 0 /\ r.event \notin Terminals
    BY <1>7, <1>8
  <2>. HIDE DEF r
  <2>3. log[o] = <<>> /\ place[o] = "absent" /\ leaseID[o] = 0 BY <1>0, <2>1 DEF Ordered
  <2>4. st = NewLifecycle BY <2>3, LifecycleOfNone DEF st
  <2>5. CASE Goes(o, "done") /\ Same(o)
    <3>1. Stands(o, "done", leaseID[o], verdict[o].lease, place[o], next)
      BY <1>3, <2>3, <2>4, <2>5, NewIs DEF Stands, Same
    <3>. QED BY <1>2, <2>5, <3>1 DEF Goes, Same
  <2>6. CASE Goes(o, "admission") /\ Adds(o, r)
    <3>1. ~Known(o, r) BY <2>3 DEF Known
    <3>2. ~Refused(st, r) BY <1>0, <1>5, <2>2, <2>4, NewIs, RowAccepted
    <3>3. /\ next.bad = FALSE /\ next.order = 0 /\ next.seen = {"queued"} /\ next.lease = 0
          /\ next.reserved = FALSE /\ next.terminal = NoRow
      BY <1>4, <2>2, <2>4, <2>6, <3>1, <3>2, NewIs, OrdersAre
    <3>4. "admission" \notin Past BY PointsAre
    <3>5. Stands(o, "admission", leaseID[o], verdict[o].lease, place[o], next)
      BY <2>3, <3>3, <3>4 DEF Stands, Early
    <3>. QED BY <1>2, <2>1, <2>6, <3>5 DEF Goes
  <2>. QED BY <2>1, <2>5, <2>6
<1>11. CASE AdmissionEnds(o)
  <2>1. PICK k \in Fates : at[o] = "admission" /\ Gives(o, "record", k, 0) /\ Same(o)
    BY <1>11, EndsStep
  <2>2. leaseID[o] = 0 BY <1>0, <2>1 DEF Ordered
  <2>3. Stands(o, "record", leaseID[o], 0, place[o], next)
    BY <1>1, <1>3, <2>1, <2>2, PointsAre DEF Stands, Same
  <2>. QED BY <1>2, <2>1, <2>3 DEF Gives, Same
<1>12. CASE RegisterWaiter(o)
  <2>1. /\ at[o] = "admission" /\ log'[o] = log[o]
        /\ \/ Goes(o, "waiting") /\ place'[o] = "waiter"
           \/ Gives(o, "record", "failed", 0) /\ place'[o] = place[o]
    BY <1>12, RegisterStep DEF Same
  <2>2. leaseID[o] = 0 BY <1>0, <2>1 DEF Ordered
  <2>3. Stands(o, "record", leaseID[o], 0, place[o], next)
    BY <1>1, <1>3, <2>1, <2>2, PointsAre DEF Stands
  <2>4. Stands(o, "waiting", leaseID[o], verdict[o].lease, "waiter", next)
    BY <1>1, <1>3, <2>1, <2>2, PointsAre DEF Stands
  <2>. QED BY <1>2, <2>1, <2>3, <2>4 DEF Gives, Goes
<1>13. CASE Acquire(o)
  <2>1. /\ at[o] \in {"admission", "waiting", "reserved"}
        /\ at'[o] = (IF at[o] = "reserved" THEN "reacquired" ELSE "acquired")
        /\ verdict'[o] = verdict[o] /\ leaseID'[o] = leaseID[o] + 1
        /\ log'[o] = log[o] /\ place'[o] = "wrapper"
    BY <1>13, AcquireStep
  <2>2. at[o] = "reserved"
        => Stands(o, "reacquired", leaseID[o] + 1, verdict[o].lease, "wrapper", next)
    BY <1>1, <1>3, <2>1, PointsAre DEF Stands
  <2>3. at[o] # "reserved"
        => Stands(o, "acquired", leaseID[o] + 1, verdict[o].lease, "wrapper", next)
    BY <1>1, <1>3, <2>1, PointsAre DEF Stands
  <2>. QED BY <1>2, <2>1, <2>2, <2>3
<1>14. CASE GiveUp(o)
  <2>1. PICK k \in Fates : Gives(o, "record", k, 0) BY <1>14, GiveUpStep
  <2>2. /\ at[o] \in {"waiting", "reserved"} /\ log'[o] = log[o]
        /\ place'[o] = "absent" \/ o \in stuck'
    BY <1>14, GiveUpStep DEF Same
  <2>3. Stands(o, "record", leaseID[o], 0, "absent", next)
    BY <1>1, <1>3, <2>2, PointsAre DEF Stands
  <2>4. place'[o] = "absent" => Goal BY <1>2, <2>1, <2>3 DEF Gives
  <2>. QED BY <2>2, <2>4 DEF Excused
<1>15. CASE RecordAcquired(o)
  <2>. DEFINE r == Plain(o, at[o], leaseID[o])
  <2>1. /\ at[o] \in {"acquired", "reacquired"} /\ place'[o] = place[o]
        /\ \/ Goes(o, "owned") /\ Adds(o, r)
           \/ Gives(o, "release", "failed", leaseID[o]) /\ Same(o)
    BY <1>15, AcquiredStep
  <2>2. /\ NewRow(o, r) /\ r \in Row /\ r.event = at[o] /\ r.lease = leaseID[o]
        /\ r.event \notin Terminals
    BY <1>7, <1>8, <2>1
  <2>. HIDE DEF r
  <2>3. /\ leaseID[o] > 0 /\ (at[o] = "reacquired" => leaseID[o] > 1)
        /\ \A i \in DOMAIN log[o] : log[o][i].lease < leaseID[o]
    BY <1>0, <2>1 DEF Ordered
  <2>4. place[o] # "waiter" /\ st.terminal = NoRow BY <1>1, <2>1 DEF Stands
  <2>5. CASE Goes(o, "owned") /\ Adds(o, r)
    <3>1. ~Known(o, r) BY <1>0, <1>6, <2>2, <2>3
    <3>2. ~Refused(st, r)
      <4>1. CASE at[o] = "acquired"
        <5>1. st.order = 0 /\ st.lease = 0 /\ st.seen \subseteq Early BY <1>1, <4>1 DEF Stands
        <5>. QED BY <1>0, <1>5, <2>2, <2>4, <4>1, <5>1, RowAccepted
      <4>2. CASE at[o] = "reacquired"
        <5>1. st.order = 3 /\ st.reserved = TRUE BY <1>1, <4>2 DEF Stands
        <5>. QED BY <1>0, <1>5, <2>2, <2>4, <4>2, <5>1, RowAccepted
      <4>. QED BY <2>1, <4>1, <4>2
    <3>3. st.seen \subseteq Later /\ (at[o] = "acquired" => st.reserved = FALSE)
      BY <1>1, <2>1 DEF Stands, Later
    <3>4. /\ next.bad = FALSE /\ next.order \in {2, 4} /\ next.seen \subseteq Later
          /\ next.lease = leaseID[o] /\ next.reserved = FALSE /\ next.terminal = NoRow
      <4>1. /\ next.bad = FALSE /\ next.order = WorkEventOrder(r.event)
            /\ next.seen = st.seen \cup {r.event} /\ next.lease = leaseID[o]
            /\ next.reserved = (IF r.event = "reacquired" THEN FALSE ELSE st.reserved)
            /\ next.terminal = NoRow
        <5>1. r.event \notin {"override_requested", "reserved"} BY <2>1, <2>2
        <5>2. next.bad = FALSE /\ next.order = WorkEventOrder(r.event)
          BY <1>4, <2>2, <2>5, <3>1, <3>2, <5>1
        <5>6. /\ next.seen = st.seen \cup {r.event}
              /\ next.lease = (IF r.lease # 0 THEN r.lease ELSE st.lease)
          BY <1>4, <2>2, <2>5, <3>1, <3>2
        <5>7. r.lease = leaseID[o] /\ r.lease # 0 BY <1>0, <2>2, <2>3
        <5>3. next.seen = st.seen \cup {r.event} /\ next.lease = leaseID[o] BY <5>6, <5>7
        <5>4. next.reserved = (IF r.event = "reacquired" THEN FALSE ELSE st.reserved)
          BY <1>4, <2>2, <2>5, <3>1, <3>2, <5>1
        <5>5. next.terminal = NoRow BY <1>4, <2>2, <2>4, <2>5, <3>1, <3>2
        <5>. QED BY <5>2, <5>3, <5>4, <5>5
      <4>2. at[o] \in Later BY <2>1 DEF Later
      <4>3. next.seen \subseteq Later BY <2>2, <3>3, <4>1, <4>2
      <4>4. next.order \in {2, 4} BY <2>1, <2>2, <4>1, OrdersAre
      <4>. QED BY <2>1, <2>2, <3>3, <4>1, <4>3, <4>4
    <3>5. Stands(o, "owned", leaseID[o], verdict[o].lease, place[o], next)
      BY <2>4, <3>4, PointsAre DEF Stands
    <3>. QED BY <1>2, <2>1, <2>5, <3>5 DEF Goes
  <2>6. CASE Gives(o, "release", "failed", leaseID[o]) /\ Same(o) /\ at[o] = "acquired"
    <3>1. Stands(o, "release", leaseID[o], leaseID[o], place[o], next)
      BY <1>1, <1>3, <2>4, <2>6, PointsAre DEF Stands, Same
    <3>. QED BY <1>2, <2>1, <2>6, <3>1 DEF Gives
  <2>7. CASE Gives(o, "release", "failed", leaseID[o]) /\ Same(o) /\ at[o] = "reacquired"
    <3>1. Unannounced(o)' BY <2>3, <2>7 DEF Unannounced, Gives, Same
    <3>. QED BY <2>7, <3>1, PointsAre DEF Excused, Gives
  <2>. QED BY <2>1, <2>5, <2>6, <2>7
<1>16. CASE ReserveForPressure(o)
  <2>1. /\ at[o] = "owned" /\ log'[o] = log[o]
        /\ \/ Goes(o, "reserving") /\ place'[o] = "waiter"
           \/ Gives(o, "release", "failed", leaseID[o]) /\ place'[o] = place[o]
    BY <1>16, ReserveStep DEF Same
  <2>2. Stands(o, "reserving", leaseID[o], verdict[o].lease, "waiter", next)
    BY <1>1, <1>3, <2>1, PointsAre DEF Stands
  <2>3. Stands(o, "release", leaseID[o], leaseID[o], place[o], next)
    BY <1>1, <1>3, <2>1, PointsAre DEF Stands
  <2>. QED BY <1>2, <2>1, <2>2, <2>3 DEF Goes, Gives
<1>17. CASE RecordReserved(o)
  <2>. DEFINE r == Plain(o, "reserved", leaseID[o])
  <2>1. /\ at[o] = "reserving" /\ place'[o] = place[o]
        /\ \/ Goes(o, "reserved") /\ Adds(o, r)
           \/ Gives(o, "release", "failed", 0) /\ Same(o)
    BY <1>17, ReservedStep
  <2>2. /\ NewRow(o, r) /\ r \in Row /\ r.event = "reserved" /\ r.lease = leaseID[o]
        /\ r.event \notin Terminals
    BY <1>7, <1>8
  <2>. HIDE DEF r
  <2>3. /\ leaseID[o] > 0
        /\ \A i \in DOMAIN log[o] : log[o][i].lease = leaseID[o] => log[o][i].event # "reserved"
    BY <1>0, <2>1 DEF Ordered
  <2>4. /\ st.order \in {2, 4} /\ st.lease = leaseID[o] /\ st.reserved = FALSE
        /\ st.seen \subseteq Later /\ st.terminal = NoRow
    BY <1>1, <2>1 DEF Stands
  <2>5. CASE Goes(o, "reserved") /\ Adds(o, r)
    <3>1. ~Known(o, r) BY <1>6, <2>2, <2>3
    <3>2. ~Refused(st, r) BY <1>0, <1>5, <2>2, <2>4, RowAccepted
    <3>3. /\ next.bad = FALSE /\ next.order = 3 /\ next.seen \subseteq Later
          /\ next.lease = leaseID[o] /\ next.reserved = TRUE /\ next.terminal = NoRow
      <4>1. /\ next.bad = FALSE /\ next.order = 3 /\ next.seen = st.seen \cup {"reserved"}
            /\ next.lease = leaseID[o] /\ next.reserved = TRUE /\ next.terminal = NoRow
        BY <1>0, <1>4, <2>2, <2>3, <2>4, <2>5, <3>1, <3>2, OrdersAre
      <4>2. "reserved" \in Later BY DEF Later
      <4>. QED BY <2>4, <4>1, <4>2
    <3>4. Stands(o, "reserved", leaseID[o], verdict[o].lease, place[o], next)
      BY <3>3, PointsAre DEF Stands
    <3>. QED BY <1>2, <2>1, <2>5, <3>4 DEF Goes
  <2>6. CASE Gives(o, "release", "failed", 0) /\ Same(o)
    <3>1. Stands(o, "release", leaseID[o], 0, place[o], next)
      BY <1>1, <1>3, <2>4, <2>6, PointsAre DEF Stands, Same
    <3>. QED BY <1>2, <2>1, <2>6, <3>1 DEF Gives
  <2>. QED BY <2>1, <2>5, <2>6
<1>18. CASE AbandonStart(o)
  <2>1. PICK k \in Fates : at[o] = "owned" /\ Gives(o, "release", k, leaseID[o]) /\ Same(o)
    BY <1>18, AbandonStep
  <2>2. Stands(o, "release", leaseID[o], leaseID[o], place[o], next)
    BY <1>1, <1>3, <2>1, PointsAre DEF Stands, Same
  <2>. QED BY <1>2, <2>1, <2>2 DEF Gives, Same
<1>19. CASE BindPID(o)
  <2>1. /\ at[o] = "owned" /\ log'[o] = log[o]
        /\ \/ Goes(o, "bound") /\ place'[o] = "child"
           \/ Gives(o, "receipt", "failed", leaseID[o]) /\ place'[o] = place[o]
    BY <1>19, BindStep DEF Same
  <2>2. Stands(o, "bound", leaseID[o], verdict[o].lease, "child", next)
    BY <1>1, <1>3, <2>1, PointsAre DEF Stands
  <2>3. Stands(o, "receipt", leaseID[o], leaseID[o], place[o], next)
    BY <1>1, <1>3, <2>1, PointsAre DEF Stands
  <2>. QED BY <1>2, <2>1, <2>2, <2>3 DEF Goes, Gives
<1>20. CASE RecordStarted(o)
  <2>. DEFINE r == Plain(o, "started", leaseID[o])
  <2>1. /\ at[o] = "bound" /\ place'[o] = place[o]
        /\ \/ Goes(o, "running") /\ Adds(o, r)
           \/ Gives(o, "receipt", "failed", leaseID[o]) /\ Same(o)
    BY <1>20, StartedStep
  <2>2. /\ NewRow(o, r) /\ r \in Row /\ r.event = "started" /\ r.lease = leaseID[o]
        /\ r.event \notin Terminals
    BY <1>7, <1>8
  <2>. HIDE DEF r
  <2>3. leaseID[o] > 0 BY <1>0, <2>1 DEF Ordered
  <2>4. /\ st.order \in {2, 4} /\ st.lease = leaseID[o] /\ st.seen \subseteq Later
        /\ st.terminal = NoRow /\ place[o] # "waiter"
    BY <1>1, <2>1 DEF Stands
  <2>5. CASE Goes(o, "running") /\ Adds(o, r)
    <3>1. ~Known(o, r) BY <1>6, <2>2, <2>4 DEF Later, Early
    <3>2. ~Refused(st, r) BY <1>0, <1>5, <2>2, <2>4, RowAccepted
    <3>3. next.bad = FALSE /\ next.lease = leaseID[o] /\ next.terminal = NoRow
      BY <1>4, <2>2, <2>3, <2>4, <2>5, <3>1, <3>2
    <3>4. Stands(o, "running", leaseID[o], verdict[o].lease, place[o], next)
      BY <2>4, <3>3, PointsAre DEF Stands
    <3>. QED BY <1>2, <2>1, <2>5, <3>4 DEF Goes
  <2>6. CASE Gives(o, "receipt", "failed", leaseID[o]) /\ Same(o)
    <3>1. Stands(o, "receipt", leaseID[o], leaseID[o], place[o], next)
      BY <1>1, <1>3, <2>4, <2>6, PointsAre DEF Stands, Same
    <3>. QED BY <1>2, <2>1, <2>6, <3>1 DEF Gives
  <2>. QED BY <2>1, <2>5, <2>6
<1>21. CASE ChildExit(o)
  <2>1. /\ Same(o)
        /\ \/ at[o] = "running" /\ \E k \in Fates : Gives(o, "reap", k, leaseID[o])
           \/ at[o] = "dead" /\ Goes(o, "dead")
    BY <1>21, ChildStep
  <2>2. ASSUME at[o] = "running", NEW k \in Fates, Gives(o, "reap", k, leaseID[o]) PROVE Goal
    <3>1. Stands(o, "reap", leaseID[o], leaseID[o], place[o], next)
      BY <1>1, <1>3, <2>1, <2>2, PointsAre DEF Stands, Same
    <3>. QED BY <1>2, <2>1, <2>2, <3>1 DEF Gives, Same
  <2>3. CASE at[o] = "dead" /\ Goes(o, "dead")
    <3>1. Stands(o, "dead", leaseID[o], verdict[o].lease, place[o], next)
      BY <1>1, <1>3, <2>1, <2>3 DEF Same
    <3>. QED BY <1>2, <2>1, <2>3, <3>1 DEF Goes, Same
  <2>. QED BY <2>1, <2>2, <2>3
<1>22. CASE RecordTerminal(o)
  <2>. DEFINE r == TerminalRow(o)
              x == IF at[o] = "record" THEN "leaving" ELSE "finalize"
  <2>1. /\ at[o] \in {"record", "receipt", "reap"} /\ Goes(o, x) /\ place'[o] = place[o]
        /\ Adds(o, r) \/ Same(o)
    BY <1>22, TerminalStep
  <2>2. /\ NewRow(o, r) /\ r \in Row /\ r.event \in Receipts /\ r.lease = verdict[o].lease
        /\ r.exit = (at[o] = "reap") /\ r.late = aged[o] /\ r.op = o
    BY <1>0, <2>1, PointsAre, TerminalIs DEF Ordered, NewRow
  <2>3. x \in {"leaving", "finalize"} OBVIOUS
  <2>. HIDE DEF r, x
  <2>4. /\ st.lease \in {0, leaseID[o]} /\ verdict[o].lease \in {0, leaseID[o]}
        /\ place[o] # "waiter"
        /\ at[o] # "reap" => st.terminal = NoRow
        /\ at[o] = "reap" => /\ verdict[o].lease = leaseID[o]
                             /\ st.terminal \in {NoRow, ExpiredWhile(o, leaseID[o])}
    BY <1>1, <2>1, PointsAre DEF Stands
  <2>5. CASE next = st
    <3>1. Stands(o, x, leaseID[o], verdict[o].lease, place[o], next)
      BY <1>5, <2>3, <2>4, <2>5 DEF Stands
    <3>. QED BY <1>2, <2>1, <3>1 DEF Goes
  <2>6. CASE Adds(o, r) /\ ~Known(o, r)
    <3>1. \/ st.terminal = NoRow
          \/ /\ st.terminal.event = "expired" /\ r.event # "expired"
             /\ IsLateRealTerminalAfterReconciliation(st.terminal, r)
      <4>1. CASE st.terminal # NoRow
        <5>1. at[o] = "reap" /\ st.terminal = ExpiredWhile(o, leaseID[o]) BY <2>4, <4>1
        <5>2. leaseID[o] > 0 BY <1>0, <5>1 DEF Ordered
        <5>3. /\ st.terminal.event = "expired" /\ st.terminal.outcome = "dead_owner"
              /\ st.terminal.op = o /\ st.terminal.lease = leaseID[o]
          BY <5>1 DEF ExpiredWhile
        <5>4. r.exit = TRUE /\ r.late = FALSE /\ r.lease = leaseID[o] BY <1>5, <2>2, <2>4, <5>1
        <5>. QED BY <1>0, <2>2, <5>2, <5>3, <5>4
                 DEF IsLateRealTerminalAfterReconciliation, Receipts
      <4>. QED BY <4>1
    <3>2. r.event \in Terminals /\ (r.lease = 0 \/ st.lease = 0 \/ r.lease = st.lease)
      BY <2>2, <2>4, EventsAre
    <3>3. ~Refused(st, r) BY <1>0, <1>5, <2>2, <3>1, <3>2, EndAccepted
    <3>4. next.bad = FALSE /\ next.lease \in {0, leaseID[o]}
      BY <1>4, <2>2, <2>4, <2>6, <3>3
    <3>5. Stands(o, x, leaseID[o], verdict[o].lease, place[o], next)
      BY <2>3, <2>4, <3>4 DEF Stands
    <3>. QED BY <1>2, <2>1, <3>5 DEF Goes
  <2>7. next = st \/ (Adds(o, r) /\ ~Known(o, r)) BY <1>3, <2>1 DEF Adds, Same
  <2>. QED BY <2>5, <2>6, <2>7
<1>23. CASE Release(o)
  <2>. DEFINE x == IF at[o] = "release" THEN "record" ELSE "leaving"
  <2>1. /\ at[o] \in {"release", "finalize"} /\ Goes(o, x) /\ log'[o] = log[o]
        /\ place'[o] = "absent" \/ (place'[o] = place[o] /\ (place[o] = "waiter" => o \in stuck'))
    BY <1>23, ReleaseStep DEF Same
  <2>2. (at[o] = "release" /\ x = "record") \/ (at[o] = "finalize" /\ x = "leaving") BY <2>1
  <2>. HIDE DEF x
  <2>3. CASE place'[o] # "waiter"
    <3>1. Stands(o, x, leaseID[o], verdict[o].lease, place'[o], next)
      <4>1. at[o] = "release" => Stands(o, "record", leaseID[o], verdict[o].lease, place'[o], next)
        BY <1>1, <1>3, <2>1, <2>3, PointsAre DEF Stands
      <4>2. at[o] = "finalize" => Stands(o, "leaving", leaseID[o], verdict[o].lease, place'[o], next)
        BY <1>1, <1>3, <2>1, <2>3, PointsAre DEF Stands
      <4>. QED BY <2>2, <4>1, <4>2
    <3>. QED BY <1>2, <2>1, <3>1 DEF Goes
  <2>4. CASE place'[o] = "waiter" BY <2>1, <2>4 DEF Excused
  <2>. QED BY <2>3, <2>4
<1>24. CASE Exit(o)
  <2>1. at[o] = "leaving" /\ Goes(o, "done") /\ Same(o) BY <1>24, ExitStep
  <2>2. Stands(o, "done", leaseID[o], verdict[o].lease, place[o], next)
    BY <1>1, <1>3, <2>1, PointsAre DEF Stands, Same
  <2>. QED BY <1>2, <2>1, <2>2 DEF Goes, Same
<1>25. CASE Crash(o)
  <2>1. at[o] \notin {"new", "done", "dead"} /\ Goes(o, "dead") /\ Same(o) BY <1>25, CrashStep
  <2>2. CASE at[o] = "reacquired"
    <3>1. leaseID[o] > 1 /\ \A i \in DOMAIN log[o] : log[o][i].lease < leaseID[o]
      BY <1>0, <2>2 DEF Ordered
    <3>2. Unannounced(o)' BY <2>1, <3>1 DEF Unannounced, Goes, Same
    <3>. QED BY <2>1, <3>2, PointsAre DEF Excused, Goes
  <2>3. CASE at[o] # "reacquired"
    <3>1. at[o] \in Points BY <1>0 DEF PartiesTyped
    <3>2. st.lease \in {0, leaseID[o]}
      BY <1>1, <2>1, <2>3, <3>1 DEF Stands, Points, Past
    <3>3. Stands(o, "dead", leaseID[o], verdict[o].lease, place[o], next)
      BY <1>3, <1>5, <2>1, <3>2, PointsAre DEF Stands, Same
    <3>. QED BY <1>2, <2>1, <3>3 DEF Goes, Same
  <2>. QED BY <2>2, <2>3
<1>26. CASE ProbeRace(o)
  <2>. DEFINE r == ExpiredRow(o)
  <2>1. PICK k \in Fates : Gives(o, "reap", k, leaseID[o]) BY <1>26, ProbeStep
  <2>2. /\ at[o] = "running" /\ place[o] = "child" /\ place'[o] = "absent"
        /\ log'[o] = log[o] \/ log'[o] = Append(log[o], r)
    BY <1>26, ProbeStep
  <2>3. st.lease = leaseID[o] /\ st.terminal = NoRow BY <1>1, <2>2 DEF Stands
  <2>4. CASE log'[o] = log[o]
    <3>1. Stands(o, "reap", leaseID[o], leaseID[o], "absent", next)
      BY <1>3, <1>5, <2>3, <2>4, PointsAre DEF Stands
    <3>. QED BY <1>2, <2>1, <2>2, <3>1 DEF Gives
  <2>5. CASE log'[o] = Append(log[o], r)
    <3>1. r = ExpiredWhile(o, leaseID[o])
      <4>. DEFINE l == leaseID[o]
      <4>1. r = [Plain(o, "expired", l) EXCEPT !.outcome = "dead_owner"]
        BY <2>2 DEF ExpiredRow
      <4>. HIDE DEF l
      <4>2. r = ExpiredWhile(o, l) BY <4>1 DEF ExpiredWhile, Plain
      <4>. QED BY <4>2 DEF l
    <3>2. NewRow(o, r) /\ r \in Row /\ r.event = "expired" /\ r.lease = leaseID[o]
      BY <1>0, <2>2, ExpiredIs DEF NewRow
    <3>. HIDE DEF r
    <3>3. ~Refused(st, r) BY <1>0, <1>5, <2>3, <3>2, EndAccepted, EventsAre
    <3>4. next.bad = FALSE /\ next.lease = leaseID[o] /\ next.terminal = r
      <4>1. /\ next.bad = FALSE
            /\ next.lease = (IF r.lease # 0 THEN r.lease ELSE st.lease)
            /\ next.terminal = (IF r.event \in Terminals /\ (st.terminal = NoRow \/ r.event # "expired")
                                THEN r ELSE st.terminal)
        BY <1>4, <2>5, <3>2, <3>3
      <4>. QED BY <2>3, <3>2, <4>1, EventsAre
    <3>5. Stands(o, "reap", leaseID[o], leaseID[o], "absent", next)
      BY <3>1, <3>4, PointsAre DEF Stands
    <3>. QED BY <1>2, <2>1, <2>2, <3>5 DEF Gives
  <2>. QED BY <2>2, <2>4, <2>5
<1>27. CASE Age(o) BY <1>27, AgeStep DEF Excused
<1>28. CASE CancelSignal(o) BY <1>28, SignalStep DEF Excused
<1>29. CASE OverrideWaiter(o)
  <2>. DEFINE r == Plain(o, "override_requested", 0)
  <2>1. /\ Goes(o, at[o]) /\ place[o] = "waiter" /\ place'[o] = "waiter" /\ WrapperAlive(o)
        /\ log'[o] = Append(log[o], r)
    BY <1>29, OverrideStep
  <2>2. /\ NewRow(o, r) /\ r \in Row /\ r.event = "override_requested" /\ r.lease = 0
        /\ r.event \notin Terminals
    BY <1>7, <1>8
  <2>. HIDE DEF r
  <2>3. at[o] \in {"waiting", "reserving", "reserved", "release"}
    BY <1>1, <2>1 DEF Stands, WrapperAlive
  <2>4. st.terminal = NoRow BY <1>1, <2>3 DEF Stands
  <2>5. ~Refused(st, r) BY <1>0, <1>5, <2>2, <2>4, RowAccepted
  <2>6. /\ next.bad = FALSE /\ next.order = st.order /\ next.lease = st.lease
        /\ next.seen = st.seen \cup {"override_requested"}
        /\ next.reserved = st.reserved /\ next.terminal = NoRow
    BY <1>4, <2>1, <2>2, <2>4, <2>5
  <2>7. "override_requested" \in Early /\ "override_requested" \in Later BY DEF Early, Later
  <2>8. Stands(o, at[o], leaseID[o], verdict[o].lease, "waiter", next)
    BY <1>1, <2>3, <2>6, <2>7, PointsAre DEF Stands
  <2>. QED BY <1>2, <2>1, <2>8 DEF Goes
<1>. QED
  BY <1>10, <1>11, <1>12, <1>13, <1>14, <1>15, <1>16, <1>17, <1>18, <1>19, <1>20, <1>21, <1>22,
     <1>23, <1>24, <1>25, <1>26, <1>27, <1>28, <1>29 DEF Actor, Wrapper

LEMMA InStepKept ==
    ASSUME PartiesInv, Remembers, [Next]_vars, NEW o \in Ops, ~Excused(o), InStep(o)
    PROVE  Excused(o)' \/ InStep(o)'
<1>0. PartiesTyped BY DEF PartiesInv
<1>1. CASE Aside(o) BY <1>1, AsideInStep
<1>2. CASE Actor(o) BY <1>2, OwnInStep
<1>3. Aside(o) \/ Actor(o)
  <2>1. CASE Nobody BY <1>0, <2>1, NobodyIs
  <2>2. CASE DropLeaseAppend
    <3>1. o # drop.op BY DEF Excused
    <3>. QED BY <2>2, <3>1, DropStep
  <2>3. ASSUME NEW q \in Ops, Actor(q) PROVE Aside(o) \/ Actor(o)
    BY <2>3, OwnOrdered DEF Apart
  <2>. QED BY <2>1, <2>2, <2>3, NextIs
<1>. QED BY <1>1, <1>2, <1>3

Readable == \A o \in Ops : Excused(o) \/ InStep(o)

LEMMA ReadableInit == Init => Readable
<1>. SUFFICES ASSUME Init, NEW o \in Ops PROVE InStep(o) BY DEF Readable
<1>1. /\ at[o] = "new" /\ leaseID[o] = 0 /\ place[o] = "absent" /\ log[o] = <<>>
  BY DEF Init
<1>2. Lifecycle(log[o]) = NewLifecycle BY <1>1, LifecycleOfNone
<1>3. Stands(o, "new", 0, verdict[o].lease, "absent", NewLifecycle)
  BY NewIs, PointsAre DEF Stands
<1>. QED BY <1>1, <1>2, <1>3 DEF InStep

LEMMA ReadableStep ==
    ASSUME PartiesInv, Remembers, Readable, [Next]_vars
    PROVE  Readable'
<1>1. ASSUME NEW o \in Ops PROVE Excused(o)' \/ InStep(o)'
  <2>1. CASE Excused(o) BY <2>1, ExcusedStays
  <2>2. CASE ~Excused(o) /\ InStep(o) BY <2>2, InStepKept
  <2>. QED BY <2>1, <2>2 DEF Readable
<1>. QED BY <1>1 DEF Readable

LEMMA RefusedExplained ==
    ASSUME PartiesInv, Readable
    PROVE  SkippedExplained
<1>1. TypeOK
  <2>1. \A o \in Ops : \A i \in DOMAIN log[o] : log[o][i] \in Row
    BY DEF PartiesInv, OwnRows, NewRow
  <2>2. drop.op \in Ops \cup {NoOp} BY DEF PartiesInv, PartiesTyped
  <2>. QED BY <2>1, <2>2 DEF PartiesInv, PartiesTyped, TypeOK, Where, Kinds
<1>2. ASSUME NEW o \in SkippedOperations
      PROVE  aged[o] \/ drop.op = o \/ o \in stuck \/ Unannounced(o)
  <2>1. o \in Ops /\ Lifecycle(log[o]).bad BY DEF SkippedOperations
  <2>2. ~InStep(o) BY <2>1 DEF InStep, Stands
  <2>. QED BY <2>1, <2>2 DEF Readable, Excused
<1>. QED BY <1>1, <1>2 DEF SkippedExplained

\* The readers refuse an operation only in the four cases: no other crash, lost row,
\* failed call or reservation cycle makes its rows unreadable
\* (workEventLifecycleValidator.add).
THEOREM SkipsExplained == Spec => []SkippedExplained
<1>1. Init => PartiesInv /\ Remembers /\ Readable
  BY PartiesInit, RemembersInit, ReadableInit
<1>2. PartiesInv /\ Remembers /\ Readable /\ [Next]_vars
      => PartiesInv' /\ Remembers' /\ Readable'
  BY PartiesStep, RemembersStep, ReadableStep
<1>3. PartiesInv /\ Readable => SkippedExplained BY RefusedExplained
<1>. QED BY <1>1, <1>2, <1>3, PTL DEF Spec
=============================================================================
