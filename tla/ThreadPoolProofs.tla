-------------------------- MODULE ThreadPoolProofs --------------------------
(***************************************************************************)
(* Three facts about the thread pool, for any threads, jobs and nesting of *)
(* jobs: no notification is lost, wait returns only when the jobs of its   *)
(* waiter have ended and tells whether one of them threw, and is_leaf      *)
(* always tells whether the job in progress is a leaf.                     *)
(*                                                                         *)
(* The last two rest on one inductive invariant, Inv: how frames nest on   *)
(* the stacks, that no job has two frames or is both queued and started,   *)
(* that what a frame has yet to submit is fresh, and that num[w] is the    *)
(* number of jobs of w that are queued or run from the queue.              *)
(***************************************************************************)
EXTENDS ThreadPool, TLAPS

(* The provers of a leaf that names none, with their time limits.           *)
USE SMTT(30), ZenonT(30)

-----------------------------------------------------------------------------
(* No notification is lost.                                                 *)

(* A worker that sleeps is a worker: what NotifyOne needs to wake one.     *)
WakeupInv == asleep \subseteq Worker /\ NoLostWakeup

(* Whatever submit did before, its notification leaves a worker awake.     *)
LEMMA NotifyLeavesOneAwake ==
    ASSUME asleep \subseteq Worker, NotifyOne
    PROVE  asleep' \subseteq Worker /\ (Worker # {} => Worker \ asleep' # {})
<1>1. CASE asleep = {} /\ UNCHANGED asleep
  BY <1>1
<1>2. CASE \E u \in asleep : asleep' = asleep \ {u}
  BY <1>2
<1>3. QED
  BY <1>1, <1>2 DEF NotifyOne

(* A worker goes to sleep only when it finds the queue empty.              *)
LEMMA StepKeepsWakeup ==
    ASSUME WakeupInv, NEW t \in Thread, Step(t)
    PROVE  WakeupInv'
<1>1. CASE Submit(t)
  <2>1. CASE queue' = queue /\ asleep' = asleep
    BY <2>1 DEF WakeupInv, NoLostWakeup
  <2>2. CASE NotifyOne
    BY <2>2, NotifyLeavesOneAwake DEF WakeupInv, NoLostWakeup
  <2>3. (queue' = queue /\ asleep' = asleep) \/ NotifyOne
    BY <1>1 DEF Submit
  <2>4. QED
    BY <2>1, <2>2, <2>3
<1>2. CASE Take(t)
  BY <1>2 DEF Take, WakeupInv, NoLostWakeup
<1>3. CASE Sleep(t)
  BY <1>3 DEF Sleep, WakeupInv, NoLostWakeup
<1>4. CASE Flushed(t)
  BY <1>4 DEF Flushed, WakeupInv, NoLostWakeup
<1>5. CASE Wait(t)
  BY <1>5 DEF Wait, WakeupInv, NoLostWakeup
<1>6. CASE EndQueued(t)
  BY <1>6 DEF EndQueued, WakeupInv, NoLostWakeup
<1>7. CASE Relock(t)
  BY <1>7 DEF Relock, WakeupInv, NoLostWakeup
<1>8. CASE EndInline(t)
  BY <1>8 DEF EndInline, WakeupInv, NoLostWakeup
<1>9. CASE EndClient(t)
  BY <1>9 DEF EndClient, WakeupInv, NoLostWakeup
<1>10. QED
  BY <1>1, <1>2, <1>3, <1>4, <1>5, <1>6, <1>7, <1>8, <1>9 DEF Step

(* Queued work never waits while all workers of the pool sleep.  Fairness  *)
(* plays no part, but the statement is about the specification TLC checks. *)
THEOREM NoWakeupLost == FairSpec => []NoLostWakeup
<1>1. Init => WakeupInv
  BY DEF Init, WakeupInv, NoLostWakeup
<1>2. WakeupInv /\ [Next]_vars => WakeupInv'
  <2>1. WakeupInv /\ Next => WakeupInv'
    BY StepKeepsWakeup DEF Next
  <2>2. WakeupInv /\ UNCHANGED vars => WakeupInv'
    BY DEF vars, WakeupInv, NoLostWakeup
  <2>3. QED
    BY <2>1, <2>2
<1>3. WakeupInv => NoLostWakeup
  BY DEF WakeupInv
<1>4. QED
  BY <1>1, <1>2, <1>3, PTL DEF FairSpec

Waiter == Client \union Job
Phase == {"submit", "flush", "block", "parked", "end", "relock"}
FrameType == [who : Waiter, next : Nat, from : {"client", "queue", "inline"},
              failed : BOOLEAN, phase : Phase]

TypeInv ==
    /\ queue \in Seq(Job)
    /\ stack \in [Thread -> Seq(FrameType)]
    /\ is_leaf \in [Thread -> BOOLEAN]
    /\ num \in [Waiter -> Nat]
    /\ error \subseteq Waiter
    /\ ended \in [Job -> {"no", "ok", "threw", "raised"}]
    /\ answer \in [Waiter -> {"none", "done", "error"}]

Frames(t) == 1..Len(stack[t])

(* A frame is where its origin says: a client's at the bottom, a job run at *)
(* once above the frame that submitted it.                                  *)
Origin(t, i, w, from) ==
    /\ from = "client" => i = 1 /\ w = t
    /\ from # "client" => w \in Job
    /\ from = "inline" => i > 1

Below(w, v) == w \in Range(Work[v]) \ Leaf

Nested ==
    \A t \in Thread : \A i \in Frames(t) :
        /\ Origin(t, i, stack[t][i].who, stack[t][i].from)
        /\ stack[t][i].from = "inline" => Below(stack[t][i].who, stack[t][i - 1].who)

(* No client or job has two frames.                                         *)
Unique ==
    \A t, u \in Thread : \A i \in Frames(t), k \in Frames(u) :
        stack[t][i].who = stack[u][k].who => t = u /\ i = k

OnStack(v) == \E t \in Thread : \E i \in Frames(t) : stack[t][i].who = v

-----------------------------------------------------------------------------
(* A frame stays as it is, or its thread is notified.                       *)
Kept(f, h) == h = f \/ (f.phase = "parked" /\ h = [f EXCEPT !.phase = "block"])

(* A step of t replaces its innermost frame by g, ...                       *)
Turned(t, g) ==
    /\ stack' \in [Thread -> Seq(FrameType)]
    /\ \A u \in Thread : Len(stack'[u]) = Len(stack[u])
    /\ stack'[t][Len(stack[t])] = g
    /\ \A u \in Thread : \A i \in Frames(u) :
          u # t \/ i # Len(stack[t]) => Kept(stack[u][i], stack'[u][i])

(* ... puts frame h on g, ...                                               *)
Pushed(t, g, h) ==
    /\ stack' \in [Thread -> Seq(FrameType)]
    /\ \A u \in Thread : Len(stack'[u]) = IF u = t THEN Len(stack[u]) + 1 ELSE Len(stack[u])
    /\ stack'[t][Len(stack[t]) + 1] = h
    /\ stack[t] # <<>> => stack'[t][Len(stack[t])] = g
    /\ \A u \in Thread : \A i \in Frames(u) :
          u # t \/ i # Len(stack[t]) => stack'[u][i] = stack[u][i]

(* ... or removes it and leaves g on top.                                   *)
Popped(t, g) ==
    /\ stack' \in [Thread -> Seq(FrameType)]
    /\ \A u \in Thread : Len(stack'[u]) = IF u = t THEN Len(stack[u]) - 1 ELSE Len(stack[u])
    /\ Len(stack[t]) > 1 => stack'[t][Len(stack[t]) - 1] = g
    /\ \A u \in Thread : \A i \in Frames(u) :
          u # t \/ i < Len(stack[t]) - 1 => stack'[u][i] = stack[u][i]

(* A counter that is increased.                                             *)
LEMMA OneMore ==
    ASSUME NEW S, NEW f \in [S -> Nat], NEW w \in S
    PROVE  [f EXCEPT ![w] = @ + 1] \in [S -> Nat]
  OBVIOUS

(* The innermost frame.                                                     *)
LEMMA TopIs ==
    ASSUME stack \in [Thread -> Seq(FrameType)], NEW t \in Thread, stack[t] # <<>>
    PROVE  /\ Len(stack[t]) \in Frames(t) /\ Len(stack[t]) \in Nat \ {0}
           /\ Top(t) = stack[t][Len(stack[t])] /\ Top(t) \in FrameType
  BY DEF Frames, Top, Last

(* The sequences that the steps build.                                      *)
LEMMA FrontIs ==
    ASSUME NEW s \in Seq(FrameType), s # <<>>
    PROVE  /\ Front(s) \in Seq(FrameType) /\ Len(s) \in Nat \ {0} /\ Len(Front(s)) = Len(s) - 1
           /\ \A i \in 1..Len(s) - 1 : Front(s)[i] = s[i]
<1> DEFINE n == Len(s) - 1
<1>1. n \in Nat /\ Len(s) = n + 1 /\ \A i \in 1..n : s[i] \in FrameType
  OBVIOUS
<1>2. Front(s) = SubSeq(s, 1, n)
  BY DEF Front
<1> HIDE DEF n
<1>3. /\ SubSeq(s, 1, n) \in Seq(FrameType) /\ Len(SubSeq(s, 1, n)) = IF 1 <= n THEN n - 1 + 1 ELSE 0
      /\ \A i \in 1..n - 1 + 1 : SubSeq(s, 1, n)[i] = s[1 + i - 1]
  BY <1>1
<1>4. Len(SubSeq(s, 1, n)) = n /\ \A i \in 1..n : SubSeq(s, 1, n)[i] = s[i]
  BY <1>1, <1>3
<1> QED BY <1>1, <1>2, <1>3, <1>4

(* A frame added on top.                                                    *)
LEMMA AppendIs ==
    ASSUME NEW s \in Seq(FrameType), NEW g \in FrameType
    PROVE  /\ Append(s, g) \in Seq(FrameType) /\ Len(s) \in Nat /\ Len(Append(s, g)) = Len(s) + 1
           /\ Append(s, g)[Len(s) + 1] = g
           /\ \A i \in 1..Len(s) : Append(s, g)[i] = s[i]
  OBVIOUS

(* The innermost frame replaced.                                            *)
LEMMA SetTopIs ==
    ASSUME stack \in [Thread -> Seq(FrameType)], NEW t \in Thread, stack[t] # <<>>, NEW g \in FrameType
    PROVE  /\ SetTop(t, g) \in Seq(FrameType) /\ Len(SetTop(t, g)) = Len(stack[t])
           /\ SetTop(t, g)[Len(stack[t])] = g
           /\ \A i \in 1..Len(stack[t]) - 1 : SetTop(t, g)[i] = stack[t][i]
<1> DEFINE s == stack[t]
<1>1. s \in Seq(FrameType) /\ s # <<>>
  OBVIOUS
<1>2. SetTop(t, g) = Append(Front(s), g)
  BY DEF SetTop
<1> HIDE DEF s
<1>3. /\ Append(Front(s), g) \in Seq(FrameType) /\ Len(Append(Front(s), g)) = Len(s)
      /\ Append(Front(s), g)[Len(s)] = g
      /\ \A i \in 1..Len(s) - 1 : Append(Front(s), g)[i] = s[i]
  BY <1>1, FrontIs, AppendIs
<1> QED BY Zenon, <1>2, <1>3 DEF s

(* A step changes the stack of one thread.                                  *)
LEMMA NewStack ==
    ASSUME stack \in [Thread -> Seq(FrameType)], NEW t \in Thread, NEW r \in Seq(FrameType),
           stack' = [stack EXCEPT ![t] = r]
    PROVE  /\ stack' \in [Thread -> Seq(FrameType)] /\ stack'[t] = r
           /\ \A u \in Thread : u # t => stack'[u] = stack[u]
  OBVIOUS

(* SetTop replaces the innermost frame.                                     *)
LEMMA Turn ==
    ASSUME stack \in [Thread -> Seq(FrameType)], NEW t \in Thread, stack[t] # <<>>, NEW g \in FrameType,
           stack' = [stack EXCEPT ![t] = SetTop(t, g)]
    PROVE  Turned(t, g)
<1> DEFINE r == SetTop(t, g)
<1>1. /\ r \in Seq(FrameType) /\ Len(r) = Len(stack[t]) /\ r[Len(stack[t])] = g
      /\ \A i \in 1..Len(stack[t]) - 1 : r[i] = stack[t][i]
  BY Zenon, SetTopIs
<1> HIDE DEF r
<1>2. stack' = [stack EXCEPT ![t] = r]
  BY DEF r
<1>3. /\ stack' \in [Thread -> Seq(FrameType)] /\ stack'[t] = r
      /\ \A u \in Thread : u # t => stack'[u] = stack[u]
  BY Zenon, <1>1, <1>2, NewStack
<1>4. \A u \in Thread : \A i \in Frames(u) : u # t \/ i # Len(stack[t]) => stack'[u][i] = stack[u][i]
  BY <1>1, <1>3 DEF Frames
<1>5. \A u \in Thread : Len(stack'[u]) = Len(stack[u])
  BY <1>1, <1>3
<1>6. stack'[t][Len(stack[t])] = g
  BY <1>1, <1>3
<1> QED BY Zenon, <1>3, <1>4, <1>5, <1>6 DEF Turned, Kept

(* Append adds a frame,                                                     *)
LEMMA Push ==
    ASSUME stack \in [Thread -> Seq(FrameType)], NEW t \in Thread, NEW h \in FrameType,
           stack' = [stack EXCEPT ![t] = Append(@, h)]
    PROVE  Pushed(t, Top(t), h)
<1> DEFINE r == Append(stack[t], h)
<1>1. /\ r \in Seq(FrameType) /\ Len(stack[t]) \in Nat /\ Len(r) = Len(stack[t]) + 1
      /\ r[Len(stack[t]) + 1] = h
      /\ \A i \in 1..Len(stack[t]) : r[i] = stack[t][i]
  BY AppendIs
<1> HIDE DEF r
<1>2. stack' = [stack EXCEPT ![t] = r]
  BY DEF r
<1>3. stack[t] # <<>> => r[Len(stack[t])] = Top(t)
  BY Zenon, <1>1, TopIs DEF Frames
<1>4. /\ stack' \in [Thread -> Seq(FrameType)] /\ stack'[t] = r
      /\ \A u \in Thread : u # t => stack'[u] = stack[u]
  BY Zenon, <1>1, <1>2, NewStack
<1> QED BY <1>1, <1>3, <1>4 DEF Pushed, Frames

(* also on top of one that it replaces.                                     *)
LEMMA TurnPush ==
    ASSUME stack \in [Thread -> Seq(FrameType)], NEW t \in Thread, stack[t] # <<>>, NEW g \in FrameType,
           NEW h \in FrameType, stack' = [stack EXCEPT ![t] = Append(SetTop(t, g), h)]
    PROVE  Pushed(t, g, h)
<1> DEFINE q == SetTop(t, g)
           r == Append(q, h)
<1>1. /\ q \in Seq(FrameType) /\ Len(q) = Len(stack[t]) /\ q[Len(stack[t])] = g
      /\ \A i \in 1..Len(stack[t]) - 1 : q[i] = stack[t][i]
  BY SetTopIs
<1> HIDE DEF q
<1>2. /\ r \in Seq(FrameType) /\ Len(q) \in Nat /\ Len(r) = Len(q) + 1 /\ r[Len(q) + 1] = h
      /\ \A i \in 1..Len(q) : r[i] = q[i]
  BY <1>1, AppendIs
<1> HIDE DEF r
<1>3. stack' = [stack EXCEPT ![t] = r]
  BY DEF r, q
<1>4. Len(stack[t]) \in Nat \ {0}
  BY TopIs
<1>5. /\ stack' \in [Thread -> Seq(FrameType)] /\ stack'[t] = r
      /\ \A u \in Thread : u # t => stack'[u] = stack[u]
  BY Zenon, <1>2, <1>3, NewStack
<1>6. \A u \in Thread : Len(stack'[u]) = IF u = t THEN Len(stack[u]) + 1 ELSE Len(stack[u])
  BY <1>1, <1>2, <1>5
<1>7. stack'[t][Len(stack[t]) + 1] = h /\ stack'[t][Len(stack[t])] = g
  BY <1>1, <1>2, <1>4, <1>5
<1>8. \A u \in Thread : \A i \in Frames(u) : u # t \/ i # Len(stack[t]) => stack'[u][i] = stack[u][i]
  <2>1. \A i \in Frames(t) : i # Len(stack[t]) => r[i] = stack[t][i]
    BY <1>1, <1>2, <1>4 DEF Frames
  <2> QED BY Zenon, <1>5, <2>1
<1> QED BY Zenon, <1>5, <1>6, <1>7, <1>8 DEF Pushed

(* Front drops the innermost frame,                                         *)
LEMMA Pop ==
    ASSUME stack \in [Thread -> Seq(FrameType)], NEW t \in Thread, stack[t] # <<>>,
           stack' = [stack EXCEPT ![t] = Front(@)]
    PROVE  Popped(t, stack[t][Len(stack[t]) - 1])
<1> DEFINE r == Front(stack[t])
<1>1. /\ r \in Seq(FrameType) /\ Len(stack[t]) \in Nat \ {0} /\ Len(r) = Len(stack[t]) - 1
      /\ \A i \in 1..Len(stack[t]) - 1 : r[i] = stack[t][i]
  BY FrontIs
<1> HIDE DEF r
<1>2. stack' = [stack EXCEPT ![t] = r]
  BY DEF r
<1>3. /\ stack' \in [Thread -> Seq(FrameType)] /\ stack'[t] = r
      /\ \A u \in Thread : u # t => stack'[u] = stack[u]
  BY Zenon, <1>1, <1>2, NewStack
<1> QED BY <1>1, <1>3 DEF Popped, Frames

(* and the one below may be replaced with it.                               *)
LEMMA PopTurn ==
    ASSUME stack \in [Thread -> Seq(FrameType)], NEW t \in Thread, Len(stack[t]) > 1,
           NEW g \in FrameType,
           stack' = [stack EXCEPT ![t] = Append(Front(Front(stack[t])), g)]
    PROVE  Popped(t, g)
<1> DEFINE s == stack[t]
           p == Front(s)
           q == Front(p)
           r == Append(q, g)
<1>1. s \in Seq(FrameType) /\ s # <<>> /\ Len(s) > 1
  OBVIOUS
<1>2. stack' = [stack EXCEPT ![t] = r]
  OBVIOUS
<1>3. /\ p \in Seq(FrameType) /\ Len(s) \in Nat \ {0} /\ Len(p) = Len(s) - 1
      /\ \A i \in 1..Len(s) - 1 : p[i] = s[i]
  BY <1>1, FrontIs
<1> HIDE DEF p
<1>4. /\ q \in Seq(FrameType) /\ Len(q) = Len(s) - 2 /\ \A i \in 1..Len(s) - 2 : q[i] = s[i]
  <2>1. p # <<>>
    BY <1>1, <1>3
  <2> QED BY <1>3, <2>1, FrontIs
<1> HIDE DEF q
<1>5. /\ r \in Seq(FrameType) /\ Len(r) = Len(s) - 1 /\ r[Len(s) - 1] = g
      /\ \A i \in 1..Len(s) - 2 : r[i] = s[i]
  BY <1>3, <1>4, AppendIs
<1> HIDE DEF r
<1>6. /\ stack' \in [Thread -> Seq(FrameType)] /\ stack'[t] = r
      /\ \A u \in Thread : u # t => stack'[u] = stack[u]
  BY Zenon, <1>2, <1>5, NewStack
<1>7. \A u \in Thread : Len(stack'[u]) = IF u = t THEN Len(stack[u]) - 1 ELSE Len(stack[u])
  BY <1>5, <1>6
<1>8. \A u \in Thread : \A i \in Frames(u) : u # t \/ i < Len(stack[t]) - 1 => stack'[u][i] = stack[u][i]
  <2>1. \A i \in Frames(t) : i < Len(stack[t]) - 1 => r[i] = stack[t][i]
    BY <1>3, <1>5 DEF Frames
  <2> QED BY Zenon, <1>6, <2>1
<1>9. stack'[t][Len(stack[t]) - 1] = g
  BY <1>5, <1>6
<1> QED BY Zenon, <1>6, <1>7, <1>8, <1>9 DEF Popped

(* What a step does to the frames that it keeps.                            *)
Same(u, i) ==
    /\ i \in Frames(u)
    /\ stack'[u][i].who = stack[u][i].who /\ stack'[u][i].from = stack[u][i].from

(* A waiter has one frame.                                                  *)
LEMMA OneFrame ==
    ASSUME Unique, NEW u \in Thread, NEW v \in Thread, NEW i \in Frames(u), NEW k \in Frames(v),
           stack[u][i].who = stack[v][k].who
    PROVE  u = v /\ i = k
  BY DEF Unique

(* Frames stay nested and unique when at most the top one, n, is new.       *)
LEMMA FramesKeep ==
    ASSUME stack' \in [Thread -> Seq(FrameType)], NEW t \in Thread, NEW n \in Nat,
           n \in Frames(t)' =>
              /\ n = Len(stack'[t])
              /\ Origin(t, n, stack'[t][n].who, stack'[t][n].from)
              /\ stack'[t][n].from = "inline" => Below(stack'[t][n].who, stack'[t][n - 1].who)
              /\ ~OnStack(stack'[t][n].who),
           \A u \in Thread : \A i \in 1..Len(stack'[u]) : u # t \/ i # n => Same(u, i),
           Nested, Unique
    PROVE  Nested' /\ Unique'
<1>1. Nested'
  <2> SUFFICES ASSUME NEW u \in Thread, NEW i \in Frames(u)', u # t \/ i # n
               PROVE  /\ Origin(u, i, stack'[u][i].who, stack'[u][i].from)
                      /\ stack'[u][i].from = "inline" => Below(stack'[u][i].who, stack'[u][i - 1].who)
    BY DEF Nested, Frames
  <2>1. Same(u, i)
    BY DEF Frames
  <2>2. /\ Origin(u, i, stack[u][i].who, stack[u][i].from)
        /\ stack[u][i].from = "inline" => Below(stack[u][i].who, stack[u][i - 1].who)
    BY Zenon, <2>1 DEF Nested, Same
  <2>3. ASSUME stack[u][i].from = "inline" PROVE stack'[u][i - 1].who = stack[u][i - 1].who
    <3>1. i - 1 \in 1..Len(stack'[u]) /\ (u # t \/ i - 1 # n)
      BY <2>2, <2>3 DEF Frames, Origin
    <3> QED BY Zenon, <3>1 DEF Same
  <2> QED BY <2>1, <2>2, <2>3 DEF Same
<1>2. Unique'
  <2> SUFFICES ASSUME NEW u \in Thread, NEW v \in Thread, NEW i \in 1..Len(stack'[u]),
                      NEW k \in 1..Len(stack'[v]), stack'[u][i].who = stack'[v][k].who
               PROVE  u = v /\ i = k
    BY DEF Unique, Frames
  <2>1. ASSUME NEW w \in Thread, NEW m \in 1..Len(stack'[w]), Same(w, m) PROVE OnStack(stack'[w][m].who)
    BY Zenon, <2>1 DEF Same, OnStack
  <2>2. CASE u = t /\ i = n
    <3>1. ~OnStack(stack'[u][i].who)
      BY <2>2 DEF Frames
    <3> QED BY Zenon, <2>1, <2>2, <3>1
  <2>3. CASE v = t /\ k = n
    <3>1. ~OnStack(stack'[v][k].who)
      BY <2>3 DEF Frames
    <3> QED BY Zenon, <2>1, <2>3, <3>1
  <2>4. CASE Same(u, i) /\ Same(v, k)
    <3>1. stack[u][i].who = stack[v][k].who
      BY Zenon, <2>4 DEF Same
    <3> QED BY <2>4, <3>1, OneFrame DEF Same
  <2> QED BY Zenon, <2>2, <2>3, <2>4
<1> QED BY <1>1, <1>2

(* Replacing the innermost frame leaves every frame its waiter.             *)
LEMMA TurnedFrames ==
    ASSUME stack \in [Thread -> Seq(FrameType)], NEW t \in Thread, stack[t] # <<>>, NEW g,
           Turned(t, g), g.who = Top(t).who, g.from = Top(t).from
    PROVE  \A u \in Thread : /\ Len(stack'[u]) = Len(stack[u])
                             /\ \A i \in 1..Len(stack[u]) : Same(u, i)
<1>1. \A u \in Thread : Len(stack'[u]) = Len(stack[u])
  BY Zenon DEF Turned
<1>2. Top(t) = stack[t][Len(stack[t])]
  BY TopIs
<1>3. ASSUME NEW f \in FrameType, NEW h, Kept(f, h) PROVE h.who = f.who /\ h.from = f.from
  BY <1>3 DEF Kept, FrameType
<1>4. \A u \in Thread : \A i \in 1..Len(stack[u]) : stack[u][i] \in FrameType
  OBVIOUS
<1>5. \A u \in Thread : \A i \in 1..Len(stack[u]) : /\ stack'[u][i].who = stack[u][i].who
                                                    /\ stack'[u][i].from = stack[u][i].from
  BY Zenon, <1>1, <1>2, <1>3, <1>4 DEF Turned, Frames
<1> QED BY Zenon, <1>1, <1>5 DEF Same, Frames

(* So frames stay nested, and the same waiters are on the stacks.           *)
LEMMA TurnedKeeps ==
    ASSUME stack \in [Thread -> Seq(FrameType)], NEW t \in Thread, stack[t] # <<>>, NEW g,
           Turned(t, g), g.who = Top(t).who, g.from = Top(t).from, Nested, Unique
    PROVE  Nested' /\ Unique' /\ \A v : OnStack(v)' <=> OnStack(v)
<1>1. \A u \in Thread : /\ Len(stack'[u]) = Len(stack[u])
                        /\ \A i \in 1..Len(stack[u]) : Same(u, i)
  BY Zenon, TurnedFrames
<1>2. Nested' /\ Unique'
  <2>1. 0 \notin Frames(t)'
    BY DEF Frames
  <2>2. stack' \in [Thread -> Seq(FrameType)]
    BY DEF Turned
  <2> QED BY <1>1, <2>1, <2>2, FramesKeep
<1>3. ASSUME NEW v PROVE OnStack(v)' <=> OnStack(v)
  <2>1. ASSUME OnStack(v) PROVE OnStack(v)'
    <3>1. PICK u \in Thread : \E i \in 1..Len(stack[u]) : stack[u][i].who = v
      BY Zenon, <2>1 DEF OnStack, Frames
    <3>3. PICK i \in 1..Len(stack[u]) : stack[u][i].who = v
      BY Zenon, <3>1
    <3>2. i \in 1..Len(stack'[u]) /\ stack'[u][i].who = v
      BY Zenon, <1>1, <3>3 DEF Same
    <3> QED BY Zenon, <3>2 DEF OnStack, Frames
  <2>2. ASSUME OnStack(v)' PROVE OnStack(v)
    <3>1. PICK u \in Thread : \E i \in 1..Len(stack'[u]) : stack'[u][i].who = v
      BY Zenon, <2>2 DEF OnStack, Frames
    <3>3. PICK i \in 1..Len(stack'[u]) : stack'[u][i].who = v
      BY Zenon, <3>1
    <3>2. i \in 1..Len(stack[u]) /\ stack[u][i].who = v
      BY Zenon, <1>1, <3>3 DEF Same
    <3> QED BY Zenon, <3>2 DEF OnStack, Frames
  <2> QED BY Zenon, <2>1, <2>2
<1> QED BY Zenon, <1>2, <1>3

(* A new frame leaves those below it as they were.                          *)
LEMMA PushedFrames ==
    ASSUME stack \in [Thread -> Seq(FrameType)], NEW t \in Thread, NEW g, NEW h, Pushed(t, g, h),
           stack[t] # <<>> => g.who = Top(t).who /\ g.from = Top(t).from
    PROVE  LET n == Len(stack[t]) + 1 IN
           /\ stack'[t][n] = h /\ n \in Nat /\ Len(stack'[t]) = n
           /\ \A u \in Thread : u # t => Len(stack'[u]) = Len(stack[u])
           /\ \A u \in Thread : \A i \in 1..Len(stack[u]) : Same(u, i)
<1>1. /\ Len(stack[t]) + 1 \in Nat /\ stack'[t][Len(stack[t]) + 1] = h
      /\ \A u \in Thread : Len(stack'[u]) = IF u = t THEN Len(stack[u]) + 1 ELSE Len(stack[u])
  BY DEF Pushed
<1>2. stack[t] # <<>> => Top(t) = stack[t][Len(stack[t])]
  BY TopIs
<1>3. \A i \in 1..Len(stack[t]) : stack[t] # <<>>
  OBVIOUS
<1>4. \A u \in Thread : \A i \in 1..Len(stack[u]) : /\ stack'[u][i].who = stack[u][i].who
                                                    /\ stack'[u][i].from = stack[u][i].from
  BY Zenon, <1>2, <1>3 DEF Pushed, Frames
<1> QED BY Zenon, <1>1, <1>4 DEF Same, Frames

(* So frames stay nested, with one waiter more on the stacks.               *)
LEMMA PushedKeeps ==
    ASSUME stack \in [Thread -> Seq(FrameType)], NEW t \in Thread, NEW g, NEW h, Pushed(t, g, h),
           stack[t] # <<>> => g.who = Top(t).who /\ g.from = Top(t).from,
           Nested, Unique, ~OnStack(h.who), h.from # "client", h.who \in Job,
           h.from = "inline" => stack[t] # <<>> /\ Below(h.who, Top(t).who)
    PROVE  Nested' /\ Unique' /\ \A v : OnStack(v)' <=> OnStack(v) \/ v = h.who
<1> DEFINE n == Len(stack[t]) + 1
<1>1. /\ stack'[t][n] = h /\ n \in Nat /\ Len(stack'[t]) = n
      /\ \A u \in Thread : u # t => Len(stack'[u]) = Len(stack[u])
      /\ \A u \in Thread : \A i \in 1..Len(stack[u]) : Same(u, i)
  BY Zenon, PushedFrames
<1>2. stack[t] # <<>> => n > 1 /\ n - 1 \in 1..Len(stack[t]) /\ stack[t][n - 1] = Top(t)
  BY TopIs
<1>3. \A i \in 1..n : i # n => i \in 1..Len(stack[t])
  OBVIOUS
<1>4. \A i \in 1..n : i = n \/ i \in 1..Len(stack[t])
  OBVIOUS
<1>5. n \in 1..n /\ \A i \in 1..Len(stack[t]) : i \in 1..n
  OBVIOUS
<1> HIDE DEF n
<1>6. Nested' /\ Unique'
  <2>1. stack' \in [Thread -> Seq(FrameType)]
    BY Zenon DEF Pushed
  <2>2. \A u \in Thread : \A i \in 1..Len(stack'[u]) : u # t \/ i # n => Same(u, i)
    BY <1>1, <1>3
  <2>3. Origin(t, n, h.who, h.from)
    BY <1>2 DEF Origin
  <2>4. h.from = "inline" => Below(h.who, stack'[t][n - 1].who)
    BY Zenon, <1>1, <1>2 DEF Same
  <2> QED BY Zenon, <1>1, <2>1, <2>2, <2>3, <2>4, FramesKeep
<1>7. \A v : OnStack(v)' <=> OnStack(v) \/ v = h.who
  <2> SUFFICES ASSUME NEW v PROVE OnStack(v)' <=> OnStack(v) \/ v = h.who
    OBVIOUS
  <2>1. ASSUME OnStack(v) PROVE OnStack(v)'
    <3>1. PICK u \in Thread : \E i \in Frames(u) : stack[u][i].who = v
      BY Zenon, <2>1 DEF OnStack
    <3>3. PICK i \in Frames(u) : stack[u][i].who = v
      BY Zenon, <3>1
    <3>2. i \in 1..Len(stack'[u]) /\ stack'[u][i].who = v
      BY <1>1, <1>5, <3>3 DEF Same, Frames
    <3> QED BY Zenon, <3>2 DEF OnStack, Frames
  <2>2. OnStack(h.who)'
    BY <1>1, <1>5 DEF OnStack, Frames
  <2>3. ASSUME OnStack(v)', v # h.who PROVE OnStack(v)
    BY <1>1, <1>4, <2>3 DEF OnStack, Same, Frames
  <2> QED BY Zenon, <2>1, <2>2, <2>3
<1> QED BY Zenon, <1>6, <1>7

(* Dropping the innermost frame leaves the others as they were.             *)
LEMMA PoppedFrames ==
    ASSUME stack \in [Thread -> Seq(FrameType)], NEW t \in Thread, stack[t] # <<>>, NEW g, Popped(t, g),
           Len(stack[t]) > 1 => g.who = stack[t][Len(stack[t]) - 1].who
                                /\ g.from = stack[t][Len(stack[t]) - 1].from
    PROVE  LET n == Len(stack[t]) IN
           /\ n \in 1..n /\ Len(stack'[t]) = n - 1 /\ Top(t) = stack[t][n]
           /\ \A u \in Thread : u # t => Len(stack'[u]) = Len(stack[u])
           /\ \A u \in Thread : \A i \in 1..Len(stack[u]) : u # t \/ i # n => Same(u, i)
<1>1. Len(stack[t]) \in 1..Len(stack[t]) /\ Top(t) = stack[t][Len(stack[t])]
  BY TopIs DEF Frames
<1>2. /\ Len(stack'[t]) = Len(stack[t]) - 1
      /\ \A u \in Thread : u # t => Len(stack'[u]) = Len(stack[u])
  BY DEF Popped
<1>3. \A i \in 1..Len(stack[t]) : i # Len(stack[t]) =>
         i < Len(stack[t]) - 1 \/ (i = Len(stack[t]) - 1 /\ Len(stack[t]) > 1)
  OBVIOUS
<1>4. \A u \in Thread : \A i \in 1..Len(stack[u]) :
          u # t \/ i # Len(stack[t]) => /\ stack'[u][i].who = stack[u][i].who
                                        /\ stack'[u][i].from = stack[u][i].from
  BY Zenon, <1>3 DEF Popped, Frames
<1> QED BY Zenon, <1>1, <1>2, <1>4 DEF Same, Frames

(* So frames stay nested, with one waiter less on the stacks.               *)
LEMMA PoppedKeeps ==
    ASSUME stack \in [Thread -> Seq(FrameType)], NEW t \in Thread, stack[t] # <<>>, NEW g, Popped(t, g),
           Len(stack[t]) > 1 => g.who = stack[t][Len(stack[t]) - 1].who
                                /\ g.from = stack[t][Len(stack[t]) - 1].from,
           Nested, Unique
    PROVE  Nested' /\ Unique' /\ \A v : OnStack(v)' <=> OnStack(v) /\ v # Top(t).who
<1> DEFINE n == Len(stack[t])
<1>1. /\ n \in 1..n /\ Len(stack'[t]) = n - 1 /\ Top(t) = stack[t][n]
      /\ \A u \in Thread : u # t => Len(stack'[u]) = Len(stack[u])
      /\ \A u \in Thread : \A i \in 1..Len(stack[u]) : u # t \/ i # n => Same(u, i)
  BY Zenon, PoppedFrames
<1>2. \A i \in 1..n - 1 : i \in 1..n /\ i # n
  BY <1>1
<1>3. \A i \in 1..n : i = n \/ i \in 1..n - 1
  BY <1>1
<1>4. \A u \in Thread : \A i \in 1..Len(stack'[u]) : Same(u, i)
  BY Zenon, <1>1, <1>2
<1>5. \A i \in 1..Len(stack'[t]) : i # n
  BY <1>1, <1>2
<1>6. Nested' /\ Unique'
  <2>1. 0 \notin Frames(t)'
    BY DEF Frames
  <2>2. stack' \in [Thread -> Seq(FrameType)]
    BY Zenon DEF Popped
  <2> QED BY <1>4, <2>1, <2>2, FramesKeep
<1>7. \A v : OnStack(v)' <=> OnStack(v) /\ v # Top(t).who
  <2> SUFFICES ASSUME NEW v PROVE OnStack(v)' <=> OnStack(v) /\ v # Top(t).who
    OBVIOUS
  <2>1. ASSUME OnStack(v)' PROVE OnStack(v)
    BY <1>4, <2>1 DEF OnStack, Same, Frames
  <2>2. ASSUME OnStack(v)', v = Top(t).who PROVE FALSE
    <3>0. PICK u \in Thread : \E i \in 1..Len(stack'[u]) : stack'[u][i].who = v
      BY <2>2 DEF OnStack, Frames
    <3>1. PICK i \in 1..Len(stack'[u]) : stack'[u][i].who = v
      BY <3>0
    <3>2. i \in Frames(u) /\ stack[u][i].who = stack[t][n].who
      BY <1>1, <1>4, <2>2, <3>1 DEF Same
    <3>3. u = t /\ i = n
      BY <1>1, <3>2, OneFrame DEF Frames
    <3> QED BY Zenon, <1>5, <3>1, <3>3
  <2>3. ASSUME OnStack(v), v # Top(t).who PROVE OnStack(v)'
    <3>0. PICK u \in Thread : \E i \in 1..Len(stack[u]) : stack[u][i].who = v
      BY <2>3 DEF OnStack, Frames
    <3>1. PICK i \in 1..Len(stack[u]) : stack[u][i].who = v
      BY <3>0
    <3>2. i \in 1..Len(stack'[u]) /\ stack'[u][i].who = v
      BY Zenon, <1>1, <1>3, <2>3, <3>1 DEF Same
    <3> QED BY <3>2 DEF OnStack, Frames
  <2> QED BY Zenon, <2>1, <2>2, <2>3
<1> QED BY Zenon, <1>6, <1>7

-----------------------------------------------------------------------------
(* v has a frame from one of F that has not counted itself as ended.        *)
Runs(v, F) == \E t \in Thread : \E i \in Frames(t) :
    stack[t][i].who = v /\ stack[t][i].from \in F /\ stack[t][i].phase # "relock"

SameRun(u, i) == Same(u, i) /\ (stack'[u][i].phase = "relock" <=> stack[u][i].phase = "relock")

(* Whether the job of the innermost frame runs.                             *)
LEMMA TopRuns ==
    ASSUME stack \in [Thread -> Seq(FrameType)], Unique, NEW t \in Thread, stack[t] # <<>>, NEW F
    PROVE  Runs(Top(t).who, F) <=> Top(t).from \in F /\ Top(t).phase # "relock"
<1>1. Len(stack[t]) \in Frames(t) /\ Top(t) = stack[t][Len(stack[t])]
  BY TopIs
<1>2. ASSUME NEW u \in Thread, NEW i \in Frames(u), stack[u][i].who = Top(t).who
      PROVE  stack[u][i] = Top(t)
  BY <1>1, <1>2, OneFrame
<1> QED BY Zenon, <1>1, <1>2 DEF Runs

(* Who runs, when a step keeps all frames but those of w.                   *)
LEMMA RunsKeep ==
    ASSUME NEW w,
           \A u \in Thread : \A i \in 1..Len(stack'[u]) : stack'[u][i].who = w \/ SameRun(u, i),
           \A u \in Thread : \A i \in 1..Len(stack[u]) :
              stack[u][i].who = w \/ (i \in 1..Len(stack'[u]) /\ SameRun(u, i))
    PROVE  \A v, F : v # w => (Runs(v, F)' <=> Runs(v, F))
<1> SUFFICES ASSUME NEW v, NEW F, v # w PROVE Runs(v, F)' <=> Runs(v, F)
  OBVIOUS
<1>1. ASSUME Runs(v, F)' PROVE Runs(v, F)
  <2>1. PICK u \in Thread : \E i \in 1..Len(stack'[u]) :
           stack'[u][i].who = v /\ stack'[u][i].from \in F /\ stack'[u][i].phase # "relock"
    BY <1>1 DEF Runs, Frames
  <2>2. PICK i \in 1..Len(stack'[u]) :
           stack'[u][i].who = v /\ stack'[u][i].from \in F /\ stack'[u][i].phase # "relock"
    BY Zenon, <2>1
  <2>3. SameRun(u, i)
    BY Zenon, <2>2
  <2>4. i \in Frames(u) /\ stack[u][i].who = v /\ stack[u][i].from \in F /\ stack[u][i].phase # "relock"
    BY Zenon, <2>2, <2>3 DEF SameRun, Same
  <2> QED BY Zenon, <2>4 DEF Runs
<1>2. ASSUME Runs(v, F) PROVE Runs(v, F)'
  <2>1. PICK u \in Thread : \E i \in 1..Len(stack[u]) :
           stack[u][i].who = v /\ stack[u][i].from \in F /\ stack[u][i].phase # "relock"
    BY Zenon, <1>2 DEF Runs, Frames
  <2>2. PICK i \in 1..Len(stack[u]) :
           stack[u][i].who = v /\ stack[u][i].from \in F /\ stack[u][i].phase # "relock"
    BY Zenon, <2>1
  <2>3. i \in 1..Len(stack'[u]) /\ SameRun(u, i)
    BY Zenon, <2>2
  <2>4. stack'[u][i].who = v /\ stack'[u][i].from \in F /\ stack'[u][i].phase # "relock"
    BY <2>2, <2>3 DEF SameRun, Same
  <2> QED BY <2>3, <2>4 DEF Runs, Frames
<1> QED BY <1>1, <1>2

(* Which jobs run when the innermost frame is replaced.                     *)
LEMMA TurnedRuns ==
    ASSUME stack \in [Thread -> Seq(FrameType)], NEW t \in Thread, stack[t] # <<>>, NEW g,
           Turned(t, g), g.who = Top(t).who, g.from = Top(t).from, Nested, Unique
    PROVE  /\ \A v, F : v # g.who => (Runs(v, F)' <=> Runs(v, F))
           /\ \A F : Runs(g.who, F)' <=> g.from \in F /\ g.phase # "relock"
<1>1. \A u \in Thread : /\ Len(stack'[u]) = Len(stack[u])
                        /\ \A i \in 1..Len(stack[u]) : Same(u, i)
  BY Zenon, TurnedFrames
<1>2. \A u \in Thread : \A i \in 1..Len(stack[u]) : stack[u][i] \in FrameType
  OBVIOUS
<1>3. ASSUME NEW f \in FrameType, NEW h, Kept(f, h) PROVE h.phase = "relock" <=> f.phase = "relock"
  BY Zenon, <1>3 DEF Kept, FrameType
<1>4. Top(t) = stack[t][Len(stack[t])] /\ stack'[t][Len(stack[t])] = g
  BY TopIs DEF Turned
<1>5. ASSUME NEW u \in Thread, NEW i \in 1..Len(stack[u]), stack[u][i].who # g.who PROVE SameRun(u, i)
  <2>1. Kept(stack[u][i], stack'[u][i])
    BY Zenon, <1>4, <1>5 DEF Turned, Frames
  <2> QED BY Zenon, <1>1, <1>2, <1>3, <2>1 DEF SameRun
<1>6. ASSUME NEW u \in Thread, NEW i \in 1..Len(stack[u])
      PROVE  stack'[u][i].who = stack[u][i].who
  BY Zenon, <1>1 DEF Same
<1>7. \A v, F : v # g.who => (Runs(v, F)' <=> Runs(v, F))
  <2>1. \A u \in Thread : \A i \in 1..Len(stack'[u]) : stack'[u][i].who = g.who \/ SameRun(u, i)
    BY Zenon, <1>1, <1>5, <1>6
  <2>2. \A u \in Thread : \A i \in 1..Len(stack[u]) :
           stack[u][i].who = g.who \/ (i \in 1..Len(stack'[u]) /\ SameRun(u, i))
    BY <1>1, <1>5
  <2> QED BY Zenon, <2>1, <2>2, RunsKeep
<1>8. ASSUME NEW F PROVE Runs(g.who, F)' <=> g.from \in F /\ g.phase # "relock"
  <2>1. Len(stack[t]) \in 1..Len(stack[t])
    BY TopIs DEF Frames
  <2>2. ASSUME NEW u \in Thread, NEW i \in 1..Len(stack[u]), stack'[u][i].who = g.who
        PROVE  stack'[u][i] = g
    <3>1. u = t /\ i = Len(stack[t])
      BY <1>4, <1>6, <2>1, <2>2, OneFrame DEF Frames
    <3> QED BY Zenon, <1>4, <3>1
  <2> QED BY <1>1, <1>4, <2>1, <2>2 DEF Runs, Frames
<1> QED BY Zenon, <1>7, <1>8

(* Which jobs run when a frame is added.                                    *)
LEMMA PushedRuns ==
    ASSUME stack \in [Thread -> Seq(FrameType)], NEW t \in Thread, NEW g, NEW h, Pushed(t, g, h),
           stack[t] # <<>> => /\ g.who = Top(t).who /\ g.from = Top(t).from
                              /\ g.phase # "relock" /\ Top(t).phase # "relock",
           Nested, Unique, ~OnStack(h.who)
    PROVE  /\ \A v, F : v # h.who => (Runs(v, F)' <=> Runs(v, F))
           /\ \A F : Runs(h.who, F)' <=> h.from \in F /\ h.phase # "relock"
<1> DEFINE n == Len(stack[t]) + 1
<1>1. /\ stack'[t][n] = h /\ n \in Nat /\ Len(stack'[t]) = n
      /\ \A u \in Thread : u # t => Len(stack'[u]) = Len(stack[u])
      /\ \A u \in Thread : \A i \in 1..Len(stack[u]) : Same(u, i)
  BY Zenon, PushedFrames
<1>2. \A i \in 1..n : i = n \/ i \in 1..Len(stack[t])
  OBVIOUS
<1>3. n \in 1..n /\ \A i \in 1..Len(stack[t]) : i \in 1..n
  OBVIOUS
<1>4. ASSUME NEW u \in Thread, NEW i \in 1..Len(stack[u]) PROVE SameRun(u, i)
  <2>1. CASE u = t /\ i = Len(stack[t])
    <3>1. Top(t) = stack[t][Len(stack[t])] /\ stack[t] # <<>>
      BY <2>1, TopIs
    <3> QED BY Zenon, <1>1, <2>1, <3>1 DEF SameRun, Pushed
  <2>2. CASE u # t \/ i # Len(stack[t])
    BY Zenon, <1>1, <2>2 DEF SameRun, Pushed, Frames
  <2> QED BY Zenon, <2>1, <2>2
<1>5. ASSUME NEW u \in Thread, NEW i \in 1..Len(stack[u]) PROVE stack'[u][i].who # h.who
  BY Zenon, <1>1 DEF Same, OnStack
<1> HIDE DEF n
<1>6. \A v, F : v # h.who => (Runs(v, F)' <=> Runs(v, F))
  <2>1. \A u \in Thread : \A i \in 1..Len(stack'[u]) : stack'[u][i].who = h.who \/ SameRun(u, i)
    BY <1>1, <1>2, <1>4
  <2>2. \A u \in Thread : \A i \in 1..Len(stack[u]) :
           stack[u][i].who = h.who \/ (i \in 1..Len(stack'[u]) /\ SameRun(u, i))
    BY <1>1, <1>3, <1>4
  <2> QED BY Zenon, <2>1, <2>2, RunsKeep
<1>7. ASSUME NEW F PROVE Runs(h.who, F)' <=> h.from \in F /\ h.phase # "relock"
  <2>1. ASSUME NEW u \in Thread, NEW i \in 1..Len(stack'[u]), stack'[u][i].who = h.who
        PROVE  stack'[u][i] = h
    BY <1>1, <1>2, <1>5, <2>1
  <2> QED BY Zenon, <1>1, <1>3, <2>1 DEF Runs, Frames
<1> QED BY Zenon, <1>6, <1>7

(* Which jobs run when the innermost frame is dropped.                      *)
LEMMA PoppedRuns ==
    ASSUME stack \in [Thread -> Seq(FrameType)], NEW t \in Thread, stack[t] # <<>>, NEW g, Popped(t, g),
           Len(stack[t]) > 1 =>
              /\ g.who = stack[t][Len(stack[t]) - 1].who /\ g.from = stack[t][Len(stack[t]) - 1].from
              /\ g.phase # "relock" /\ stack[t][Len(stack[t]) - 1].phase # "relock",
           Nested, Unique, NEW w, w = Top(t).who
    PROVE  \A v, F : Runs(v, F)' <=> Runs(v, F) /\ v # w
<1> DEFINE n == Len(stack[t])
<1>1. /\ n \in 1..n /\ Len(stack'[t]) = n - 1 /\ Top(t) = stack[t][n]
      /\ \A u \in Thread : u # t => Len(stack'[u]) = Len(stack[u])
      /\ \A u \in Thread : \A i \in 1..Len(stack[u]) : u # t \/ i # n => Same(u, i)
  BY Zenon, PoppedFrames
<1>2. \A i \in 1..n - 1 : i \in 1..n /\ i # n
  BY <1>1
<1>3. \A i \in 1..n : i = n \/ i \in 1..n - 1
  BY <1>1
<1>4. ASSUME NEW u \in Thread, NEW i \in 1..Len(stack[u]), u # t \/ i # n PROVE SameRun(u, i)
  <2>1. CASE u = t /\ i = n - 1
    <3>1. Len(stack[t]) > 1
      BY <1>1, <2>1
    <3>2. stack'[u][i] = g
      BY Zenon, <2>1, <3>1 DEF Popped
    <3> QED BY Zenon, <1>1, <1>4, <2>1, <3>1, <3>2 DEF SameRun
  <2>2. CASE u # t \/ i < n - 1
    BY Zenon, <1>1, <1>4, <2>2 DEF SameRun, Popped, Frames
  <2>3. u # t \/ i < n - 1 \/ i = n - 1
    BY <1>4
  <2> QED BY Zenon, <2>1, <2>2, <2>3
<1>5. ASSUME NEW u \in Thread, NEW i \in 1..Len(stack'[u])
      PROVE  i \in 1..Len(stack[u]) /\ (u # t \/ i # n)
  BY Zenon, <1>1, <1>2
<1>6. ASSUME NEW u \in Thread, NEW i \in 1..Len(stack[u]), u # t \/ i # n
      PROVE  i \in 1..Len(stack'[u])
  BY <1>1, <1>3, <1>6
<1> HIDE DEF n
<1>7. \A v, F : v # w => (Runs(v, F)' <=> Runs(v, F))
  <2>1. \A u \in Thread : \A i \in 1..Len(stack'[u]) : stack'[u][i].who = w \/ SameRun(u, i)
    BY Zenon, <1>4, <1>5
  <2>2. \A u \in Thread : \A i \in 1..Len(stack[u]) :
           stack[u][i].who = w \/ (i \in 1..Len(stack'[u]) /\ SameRun(u, i))
    BY Zenon, <1>1, <1>4, <1>6
  <2> QED BY Zenon, <2>1, <2>2, RunsKeep
<1>8. \A F : ~Runs(w, F)'
  <2>1. ASSUME NEW u \in Thread, NEW i \in 1..Len(stack'[u]) PROVE stack'[u][i].who # w
    <3>1. i \in 1..Len(stack[u]) /\ (u # t \/ i # n) /\ stack'[u][i].who = stack[u][i].who
      BY Zenon, <1>4, <1>5 DEF SameRun, Same
    <3> QED BY <1>1, <3>1, OneFrame DEF Frames, n
  <2> QED BY <2>1 DEF Runs, Frames
<1> QED BY Zenon, <1>7, <1>8

-----------------------------------------------------------------------------
(* The jobs.                                                                *)
Unstarted(v) == v \in Job /\ ~OnStack(v) /\ ended[v] = "no"
Queued(v) == \E m \in 1..Len(queue) : queue[m] = v
Fresh(j) == Unstarted(j) /\ ~Queued(j)

(* No job is queued twice, or queued and started.                           *)
QueueInv ==
    /\ \A m, n \in 1..Len(queue) : queue[m] = queue[n] => m = n
    /\ \A m \in 1..Len(queue) : Unstarted(queue[m])

(* A frame that submits or waits is not a leaf's and has no answer; the     *)
(* jobs that it has yet to submit are fresh.                                *)
Pending(f) ==
    /\ f.phase \notin {"end", "relock"} => f.who \notin Leaf /\ answer[f.who] = "none"
    /\ f.phase = "submit" => f.next \in 1..Len(Work[f.who])
    /\ f.phase = "submit" => \A p \in f.next..Len(Work[f.who]) : Fresh(Work[f.who][p])

(* A job is ended when its frame says so, and only a job of the queue       *)
(* outlives its end.                                                        *)
Ending(f) ==
    /\ f.phase = "relock" => f.from = "queue"
    /\ f.who \in Job => (ended[f.who] = "no" <=> f.phase # "relock")

FrameInv ==
    \A t \in Thread : \A i \in Frames(t) :
        /\ Pending(stack[t][i]) /\ Ending(stack[t][i])
        /\ i < Len(stack[t]) => stack[t][i].phase \in {"submit", "flush"}

(* A job that has not started has submitted nothing.                        *)
StartInv == \A v \in Job : Unstarted(v) => answer[v] = "none" /\ \A j \in Range(Work[v]) : Fresh(j)

Open(w) == {j \in Range(Work[w]) : Queued(j) \/ Runs(j, {"queue"})}
CountInv == \A w \in Waiter : num[w] = Cardinality(Open(w))

(* What the count of the open jobs needs of finite sets; CountingHolds, at  *)
(* the end, has it from FiniteSetTheorems.                                  *)
Counting ==
    /\ Cardinality({}) = 0
    /\ \A w \in Waiter : \A S \in SUBSET Range(Work[w]) :
           /\ Cardinality(S) = 0 <=> S = {}
           /\ \A j : j \notin S => Cardinality(S \union {j}) = Cardinality(S) + 1
           /\ \A j \in S : Cardinality(S \ {j}) = Cardinality(S) - 1

ErrorInv == \A w \in Waiter : w \in error <=> \E j \in Range(Work[w]) : ended[j] = "threw"

From == {"client", "queue", "inline"}
DoneInv ==
    \A w \in Waiter : answer[w] # "none" =>
        /\ \A j \in Range(Work[w]) : ~Queued(j) /\ ~Runs(j, From)
        /\ answer[w] = "error" <=> w \in error

(* is_leaf[t] as LeafKnown says.                                            *)
LeafInv ==
    \A t \in Thread :
        is_leaf[t] <=> stack[t] # <<>> /\ Top(t).phase # "relock" /\ Top(t).who \in Leaf

Inv ==
    /\ TypeInv /\ Nested /\ Unique /\ QueueInv /\ FrameInv
    /\ StartInv /\ CountInv /\ ErrorInv /\ DoneInv /\ LeafInv

(* A job has one owner.                                                     *)
LEMMA WorkIs ==
    ASSUME NEW w \in Waiter
    PROVE  /\ Work[w] \in Seq(Job) /\ Range(Work[w]) \subseteq Job
           /\ \A i \in 1..Len(Work[w]) : Work[w][i] \in Range(Work[w])
           /\ \A j \in Range(Work[w]) : \E i \in 1..Len(Work[w]) : j = Work[w][i]
<1>1. Work[w] \in Seq(Job)
  BY WorkAssumption DEF Waiter
<1>2. DOMAIN Work[w] = 1..Len(Work[w]) /\ \A i \in 1..Len(Work[w]) : Work[w][i] \in Job
  BY <1>1
<1> QED BY Zenon, <1>1, <1>2 DEF Range

(* A job is one submission.                                                 *)
LEMMA OneJob ==
    \A v, w \in Waiter : \A i \in DOMAIN Work[v], k \in DOMAIN Work[w] :
        Work[v][i] = Work[w][k] => v = w /\ i = k
  BY Zenon, WorkAssumption DEF Waiter

(* A job has one waiter.                                                    *)
LEMMA OneOwner ==
    ASSUME NEW v \in Waiter, NEW w \in Waiter, NEW j \in Range(Work[v]), j \in Range(Work[w])
    PROVE  v = w
<1>1. PICK i \in DOMAIN Work[v] : j = Work[v][i]
  BY Zenon DEF Range
<1>2. PICK k \in DOMAIN Work[w] : j = Work[w][k]
  BY Zenon DEF Range
<1>3. Work[v][i] = Work[w][k]
  BY <1>1, <1>2
<1> QED BY Zenon, <1>3, OneJob

(* A job has one place in the work of its waiter.                           *)
LEMMA OnePlace ==
    ASSUME NEW w \in Waiter, NEW i \in 1..Len(Work[w]), NEW k \in 1..Len(Work[w]),
           Work[w][i] = Work[w][k]
    PROVE  i = k
<1>1. DOMAIN Work[w] = 1..Len(Work[w])
  BY WorkIs
<1> QED BY Zenon, <1>1, OneJob

(* That waiter is the owner of the job.                                     *)
LEMMA OwnerIs ==
    ASSUME NEW w \in Waiter, NEW j \in Range(Work[w])
    PROVE  Owner(j) = w
<1>1. Owner(j) \in Waiter /\ j \in Range(Work[Owner(j)])
  BY Zenon DEF Owner, Waiter
<1> QED BY Zenon, <1>1, OneOwner

(* Every job has an owner.                                                  *)
LEMMA OwnerOf ==
    ASSUME NEW j \in Job
    PROVE  Owner(j) \in Waiter /\ j \in Range(Work[Owner(j)])
  BY Zenon, WorkAssumption DEF Owner, Waiter

(* The frame that a client or a job starts with.                            *)
LEMMA FrameOf ==
    ASSUME NEW w \in Waiter, NEW from \in From
    PROVE  /\ Frame(w, from) \in FrameType
           /\ Frame(w, from).who = w /\ Frame(w, from).from = from /\ Frame(w, from).next = 1
           /\ Frame(w, from).phase = IF Work[w] = <<>> THEN "end" ELSE "submit"
  BY DEF Frame, FrameType, From, Phase

-----------------------------------------------------------------------------
(* What the invariant says of the innermost frame of a thread.              *)
LEMMA TopInv ==
    ASSUME Inv, NEW t \in Thread, stack[t] # <<>>
    PROVE  /\ stack \in [Thread -> Seq(FrameType)] /\ Nested /\ Unique /\ FrameInv
           /\ Top(t) = stack[t][Len(stack[t])] /\ Top(t) \in FrameType /\ Top(t).who \in Waiter
           /\ Len(stack[t]) \in Nat \ {0} /\ OnStack(Top(t).who)
           /\ Origin(t, Len(stack[t]), Top(t).who, Top(t).from)
           /\ Pending(Top(t)) /\ Ending(Top(t))
           /\ Top(t).from = "inline" =>
                 /\ Len(stack[t]) > 1
                 /\ Below(Top(t).who, stack[t][Len(stack[t]) - 1].who)
<1>1. stack \in [Thread -> Seq(FrameType)] /\ Nested /\ Unique /\ FrameInv
  BY DEF Inv, TypeInv
<1>2. /\ Len(stack[t]) \in Frames(t) /\ Len(stack[t]) \in Nat \ {0}
      /\ Top(t) = stack[t][Len(stack[t])] /\ Top(t) \in FrameType
  BY <1>1, TopIs
<1>3. Top(t).who \in Waiter
  BY <1>2 DEF FrameType
<1>4. Pending(Top(t)) /\ Ending(Top(t))
  BY Zenon, <1>1, <1>2 DEF FrameInv
<1>5. /\ Origin(t, Len(stack[t]), Top(t).who, Top(t).from)
      /\ Top(t).from = "inline" => Below(Top(t).who, stack[t][Len(stack[t]) - 1].who)
  BY Zenon, <1>1, <1>2 DEF Nested
<1>6. Top(t).from = "inline" => Len(stack[t]) > 1
  BY Zenon, <1>5 DEF Origin
<1>7. OnStack(Top(t).who)
  BY Zenon, <1>2 DEF OnStack
<1> QED BY Zenon, <1>1, <1>2, <1>3, <1>4, <1>5, <1>6, <1>7

(* The frame below the innermost one.                                       *)
LEMMA BelowInv ==
    ASSUME Inv, NEW t \in Thread, Len(stack[t]) > 1
    PROVE  LET f == stack[t][Len(stack[t]) - 1] IN
           /\ f \in FrameType /\ f.who \in Waiter /\ Pending(f) /\ Ending(f)
           /\ f.phase \in {"submit", "flush"}
<1>1. stack \in [Thread -> Seq(FrameType)] /\ FrameInv
  BY DEF Inv, TypeInv
<1>2. /\ Len(stack[t]) - 1 \in Frames(t) /\ Len(stack[t]) - 1 < Len(stack[t])
      /\ stack[t][Len(stack[t]) - 1] \in FrameType
  BY <1>1 DEF Frames
<1>3. stack[t][Len(stack[t]) - 1].who \in Waiter
  BY Zenon, <1>2 DEF FrameType
<1> QED BY Zenon, <1>1, <1>2, <1>3 DEF FrameInv

(* What a frame has yet to submit stays fresh, when only jobs of another    *)
(* waiter w are submitted.                                                  *)
LEMMA PendingKeeps ==
    ASSUME NEW f \in FrameType, Pending(f), NEW w \in Waiter, NEW J \in SUBSET Range(Work[w]),
           f.who # w, answer'[f.who] = answer[f.who],
           \A x : Fresh(x) /\ x \notin J => Fresh(x)'
    PROVE  Pending(f)'
<1>1. f.who \in Waiter
  BY DEF FrameType
<1>2. \A p \in 1..Len(Work[f.who]) : Work[f.who][p] \notin J
  BY Zenon, <1>1, WorkIs, OneOwner
<1>3. f.phase = "submit" => \A p \in f.next..Len(Work[f.who]) : p \in 1..Len(Work[f.who])
  BY DEF Pending, FrameType
<1>4. f.phase = "submit" => \A p \in f.next..Len(Work[f.who]) : Fresh(Work[f.who][p])'
  BY Zenon, <1>2, <1>3 DEF Pending
<1> QED BY Zenon, <1>4 DEF Pending

(* What holds of a frame holds of it when its thread is notified.           *)
LEMMA Woken ==
    ASSUME NEW f \in FrameType, NEW h, Kept(f, h)
    PROVE  Pending(f)' /\ Ending(f)' => Pending(h)' /\ Ending(h)'
<1>1. CASE h = f
  BY Zenon, <1>1
<1>2. CASE f.phase = "parked" /\ h = [f EXCEPT !.phase = "block"]
  <2>1. h.who = f.who /\ h.from = f.from /\ h.phase = "block" /\ f.phase = "parked"
    BY Zenon, <1>2 DEF FrameType
  <2> QED BY <2>1 DEF Pending, Ending
<1> QED BY Zenon, <1>1, <1>2 DEF Kept

(* FrameInv when the innermost frame is replaced.                           *)
LEMMA TurnedFrameInv ==
    ASSUME stack \in [Thread -> Seq(FrameType)], NEW t \in Thread, stack[t] # <<>>, NEW g \in FrameType,
           Turned(t, g), g.who = Top(t).who, g.from = Top(t).from, Unique, FrameInv,
           \A f \in FrameType : f.who # g.who /\ Pending(f) /\ Ending(f) => Pending(f)' /\ Ending(f)',
           Pending(g)', Ending(g)'
    PROVE  FrameInv'
<1> SUFFICES ASSUME NEW u \in Thread, NEW i \in 1..Len(stack'[u]), NEW h, h = stack'[u][i]
             PROVE  /\ Pending(h)' /\ Ending(h)'
                    /\ i < Len(stack'[u]) => h.phase \in {"submit", "flush"}
  BY Zenon DEF FrameInv, Frames
<1>1. i \in 1..Len(stack[u]) /\ Len(stack'[u]) = Len(stack[u]) /\ stack[u][i] \in FrameType
  BY DEF Turned
<1>2. Len(stack[t]) \in Frames(t) /\ Top(t) = stack[t][Len(stack[t])]
  BY Zenon, TopIs
<1>3. CASE u = t /\ i = Len(stack[t])
  <2>1. h = g
    BY Zenon, <1>3 DEF Turned
  <2> QED BY <1>1, <1>3, <2>1
<1>4. CASE u # t \/ i # Len(stack[t])
  <2> DEFINE f == stack[u][i]
  <2>1. f \in FrameType /\ Kept(f, h)
    BY Zenon, <1>1, <1>4 DEF Turned, Frames
  <2>2. f.who # g.who
    BY <1>1, <1>2, <1>4, OneFrame DEF Frames
  <2>3. Pending(f) /\ Ending(f) /\ (i < Len(stack[u]) => f.phase \in {"submit", "flush"})
    BY Zenon, <1>1 DEF FrameInv, Frames
  <2> HIDE DEF f
  <2>4. Pending(h)' /\ Ending(h)'
    <3>1. ASSUME NEW x \in FrameType, x = f PROVE Pending(h)' /\ Ending(h)'
      BY <2>1, <2>2, <2>3, <3>1, Woken
    <3> QED BY Zenon, <2>1, <3>1
  <2>5. i < Len(stack[u]) => h.phase \in {"submit", "flush"}
    BY Zenon, <2>1, <2>3 DEF Kept
  <2> QED BY Zenon, <1>1, <2>4, <2>5
<1> QED BY Zenon, <1>3, <1>4
LEMMA PushedFrameInv ==
    ASSUME stack \in [Thread -> Seq(FrameType)], NEW t \in Thread, NEW g, NEW h, Pushed(t, g, h),
           Unique, FrameInv,
           NEW w, (stack[t] # <<>> /\ w = Top(t).who) \/ ~OnStack(w),
           \A f \in FrameType : f.who # w /\ Pending(f) /\ Ending(f) => Pending(f)' /\ Ending(f)',
           stack[t] # <<>> => Pending(g)' /\ Ending(g)' /\ g.phase \in {"submit", "flush"},
           Pending(h)', Ending(h)'
    PROVE  FrameInv'
<1> SUFFICES ASSUME NEW u \in Thread, NEW i \in 1..Len(stack'[u]), NEW k, k = stack'[u][i]
             PROVE  /\ Pending(k)' /\ Ending(k)'
                    /\ i < Len(stack'[u]) => k.phase \in {"submit", "flush"}
  BY Zenon DEF FrameInv, Frames
<1>1. /\ Len(stack[t]) \in Nat /\ Len(stack[u]) \in Nat
      /\ Len(stack'[u]) = IF u = t THEN Len(stack[u]) + 1 ELSE Len(stack[u])
  BY DEF Pushed
<1>2. CASE u = t /\ i = Len(stack[t]) + 1
  <2>1. k = h /\ ~(i < Len(stack'[u]))
    BY <1>1, <1>2 DEF Pushed
  <2> QED BY Zenon, <2>1
<1>3. CASE u = t /\ i = Len(stack[t])
  <2>1. stack[t] # <<>>
    BY <1>1, <1>3
  <2>2. k = g
    BY Zenon, <1>3, <2>1 DEF Pushed
  <2> QED BY Zenon, <2>1, <2>2
<1>4. CASE u # t \/ (i # Len(stack[t]) + 1 /\ i # Len(stack[t]))
  <2>1. /\ i \in 1..Len(stack[u]) /\ stack[u][i] \in FrameType
        /\ u # t \/ i # Len(stack[t])
        /\ (u # t /\ i < Len(stack'[u])) \/ u = t => i < Len(stack[u])
    BY <1>1, <1>4
  <2>2. k = stack[u][i]
    BY Zenon, <2>1 DEF Pushed, Frames
  <2>3. Pending(stack[u][i]) /\ Ending(stack[u][i])
        /\ (i < Len(stack[u]) => stack[u][i].phase \in {"submit", "flush"})
    BY Zenon, <2>1 DEF FrameInv, Frames
  <2>4. stack[u][i].who # w
    <3>1. CASE ~OnStack(w)
      BY Zenon, <2>1, <3>1 DEF OnStack, Frames
    <3>2. CASE stack[t] # <<>> /\ w = Top(t).who
      <4>1. Len(stack[t]) \in Frames(t) /\ Top(t) = stack[t][Len(stack[t])]
        BY <3>2, TopIs
      <4> QED BY <2>1, <3>2, <4>1, OneFrame DEF Frames
    <3> QED BY Zenon, <3>1, <3>2
  <2>5. Pending(k) /\ Ending(k) /\ k \in FrameType /\ k.who # w
        /\ (i < Len(stack'[u]) => k.phase \in {"submit", "flush"})
    BY Zenon, <2>1, <2>2, <2>3, <2>4
  <2> QED BY Zenon, <2>5
<1> QED BY Zenon, <1>2, <1>3, <1>4

(* FrameInv when the innermost frame is dropped.                            *)
LEMMA PoppedFrameInv ==
    ASSUME stack \in [Thread -> Seq(FrameType)], NEW t \in Thread, stack[t] # <<>>, NEW g,
           Popped(t, g), Unique, FrameInv,
           NEW w, w = Top(t).who,
           \A f \in FrameType : f.who # w /\ Pending(f) /\ Ending(f) => Pending(f)' /\ Ending(f)',
           Len(stack[t]) > 1 => Pending(g)' /\ Ending(g)'
    PROVE  FrameInv'
<1> SUFFICES ASSUME NEW u \in Thread, NEW i \in 1..Len(stack'[u]), NEW k, k = stack'[u][i]
             PROVE  /\ Pending(k)' /\ Ending(k)'
                    /\ i < Len(stack'[u]) => k.phase \in {"submit", "flush"}
  BY Zenon DEF FrameInv, Frames
<1>1. /\ Len(stack[t]) \in Nat /\ Len(stack[u]) \in Nat
      /\ Len(stack'[u]) = IF u = t THEN Len(stack[u]) - 1 ELSE Len(stack[u])
  BY DEF Popped
<1>2. Len(stack[t]) \in Frames(t) /\ Top(t) = stack[t][Len(stack[t])]
  BY TopIs
<1>3. CASE u = t /\ i = Len(stack[t]) - 1
  <2>1. Len(stack[t]) > 1 /\ ~(i < Len(stack'[u]))
    BY <1>1, <1>3
  <2>2. k = g
    BY Zenon, <1>3, <2>1 DEF Popped
  <2> QED BY Zenon, <2>1, <2>2
<1>4. CASE u # t \/ i # Len(stack[t]) - 1
  <2>1. /\ i \in 1..Len(stack[u]) /\ stack[u][i] \in FrameType
        /\ u # t \/ i < Len(stack[t]) - 1
        /\ u # t \/ i # Len(stack[t])
        /\ i < Len(stack'[u]) => i < Len(stack[u])
    BY <1>1, <1>4
  <2>2. k = stack[u][i]
    BY Zenon, <2>1 DEF Popped, Frames
  <2>3. Pending(stack[u][i]) /\ Ending(stack[u][i])
        /\ (i < Len(stack[u]) => stack[u][i].phase \in {"submit", "flush"})
    BY Zenon, <2>1 DEF FrameInv, Frames
  <2>4. stack[u][i].who # w
    BY <1>2, <2>1, OneFrame DEF Frames
  <2>5. Pending(k) /\ Ending(k) /\ k \in FrameType /\ k.who # w
        /\ (i < Len(stack'[u]) => k.phase \in {"submit", "flush"})
    BY Zenon, <2>1, <2>2, <2>3, <2>4
  <2> QED BY Zenon, <2>5
<1> QED BY Zenon, <1>3, <1>4

-----------------------------------------------------------------------------
(* The other conjuncts, from how a step changes what is unstarted, queued   *)
(* and running.                                                             *)
LEMMA QueueKeeps ==
    ASSUME QueueInv, queue' = queue, \A v : Unstarted(v) /\ Queued(v) => Unstarted(v)'
    PROVE  QueueInv'
<1>1. \A m \in 1..Len(queue) : Queued(queue[m])
  BY Zenon DEF Queued
<1>2. \A v : Queued(v) /\ Unstarted(v) => Unstarted(v)'
  OBVIOUS
<1>3. ASSUME NEW m \in 1..Len(queue), NEW v, v = queue[m] PROVE Unstarted(v)'
  <2>1. Queued(v) /\ Unstarted(v)
    BY Zenon, <1>1, <1>3 DEF QueueInv
  <2> QED BY Zenon, <1>2, <2>1
<1>4. (\A m \in 1..Len(queue) : Unstarted(queue[m]))'
  BY <1>3 DEF Unstarted, OnStack, Frames
<1> QED BY Zenon, <1>4 DEF QueueInv

(* StartInv, when no job comes back to be started.                          *)
LEMMA StartKeeps ==
    ASSUME StartInv, \A v : Unstarted(v)' => Unstarted(v),
           \A v \in Job : Unstarted(v)' => answer'[v] = answer[v],
           \A v \in Job : Unstarted(v)' => \A j \in Range(Work[v]) : Fresh(j) => Fresh(j)'
    PROVE  StartInv'
<1> SUFFICES ASSUME NEW v \in Job, Unstarted(v)'
             PROVE  answer'[v] = "none" /\ \A j \in Range(Work[v]) : Fresh(j)'
  BY DEF StartInv
<1> QED BY Zenon DEF StartInv

(* CountInv, when the same jobs stay open.                                  *)
LEMMA CountKeeps ==
    ASSUME CountInv, num' = num,
           \A j : Queued(j)' \/ Runs(j, {"queue"})' <=> Queued(j) \/ Runs(j, {"queue"})
    PROVE  CountInv'
<1> SUFFICES ASSUME NEW w \in Waiter PROVE num[w] = Cardinality(Open(w))'
  BY DEF CountInv
<1>1. Open(w)' = Open(w)
  BY Zenon DEF Open
<1>2. Cardinality(Open(w))' = Cardinality(Open(w))
  BY <1>1
<1> QED BY <1>2 DEF CountInv

(* DoneInv, when no job of a wait that returned is queued or run again.     *)
LEMMA DoneKeeps ==
    ASSUME DoneInv, answer' = answer, error' = error,
           \A w \in Waiter : \A j \in Range(Work[w]) : answer[w] # "none" =>
              /\ Queued(j)' => Queued(j)
              /\ Runs(j, From)' => Runs(j, From)
    PROVE  DoneInv'
<1> SUFFICES ASSUME NEW w \in Waiter, answer[w] # "none"
             PROVE  /\ \A j \in Range(Work[w]) : ~Queued(j)' /\ ~Runs(j, From)'
                    /\ answer[w] = "error" <=> w \in error
  BY DEF DoneInv, From
<1> QED BY Zenon DEF DoneInv

(* What LeafInv says of one thread.                                         *)
LeafAt(t) == is_leaf[t] <=> stack[t] # <<>> /\ Top(t).phase # "relock" /\ Top(t).who \in Leaf

(* LeafInv, from the thread that took the step.                             *)
LEMMA LeafTurns ==
    ASSUME stack \in [Thread -> Seq(FrameType)], stack' \in [Thread -> Seq(FrameType)],
           NEW t \in Thread,
           LeafInv, LeafAt(t)',
           \A u \in Thread \ {t} : /\ is_leaf'[u] = is_leaf[u] /\ Len(stack'[u]) = Len(stack[u])
                                   /\ \A i \in Frames(u) : Kept(stack[u][i], stack'[u][i])
    PROVE  LeafInv'
<1> SUFFICES ASSUME NEW u \in Thread, u # t PROVE LeafAt(u)'
  BY DEF LeafInv, LeafAt
<1>1. LeafAt(u) /\ is_leaf'[u] = is_leaf[u] /\ Len(stack'[u]) = Len(stack[u])
  BY Zenon DEF LeafInv, LeafAt
<1>2. CASE stack[u] = <<>>
  <2>1. stack'[u] = <<>>
    BY <1>1, <1>2
  <2> QED BY Zenon, <1>1, <1>2, <2>1 DEF LeafAt
<1>3. CASE stack[u] # <<>>
  <2> DEFINE f == stack[u][Len(stack[u])]
             h == stack'[u][Len(stack[u])]
  <2>1. Top(u) = f /\ Len(stack[u]) \in Frames(u) /\ f \in FrameType
    BY Zenon, <1>3, TopIs
  <2>2. stack'[u] # <<>> /\ Top(u)' = h
    BY <1>1, <1>3 DEF Top, Last
  <2>3. Kept(f, h)
    BY Zenon, <2>1
  <2>4. h.who = f.who /\ (h.phase = "relock" <=> f.phase = "relock")
    BY Zenon, <2>1, <2>3 DEF Kept, FrameType
  <2> HIDE DEF f, h
  <2> QED BY Zenon, <1>1, <1>3, <2>1, <2>2, <2>4 DEF LeafAt
<1> QED BY Zenon, <1>2, <1>3

(* is_leaf of that thread, from its innermost frame.                        *)
LEMMA LeafTop ==
    ASSUME stack' \in [Thread -> Seq(FrameType)], NEW t \in Thread, NEW n \in Nat, n = Len(stack'[t]),
           is_leaf'[t] <=> n > 0 /\ stack'[t][n].phase # "relock" /\ stack'[t][n].who \in Leaf
    PROVE  LeafAt(t)'
<1>1. n > 0 <=> stack'[t] # <<>>
  OBVIOUS
<1>2. Top(t)' = stack'[t][n]
  BY DEF Top, Last
<1> QED BY Zenon, <1>1, <1>2 DEF LeafAt

(* LeafInv when the innermost frame is replaced.                            *)
LEMMA TurnedLeaf ==
    ASSUME stack \in [Thread -> Seq(FrameType)], NEW t \in Thread, stack[t] # <<>>, NEW g,
           Turned(t, g), LeafInv,
           \A u \in Thread \ {t} : is_leaf'[u] = is_leaf[u],
           is_leaf'[t] <=> g.phase # "relock" /\ g.who \in Leaf
    PROVE  LeafInv'
<1>1. stack' \in [Thread -> Seq(FrameType)] /\ stack'[t][Len(stack[t])] = g
  BY Zenon DEF Turned
<1>2. Len(stack[t]) \in Nat /\ Len(stack[t]) > 0 /\ Len(stack'[t]) = Len(stack[t])
  BY DEF Turned
<1>3. LeafAt(t)'
  BY <1>1, <1>2, LeafTop
<1>4. \A u \in Thread \ {t} : /\ Len(stack'[u]) = Len(stack[u])
                              /\ \A i \in Frames(u) : Kept(stack[u][i], stack'[u][i])
  BY Zenon DEF Turned
<1> QED BY Zenon, <1>1, <1>3, <1>4, LeafTurns

(* LeafInv when a frame is added.                                           *)
LEMMA PushedLeaf ==
    ASSUME stack \in [Thread -> Seq(FrameType)], NEW t \in Thread, NEW g, NEW h, Pushed(t, g, h),
           LeafInv,
           \A u \in Thread \ {t} : is_leaf'[u] = is_leaf[u],
           is_leaf'[t] <=> h.phase # "relock" /\ h.who \in Leaf
    PROVE  LeafInv'
<1>1. stack' \in [Thread -> Seq(FrameType)] /\ stack'[t][Len(stack[t]) + 1] = h
  BY Zenon DEF Pushed
<1>2. Len(stack[t]) + 1 \in Nat /\ Len(stack[t]) + 1 > 0 /\ Len(stack'[t]) = Len(stack[t]) + 1
  BY DEF Pushed
<1>3. LeafAt(t)'
  BY <1>1, <1>2, LeafTop
<1>4. \A u \in Thread \ {t} : /\ Len(stack'[u]) = Len(stack[u])
                              /\ \A i \in Frames(u) : Kept(stack[u][i], stack'[u][i])
  BY Zenon DEF Pushed, Kept
<1> QED BY Zenon, <1>1, <1>3, <1>4, LeafTurns

(* LeafInv when the innermost frame is dropped.                             *)
LEMMA PoppedLeaf ==
    ASSUME stack \in [Thread -> Seq(FrameType)], NEW t \in Thread, stack[t] # <<>>, NEW g,
           Popped(t, g), LeafInv,
           \A u \in Thread \ {t} : is_leaf'[u] = is_leaf[u],
           is_leaf'[t] <=> Len(stack[t]) > 1 /\ g.phase # "relock" /\ g.who \in Leaf
    PROVE  LeafInv'
<1>1. stack' \in [Thread -> Seq(FrameType)] /\ (Len(stack[t]) > 1 => stack'[t][Len(stack[t]) - 1] = g)
  BY Zenon DEF Popped
<1>2. /\ Len(stack[t]) - 1 \in Nat /\ Len(stack'[t]) = Len(stack[t]) - 1
      /\ Len(stack[t]) - 1 > 0 <=> Len(stack[t]) > 1
  BY DEF Popped
<1>3. LeafAt(t)'
  BY <1>1, <1>2, LeafTop
<1>4. \A u \in Thread \ {t} : /\ Len(stack'[u]) = Len(stack[u])
                              /\ \A i \in Frames(u) : Kept(stack[u][i], stack'[u][i])
  BY Zenon DEF Popped, Kept
<1> QED BY Zenon, <1>1, <1>3, <1>4, LeafTurns

(* A step that keeps the queue and the ends, and turns a frame of t.        *)
LEMMA Quiet ==
    ASSUME Inv, NEW t \in Thread, stack[t] # <<>>, NEW g, Turned(t, g),
           g.who = Top(t).who, g.from = Top(t).from, Top(t).phase # "relock", g.phase # "relock",
           queue' = queue, ended' = ended
    PROVE  /\ Nested' /\ Unique'
           /\ \A v : (Unstarted(v)' <=> Unstarted(v)) /\ (Queued(v)' <=> Queued(v)) /\ (Fresh(v)' <=> Fresh(v))
           /\ \A v, F : Runs(v, F)' <=> Runs(v, F)
<1>1. stack \in [Thread -> Seq(FrameType)] /\ Nested /\ Unique
  BY TopInv
<1>2. Nested' /\ Unique' /\ \A v : OnStack(v)' <=> OnStack(v)
  BY Zenon, <1>1, TurnedKeeps
<1>3. \A v : Queued(v)' <=> Queued(v)
  BY DEF Queued
<1>4. \A v : Unstarted(v)' <=> Unstarted(v)
  BY Zenon, <1>2 DEF Unstarted
<1>5. \A v : Fresh(v)' <=> Fresh(v)
  BY Zenon, <1>3, <1>4 DEF Fresh
<1>6. /\ \A v, F : v # g.who => (Runs(v, F)' <=> Runs(v, F))
      /\ \A F : Runs(g.who, F)' <=> g.from \in F
  BY Zenon, <1>1, TurnedRuns
<1>7. \A F : Runs(Top(t).who, F) <=> Top(t).from \in F
  BY Zenon, <1>1, TopRuns
<1>8. \A F : Runs(g.who, F)' <=> Runs(g.who, F)
  BY <1>6, <1>7
<1>9. \A v, F : Runs(v, F)' <=> Runs(v, F)
  BY Zenon, <1>6, <1>8
<1> QED BY Zenon, <1>2, <1>3, <1>4, <1>5, <1>9

-----------------------------------------------------------------------------
(* Waiting: a frame goes on, and perhaps its waiter gets its answer.        *)
LEMMA WaitingStep ==
    ASSUME Inv, NEW t \in Thread, stack[t] # <<>>, NEW g \in FrameType, Turned(t, g),
           g.who = Top(t).who, g.from = Top(t).from, Top(t).phase # "relock", g.phase # "relock",
           UNCHANGED <<queue, is_leaf, num, error, ended>>,
           answer' \in [Waiter -> {"none", "done", "error"}],
           \A v \in Waiter : v # g.who => answer'[v] = answer[v],
           Pending(g)', DoneInv'
    PROVE  Inv'
<1>1. /\ stack \in [Thread -> Seq(FrameType)] /\ Unique /\ FrameInv /\ Ending(Top(t)) /\ Top(t) \in FrameType
      /\ OnStack(g.who)
  BY Zenon, TopInv
<1>2. /\ TypeInv /\ QueueInv /\ StartInv /\ CountInv /\ ErrorInv /\ LeafInv
  BY Zenon DEF Inv
<1>3. /\ Nested' /\ Unique'
      /\ \A v : (Unstarted(v)' <=> Unstarted(v)) /\ (Queued(v)' <=> Queued(v)) /\ (Fresh(v)' <=> Fresh(v))
      /\ \A v, F : Runs(v, F)' <=> Runs(v, F)
  BY Quiet
<1>4. stack' \in [Thread -> Seq(FrameType)]
  BY Zenon DEF Turned
<1>5. TypeInv'
  BY <1>2, <1>4 DEF TypeInv
<1>6. QueueInv'
  BY Zenon, <1>2, <1>3, QueueKeeps
<1>7. FrameInv'
  <2>1. Ending(g)'
    BY <1>1 DEF Ending
  <2>2. ASSUME NEW f \in FrameType, f.who # g.who, Pending(f), Ending(f) PROVE Pending(f)' /\ Ending(f)'
    <3>1. f.who \in Waiter
      BY DEF FrameType
    <3>2. answer'[f.who] = answer[f.who] /\ ended' = ended
      BY Zenon, <2>2, <3>1
    <3> QED BY Zenon, <1>3, <2>2, <3>2 DEF Pending, Ending
  <2> QED BY Zenon, <1>1, <2>1, <2>2, TurnedFrameInv
<1>8. StartInv'
  <2>1. \A v \in Job : Unstarted(v)' => answer'[v] = answer[v]
    BY Zenon, <1>1, <1>3 DEF Unstarted, Waiter
  <2> QED BY Zenon, <1>2, <1>3, <2>1, StartKeeps
<1>9. CountInv'
  BY Zenon, <1>2, <1>3, CountKeeps
<1>10. ErrorInv'
  BY <1>2 DEF ErrorInv
<1>11. LeafInv'
  <2>1. is_leaf[t] <=> g.phase # "relock" /\ g.who \in Leaf
    BY Zenon, <1>2 DEF LeafInv
  <2> QED BY Zenon, <1>1, <1>2, <2>1, TurnedLeaf
<1> QED BY Zenon, <1>3, <1>5, <1>6, <1>7, <1>8, <1>9, <1>10, <1>11 DEF Inv

(* A frame whose phase changes.                                             *)
LEMMA PhaseIs ==
    ASSUME NEW f \in FrameType, NEW ph \in Phase, NEW g, g = [f EXCEPT !.phase = ph]
    PROVE  g \in FrameType /\ g.who = f.who /\ g.from = f.from /\ g.phase = ph
  BY Zenon DEF FrameType

(* A wait that finds the queue empty.                                       *)
LEMMA FlushedStep ==
    ASSUME Inv, NEW t \in Thread, Flushed(t)
    PROVE  Inv'
<1>1. /\ stack[t] # <<>> /\ Top(t).phase = "flush"
      /\ stack' = [stack EXCEPT ![t] = SetTop(t, [Top(t) EXCEPT !.phase = "block"])]
      /\ UNCHANGED <<queue, is_leaf, num, error, ended, answer>>
  BY Zenon DEF Flushed, In
<1>2. PICK g : g = [Top(t) EXCEPT !.phase = "block"]
  BY Zenon
<1>3. stack \in [Thread -> Seq(FrameType)] /\ Unique /\ Top(t) \in FrameType /\ Pending(Top(t))
  BY <1>1, TopInv
<1>4. g \in FrameType /\ g.who = Top(t).who /\ g.from = Top(t).from /\ g.phase = "block"
  BY <1>2, <1>3, PhaseIs DEF Phase
<1>5. Turned(t, g)
  BY Zenon, <1>1, <1>2, <1>3, <1>4, Turn
<1>6. Pending(g)'
  BY Zenon, <1>1, <1>3, <1>4 DEF Pending
<1>7. DoneInv'
  <2>1. \A v : (Queued(v)' <=> Queued(v)) /\ (Runs(v, From)' <=> Runs(v, From))
    BY <1>1, <1>4, <1>5, Quiet
  <2> QED BY Zenon, <1>1, <2>1, DoneKeeps DEF Inv
<1>8. answer' \in [Waiter -> {"none", "done", "error"}]
  BY Zenon, <1>1 DEF Inv, TypeInv
<1> QED BY Zenon, <1>1, <1>4, <1>5, <1>6, <1>7, <1>8, WaitingStep

(* How the number of open jobs changes with one job.                        *)
LEMMA OpenIs ==
    ASSUME Counting, NEW w \in Waiter
    PROVE  /\ Cardinality(Open(w)) = 0 <=> Open(w) = {}
           /\ \A j : j \notin Open(w) => Cardinality(Open(w) \union {j}) = Cardinality(Open(w)) + 1
           /\ \A j \in Open(w) : Cardinality(Open(w) \ {j}) = Cardinality(Open(w)) - 1
<1>1. Open(w) \in SUBSET Range(Work[w])
  BY Zenon DEF Open
<1> QED BY Zenon, <1>1 DEF Counting

(* A job of the innermost frame's waiter that runs came from the queue: one *)
(* run at once would be above.                                              *)
LEMMA RunsFromQueue ==
    ASSUME Inv, NEW t \in Thread, stack[t] # <<>>, NEW w, w = Top(t).who, NEW j \in Range(Work[w]),
           Runs(j, From)
    PROVE  Runs(j, {"queue"})
<1>1. /\ stack \in [Thread -> Seq(FrameType)] /\ Nested /\ Unique /\ w \in Waiter
      /\ Top(t) = stack[t][Len(stack[t])] /\ Len(stack[t]) \in Frames(t)
  BY TopInv DEF Frames
<1>2. j \in Job
  BY Zenon, <1>1, WorkIs
<1>3. PICK u \in Thread : \E i \in Frames(u) : stack[u][i].who = j /\ stack[u][i].phase # "relock"
                                               /\ stack[u][i].from \in From
  BY Zenon DEF Runs
<1>4. PICK i \in Frames(u) : stack[u][i].who = j /\ stack[u][i].phase # "relock" /\ stack[u][i].from \in From
  BY Zenon, <1>3
<1>5. /\ Origin(u, i, j, stack[u][i].from)
      /\ stack[u][i].from = "inline" => Below(j, stack[u][i - 1].who)
  BY Zenon, <1>1, <1>4 DEF Nested
<1>6. stack[u][i].from # "client"
  <2>1. u \notin Job
    BY WorkAssumption DEF Thread
  <2> QED BY Zenon, <1>2, <1>5, <2>1 DEF Origin
<1>7. stack[u][i].from # "inline"
  <2> SUFFICES ASSUME stack[u][i].from = "inline" PROVE FALSE
    OBVIOUS
  <2>1. i > 1 /\ j \in Range(Work[stack[u][i - 1].who])
    BY Zenon, <1>5 DEF Origin, Below
  <2>2. i - 1 \in Frames(u) /\ stack[u][i - 1].who \in Waiter
    <3>1. i - 1 \in Frames(u) /\ stack[u][i - 1] \in FrameType
      BY <1>1, <2>1 DEF Frames
    <3> QED BY Zenon, <3>1 DEF FrameType
  <2>3. stack[u][i - 1].who = stack[t][Len(stack[t])].who
    BY Zenon, <1>1, <2>1, <2>2, OneOwner
  <2>4. u = t /\ i - 1 = Len(stack[t])
    BY <1>1, <2>2, <2>3, OneFrame
  <2> QED BY <1>1, <2>4 DEF Frames
<1>8. stack[u][i].from \in {"queue"}
  BY Zenon, <1>4, <1>6, <1>7 DEF From
<1> QED BY Zenon, <1>4, <1>8 DEF Runs

(* A wait that returns, or blocks.                                          *)
LEMMA WaitStep ==
    ASSUME Counting, Inv, NEW t \in Thread, Wait(t)
    PROVE  Inv'
<1>1. /\ stack[t] # <<>> /\ Top(t).phase = "block"
      /\ UNCHANGED <<queue, is_leaf, num, error, ended>>
  BY Zenon DEF Wait, In
<1>2. PICK w : w = Top(t).who
  BY Zenon
<1>3. stack \in [Thread -> Seq(FrameType)] /\ Unique /\ Top(t) \in FrameType /\ Pending(Top(t)) /\ w \in Waiter
  BY Zenon, <1>1, <1>2, TopInv
<1>4. /\ TypeInv /\ CountInv /\ DoneInv /\ answer \in [Waiter -> {"none", "done", "error"}]
  BY Zenon DEF Inv, TypeInv
<1>5. CASE num[w] # 0
  <2>1. /\ stack' = [stack EXCEPT ![t] = SetTop(t, [Top(t) EXCEPT !.phase = "parked"])] /\ answer' = answer
    BY <1>2, <1>5 DEF Wait
  <2>2. PICK g : g = [Top(t) EXCEPT !.phase = "parked"]
    BY Zenon
  <2>3. g \in FrameType /\ g.who = Top(t).who /\ g.from = Top(t).from /\ g.phase = "parked"
    BY <1>3, <2>2, PhaseIs DEF Phase
  <2>4. Turned(t, g)
    BY Zenon, <1>1, <1>3, <2>1, <2>2, <2>3, Turn
  <2>5. Pending(g)'
    BY Zenon, <1>1, <1>3, <2>1, <2>3 DEF Pending
  <2>6. DoneInv'
    <3>1. \A v : (Queued(v)' <=> Queued(v)) /\ (Runs(v, From)' <=> Runs(v, From))
      BY Zenon, <1>1, <2>3, <2>4, Quiet
    <3> QED BY Zenon, <1>1, <1>4, <2>1, <3>1, DoneKeeps
  <2> QED BY Zenon, <1>1, <1>4, <2>1, <2>3, <2>4, <2>5, <2>6, WaitingStep
<1>6. CASE num[w] = 0
  <2>1. /\ stack' = [stack EXCEPT ![t] = SetTop(t, [Top(t) EXCEPT !.phase = "end"])]
        /\ answer' = [answer EXCEPT ![w] = IF w \in error THEN "error" ELSE "done"]
    BY Zenon, <1>2, <1>6 DEF Wait
  <2>2. PICK g : g = [Top(t) EXCEPT !.phase = "end"]
    BY Zenon
  <2>3. g \in FrameType /\ g.who = w /\ g.from = Top(t).from /\ g.phase = "end"
    BY <1>2, <1>3, <2>2, PhaseIs DEF Phase
  <2>4. Turned(t, g)
    BY Zenon, <1>1, <1>3, <2>1, <2>2, <2>3, Turn
  <2>5. Pending(g)'
    BY Zenon, <2>3 DEF Pending
  <2>6. /\ answer' \in [Waiter -> {"none", "done", "error"}]
        /\ answer'[w] = IF w \in error THEN "error" ELSE "done"
        /\ \A v \in Waiter : v # w => answer'[v] = answer[v]
    BY Zenon, <1>3, <1>4, <2>1
  <2>7. \A v : (Queued(v)' <=> Queued(v)) /\ (Runs(v, From)' <=> Runs(v, From))
    BY Zenon, <1>1, <1>2, <2>3, <2>4, Quiet
  <2>8. Open(w) = {}
    BY Zenon, <1>3, <1>4, <1>6, OpenIs DEF CountInv
  <2>9. \A j \in Range(Work[w]) : ~Queued(j) /\ ~Runs(j, From)
    BY Zenon, <1>1, <1>2, <2>8, RunsFromQueue DEF Open
  <2>10. DoneInv'
    <3> SUFFICES ASSUME NEW v \in Waiter, answer'[v] # "none"
                 PROVE  /\ \A j \in Range(Work[v]) : ~Queued(j)' /\ ~Runs(j, From)'
                        /\ answer'[v] = "error" <=> v \in error
      BY <1>1 DEF DoneInv, From
    <3>1. CASE v = w
      BY Zenon, <2>6, <2>7, <2>9, <3>1
    <3>2. CASE v # w
      BY Zenon, <1>4, <2>6, <2>7, <3>2 DEF DoneInv
    <3> QED BY Zenon, <3>1, <3>2
  <2>11. Top(t).phase # "relock" /\ g.phase # "relock" /\ g.who = Top(t).who
    BY Zenon, <1>1, <1>2, <2>3
  <2> QED BY Zenon, <1>1, <2>3, <2>4, <2>5, <2>6, <2>10, <2>11, WaitingStep
<1> QED BY Zenon, <1>5, <1>6

-----------------------------------------------------------------------------
(* Nothing that the invariant speaks of changes.                            *)
LEMMA IdleStep ==
    ASSUME Inv, UNCHANGED <<queue, stack, is_leaf, num, error, ended, answer>>
    PROVE  Inv'
<1>1. Nested' /\ Unique'
  BY DEF Inv, Nested, Unique, Frames
<1>2. TypeInv' /\ ErrorInv'
  BY Zenon DEF Inv, TypeInv, ErrorInv
<1>3. /\ \A v : (Unstarted(v)' <=> Unstarted(v)) /\ (Queued(v)' <=> Queued(v)) /\ (Fresh(v)' <=> Fresh(v))
      /\ \A v, F : Runs(v, F)' <=> Runs(v, F)
  BY Zenon DEF Unstarted, Queued, Fresh, Runs, OnStack, Frames
<1>4. \A f : (Pending(f)' <=> Pending(f)) /\ (Ending(f)' <=> Ending(f))
  BY Zenon, <1>3 DEF Pending, Ending
<1>5. FrameInv'
  <2> SUFFICES ASSUME NEW t \in Thread, NEW i \in 1..Len(stack[t]), NEW f, f = stack[t][i]
               PROVE  /\ Pending(f)' /\ Ending(f)'
                      /\ i < Len(stack[t]) => f.phase \in {"submit", "flush"}
    BY DEF FrameInv, Frames
  <2> QED BY Zenon, <1>4 DEF Inv, FrameInv, Frames
<1>6. QueueInv' /\ StartInv' /\ CountInv' /\ DoneInv'
  BY Zenon, <1>3, QueueKeeps, StartKeeps, CountKeeps, DoneKeeps DEF Inv
<1>7. LeafInv'
  BY Zenon DEF Inv, LeafInv, Top
<1> QED BY ZenonT(60), <1>1, <1>2, <1>5, <1>6, <1>7 DEF Inv

(* A frame that is done leaves.                                             *)
LEMMA LeaveStep ==
    ASSUME Inv, NEW t \in Thread, stack[t] # <<>>, NEW g, Popped(t, g),
           Len(stack[t]) > 1 => g = stack[t][Len(stack[t]) - 1],
           UNCHANGED <<queue, is_leaf, num, error, ended, answer>>,
           Top(t).phase = "relock" \/ Top(t).from = "client"
    PROVE  Inv'
<1>0. PICK w : w = Top(t).who
  BY Zenon
<1>1. /\ stack \in [Thread -> Seq(FrameType)] /\ Nested /\ Unique /\ FrameInv /\ Pending(Top(t)) /\ Ending(Top(t))
      /\ Origin(t, Len(stack[t]), w, Top(t).from)
  BY Zenon, <1>0, TopInv
<1>2. /\ TypeInv /\ QueueInv /\ StartInv /\ CountInv /\ ErrorInv /\ DoneInv /\ LeafInv
  BY DEF Inv
<1>3. Len(stack[t]) > 1 => /\ g.phase \in {"submit", "flush"} /\ g.who \notin Leaf
                           /\ Pending(g) /\ Ending(g)
  BY Zenon, BelowInv DEF Pending
<1>4. Top(t).phase # "relock" => w \notin Job
  <2>1. t \notin Job
    BY WorkAssumption DEF Thread
  <2> QED BY Zenon, <1>1, <2>1 DEF Origin
<1>5. Nested' /\ Unique' /\ \A v : OnStack(v)' <=> OnStack(v) /\ v # w
  BY Zenon, <1>0, <1>1, PoppedKeeps
<1>6. \A v, F : Runs(v, F)' <=> Runs(v, F) /\ v # w
  BY Zenon, <1>0, <1>1, <1>3, PoppedRuns
<1>7. ~Runs(w, {"queue"})
  <2>1. Runs(Top(t).who, {"queue"}) <=> Top(t).from \in {"queue"} /\ Top(t).phase # "relock"
    BY Zenon, <1>1, TopRuns
  <2>2. ~(Top(t).from \in {"queue"} /\ Top(t).phase # "relock")
    OBVIOUS
  <2> QED BY Zenon, <1>0, <2>1, <2>2
<1>8. w \in Job => ended[w] # "no"
  BY Zenon, <1>0, <1>1, <1>4 DEF Ending
<1>9. \A v : (Unstarted(v)' <=> Unstarted(v)) /\ (Queued(v)' <=> Queued(v)) /\ (Fresh(v)' <=> Fresh(v))
  <2>1. \A v : Queued(v)' <=> Queued(v)
    BY Zenon DEF Queued
  <2>2. \A v : Unstarted(v)' <=> Unstarted(v)
    BY Zenon, <1>5, <1>8 DEF Unstarted
  <2> QED BY Zenon, <2>1, <2>2 DEF Fresh
<1>10. \A f : (Pending(f)' <=> Pending(f)) /\ (Ending(f)' <=> Ending(f))
  BY Zenon, <1>9 DEF Pending, Ending
<1>11. TypeInv'
  <2>1. stack' \in [Thread -> Seq(FrameType)]
    BY Zenon DEF Popped
  <2> QED BY Zenon, <1>2, <2>1 DEF TypeInv
<1>12. FrameInv'
  BY Zenon, <1>0, <1>1, <1>3, <1>10, PoppedFrameInv
<1>13. QueueInv' /\ StartInv' /\ CountInv' /\ DoneInv' /\ ErrorInv'
  <2>1. QueueInv' /\ StartInv'
    BY Zenon, <1>2, <1>9, QueueKeeps, StartKeeps
  <2>2. CountInv'
    BY Zenon, <1>2, <1>6, <1>7, <1>9, CountKeeps
  <2>3. DoneInv'
    BY Zenon, <1>2, <1>6, <1>9, DoneKeeps
  <2>4. ErrorInv'
    BY Zenon, <1>2 DEF ErrorInv
  <2> QED BY Zenon, <2>1, <2>2, <2>3, <2>4
<1>14. LeafInv'
  <2>1. ~is_leaf[t]
    <3>1. CASE Top(t).phase = "relock"
      BY Zenon, <1>2, <3>1 DEF LeafInv
    <3>2. CASE Top(t).phase # "relock"
      <4>1. w \notin Leaf
        BY Zenon, <1>4, <3>2, WorkAssumption
      <4> QED BY Zenon, <1>0, <1>2, <4>1 DEF LeafInv
    <3> QED BY Zenon, <3>1, <3>2
  <2> QED BY Zenon, <1>1, <1>2, <1>3, <2>1, PoppedLeaf
<1> QED BY Zenon, <1>5, <1>11, <1>12, <1>13, <1>14 DEF Inv

(* A job of the queue is left behind.                                       *)
LEMMA RelockStep ==
    ASSUME Inv, NEW t \in Thread, Relock(t)
    PROVE  Inv'
<1>1. /\ stack[t] # <<>> /\ Top(t).phase = "relock" /\ stack' = [stack EXCEPT ![t] = Front(@)]
      /\ UNCHANGED <<queue, is_leaf, num, error, ended, answer>>
  BY Zenon DEF Relock, In
<1>2. stack \in [Thread -> Seq(FrameType)]
  BY Zenon, <1>1, TopInv
<1>3. PICK g : g = stack[t][Len(stack[t]) - 1]
  BY Zenon
<1>4. Popped(t, g)
  BY Zenon, <1>1, <1>2, <1>3, Pop
<1> QED BY Zenon, <1>1, <1>3, <1>4, LeaveStep

(* A client ends.                                                           *)
LEMMA EndClientStep ==
    ASSUME Inv, NEW t \in Thread, EndClient(t)
    PROVE  Inv'
<1>1. /\ stack[t] # <<>> /\ Top(t).from = "client" /\ stack' = [stack EXCEPT ![t] = <<>>]
      /\ UNCHANGED <<queue, is_leaf, num, error, ended, answer>>
  BY Zenon DEF EndClient, In
<1>2. stack \in [Thread -> Seq(FrameType)] /\ Len(stack[t]) = 1
  BY Zenon, <1>1, TopInv DEF Origin
<1>3. /\ stack' \in [Thread -> Seq(FrameType)] /\ stack'[t] = <<>>
      /\ \A u \in Thread : u # t => stack'[u] = stack[u]
  <2>1. <<>> \in Seq(FrameType)
    OBVIOUS
  <2> QED BY Zenon, <1>1, <1>2, <2>1, NewStack
<1>4. Popped(t, t)
  <2>1. \A u \in Thread : Len(stack'[u]) = IF u = t THEN Len(stack[u]) - 1 ELSE Len(stack[u])
    <3>1. Len(stack'[t]) = Len(stack[t]) - 1
      BY <1>2, <1>3
    <3> QED BY Zenon, <1>3, <3>1
  <2>2. ~(Len(stack[t]) > 1) /\ \A i \in Frames(t) : ~(i < Len(stack[t]) - 1)
    BY <1>2 DEF Frames
  <2> QED BY Zenon, <1>3, <2>1, <2>2 DEF Popped
<1>5. ~(Len(stack[t]) > 1)
  BY <1>2
<1> QED BY Zenon, <1>1, <1>4, <1>5, LeaveStep

-----------------------------------------------------------------------------
Distinct(q) == \A m, n \in 1..Len(q) : q[m] = q[n] => m = n

(* The queue without its first job.                                         *)
LEMMA TailIs ==
    ASSUME queue \in Seq(Job), queue # <<>>, Distinct(queue), queue' = Tail(queue), NEW j,
           j = Head(queue)
    PROVE  /\ queue' \in Seq(Job) /\ Distinct(queue)' /\ j \in Job /\ Queued(j)
           /\ \A v : Queued(v)' <=> Queued(v) /\ v # j
<1>1. Len(queue) \in Nat \ {0} /\ j = queue[1] /\ j \in Job
  OBVIOUS
<1>2. /\ queue' \in Seq(Job) /\ Len(queue') = Len(queue) - 1
      /\ \A m \in 1..Len(queue) - 1 : queue'[m] = queue[m + 1]
  OBVIOUS
<1>3. Distinct(queue)'
  <2> SUFFICES ASSUME NEW m \in 1..Len(queue'), NEW n \in 1..Len(queue'), queue'[m] = queue'[n] PROVE m = n
    BY DEF Distinct
  <2>1. m + 1 \in 1..Len(queue) /\ n + 1 \in 1..Len(queue) /\ queue[m + 1] = queue[n + 1]
    BY <1>1, <1>2
  <2>2. m + 1 = n + 1
    BY Zenon, <2>1 DEF Distinct
  <2> QED BY <2>2
<1>4. 1 \in 1..Len(queue)
  BY <1>1
<1>5. Queued(j)
  BY Zenon, <1>1, <1>4 DEF Queued
<1>6. ASSUME NEW v, Queued(v)' PROVE Queued(v) /\ v # j
  <2>1. PICK m \in 1..Len(queue') : queue'[m] = v
    BY Zenon, <1>6 DEF Queued
  <2>2. m + 1 \in 1..Len(queue) /\ queue[m + 1] = v /\ m + 1 # 1
    BY <1>1, <1>2, <2>1
  <2> QED BY Zenon, <1>1, <1>4, <2>2 DEF Queued, Distinct
<1>7. ASSUME NEW v, Queued(v), v # j PROVE Queued(v)'
  <2>1. PICK m \in 1..Len(queue) : queue[m] = v
    BY Zenon, <1>7 DEF Queued
  <2>2. m - 1 \in 1..Len(queue') /\ queue'[m - 1] = v
    BY <1>1, <1>2, <1>7, <2>1
  <2> QED BY Zenon, <2>2 DEF Queued
<1> QED BY Zenon, <1>1, <1>2, <1>3, <1>5, <1>6, <1>7

(* QueueInv, from the jobs in the queue.                                    *)
LEMMA QueueMoves ==
    ASSUME Distinct(queue)', \A v : Queued(v)' => Unstarted(v)'
    PROVE  QueueInv'
<1>1. ASSUME NEW m \in 1..Len(queue'), NEW v, v = queue'[m] PROVE Unstarted(v)'
  <2>1. Queued(v)'
    BY Zenon, <1>1 DEF Queued
  <2> QED BY Zenon, <2>1
<1>2. (\A m \in 1..Len(queue) : Unstarted(queue[m]))'
  BY <1>1 DEF Unstarted, OnStack, Frames
<1> QED BY Zenon, <1>2 DEF QueueInv, Distinct

(* The frame of a job that starts.                                          *)
LEMMA FrameStarts ==
    ASSUME NEW j \in Job, StartInv, Unstarted(j), NEW from \in From, NEW h, h = Frame(j, from),
           answer' = answer, ended' = ended, \A x \in Range(Work[j]) : Fresh(x) => Fresh(x)'
    PROVE  /\ h \in FrameType /\ h.who = j /\ h.from = from /\ h.phase # "relock"
           /\ Pending(h)' /\ Ending(h)'
<1>1. j \in Waiter
  BY Zenon DEF Waiter
<1>2. /\ h \in FrameType /\ h.who = j /\ h.from = from /\ h.next = 1
      /\ h.phase = IF Work[j] = <<>> THEN "end" ELSE "submit"
  BY <1>1, FrameOf
<1>3. /\ answer[j] = "none" /\ ended[j] = "no" /\ \A x \in Range(Work[j]) : Fresh(x)'
  BY Zenon DEF StartInv, Unstarted
<1>4. Ending(h)'
  BY <1>2, <1>3 DEF Ending
<1>5. h.phase = "submit" => j \notin Leaf /\ 1 \in 1..Len(Work[j])
  <2>1. Work[j] \in Seq(Job)
    BY Zenon, <1>1, WorkIs
  <2>2. Work[j] # <<>> => 1 \in 1..Len(Work[j])
    BY <2>1
  <2> QED BY Zenon, <1>2, <2>2, WorkAssumption
<1>6. \A p \in 1..Len(Work[j]) : Fresh(Work[j][p])'
  BY Zenon, <1>1, <1>3, WorkIs
<1>7. Pending(h)'
  BY Zenon, <1>2, <1>3, <1>5, <1>6 DEF Pending
<1>8. h.phase # "relock"
  BY <1>2
<1> QED BY Zenon, <1>2, <1>4, <1>7, <1>8

(* A thread takes the first job of the queue.                               *)
LEMMA TakeStep ==
    ASSUME Inv, NEW t \in Thread, Take(t)
    PROVE  Inv'
<1>1. /\ queue # <<>> /\ queue' = Tail(queue)
      /\ stack' = [stack EXCEPT ![t] = Append(@, Frame(Head(queue), "queue"))]
      /\ is_leaf' = [is_leaf EXCEPT ![t] = Head(queue) \in Leaf]
      /\ UNCHANGED <<num, error, ended, answer>>
      /\ stack[t] # <<>> => Top(t).phase = "flush"
  BY Zenon DEF Take, In
<1>2. /\ TypeInv /\ Nested /\ Unique /\ QueueInv /\ FrameInv /\ StartInv /\ CountInv /\ ErrorInv /\ DoneInv /\ LeafInv
      /\ queue \in Seq(Job) /\ stack \in [Thread -> Seq(FrameType)] /\ is_leaf \in [Thread -> BOOLEAN]
  BY Zenon DEF Inv, TypeInv
<1>3. PICK j : j = Head(queue)
  BY Zenon
<1>4. Distinct(queue) /\ \A v : Queued(v) => Unstarted(v)
  BY Zenon, <1>2 DEF QueueInv, Distinct, Queued
<1>5. /\ queue' \in Seq(Job) /\ Distinct(queue)' /\ j \in Job /\ Queued(j)
      /\ \A v : Queued(v)' <=> Queued(v) /\ v # j
  BY Zenon, <1>1, <1>2, <1>3, <1>4, TailIs
<1>6. Unstarted(j) /\ ~OnStack(j)
  BY Zenon, <1>4, <1>5 DEF Unstarted
<1>7. PICK h : h = Frame(j, "queue")
  BY Zenon
<1>8. PICK g : g = Top(t)
  BY Zenon
<1>9. "queue" \in From /\ j \in Waiter
  BY Zenon, <1>5 DEF From, Waiter
<1>10. h \in FrameType /\ h.who = j /\ h.from = "queue" /\ h.phase # "relock"
  <2>1. h.phase = IF Work[j] = <<>> THEN "end" ELSE "submit"
    BY <1>7, <1>9, FrameOf
  <2> QED BY <1>7, <1>9, <2>1, FrameOf
<1>11. Pushed(t, g, h)
  <2>1. stack' = [stack EXCEPT ![t] = Append(@, h)]
    BY Zenon, <1>1, <1>3, <1>7
  <2> QED BY Zenon, <1>2, <1>8, <1>10, <2>1, Push
<1>12. /\ Nested' /\ Unique' /\ \A v : OnStack(v)' <=> OnStack(v) \/ v = j
  <2>1. /\ stack[t] # <<>> => g.who = Top(t).who /\ g.from = Top(t).from
        /\ ~OnStack(h.who) /\ h.from # "client" /\ h.who \in Job /\ h.from # "inline"
    BY Zenon, <1>5, <1>6, <1>8, <1>10
  <2>2. Nested' /\ Unique' /\ \A v : OnStack(v)' <=> OnStack(v) \/ v = h.who
    BY Zenon, <1>2, <1>11, <2>1, PushedKeeps
  <2> QED BY Zenon, <1>10, <2>2
<1>13. /\ \A v, F : v # j => (Runs(v, F)' <=> Runs(v, F))
       /\ \A F : Runs(j, F)' <=> "queue" \in F
  <2>1. /\ stack[t] # <<>> => /\ g.who = Top(t).who /\ g.from = Top(t).from
                              /\ g.phase # "relock" /\ Top(t).phase # "relock"
        /\ ~OnStack(h.who)
    BY Zenon, <1>1, <1>6, <1>8, <1>10
  <2>2. /\ \A v, F : v # h.who => (Runs(v, F)' <=> Runs(v, F))
        /\ \A F : Runs(h.who, F)' <=> h.from \in F
    BY Zenon, <1>2, <1>10, <1>11, <2>1, PushedRuns
  <2> QED BY Zenon, <1>10, <2>2
<1>14. /\ \A v : Unstarted(v)' <=> Unstarted(v) /\ v # j
       /\ \A v : Fresh(v)' <=> Fresh(v)
  <2>1. \A v : Unstarted(v)' <=> Unstarted(v) /\ v # j
    BY Zenon, <1>1, <1>12 DEF Unstarted
  <2> QED BY Zenon, <1>5, <2>1 DEF Fresh
<1>15. \A f : (Pending(f)' <=> Pending(f)) /\ (Ending(f)' <=> Ending(f))
  BY Zenon, <1>1, <1>14 DEF Pending, Ending
<1>16. TypeInv'
  <2>1. stack' \in [Thread -> Seq(FrameType)]
    BY Zenon, <1>11 DEF Pushed
  <2>2. is_leaf' \in [Thread -> BOOLEAN]
    BY <1>1, <1>2
  <2> QED BY Zenon, <1>1, <1>2, <1>5, <2>1, <2>2 DEF TypeInv
<1>17. QueueInv'
  BY Zenon, <1>4, <1>5, <1>14, QueueMoves
<1>18. FrameInv'
  <2>1. Pending(h)' /\ Ending(h)'
    BY Zenon, <1>1, <1>2, <1>5, <1>6, <1>7, <1>9, <1>14, FrameStarts
  <2>2. stack[t] # <<>> => Pending(g)' /\ Ending(g)' /\ g.phase \in {"submit", "flush"}
    BY Zenon, <1>1, <1>8, <1>15, TopInv
  <2> QED BY Zenon, <1>2, <1>6, <1>11, <1>15, <2>1, <2>2, PushedFrameInv
<1>19. StartInv'
  BY Zenon, <1>1, <1>2, <1>14, StartKeeps
<1>20. CountInv'
  <2>1. \A v : Queued(v)' \/ Runs(v, {"queue"})' <=> Queued(v) \/ Runs(v, {"queue"})
    BY Zenon, <1>5, <1>13
  <2> QED BY Zenon, <1>1, <1>2, <2>1, CountKeeps
<1>21. DoneInv'
  <2>1. \A w \in Waiter : \A x \in Range(Work[w]) : answer[w] # "none" =>
           /\ Queued(x)' => Queued(x)
           /\ Runs(x, From)' => Runs(x, From)
    BY Zenon, <1>2, <1>5, <1>13 DEF DoneInv
  <2> QED BY Zenon, <1>1, <1>2, <2>1, DoneKeeps
<1>22. ErrorInv'
  BY Zenon, <1>1, <1>2 DEF ErrorInv
<1>23. LeafInv'
  <2>1. /\ \A u \in Thread \ {t} : is_leaf'[u] = is_leaf[u]
        /\ is_leaf'[t] <=> j \in Leaf
    BY Zenon, <1>1, <1>2, <1>3
  <2> QED BY Zenon, <1>2, <1>10, <1>11, <2>1, PushedLeaf
<1> QED BY Zenon, <1>12, <1>16, <1>17, <1>18, <1>19, <1>20, <1>21, <1>22, <1>23 DEF Inv

-----------------------------------------------------------------------------
(* The frame of t once it has submitted its next job.                       *)
Rest(t) == [Top(t) EXCEPT !.next = @ + 1,
                          !.phase = IF Top(t).next = Len(Work[Top(t).who]) THEN "flush" ELSE "submit"]

(* The job that a frame submits next is fresh.                              *)
LEMMA NextJob ==
    ASSUME Inv, NEW t \in Thread, In(t, "submit"), NEW w, w = Top(t).who, NEW j,
           j = Work[w][Top(t).next]
    PROVE  /\ stack[t] # <<>> /\ w \in Waiter /\ w \notin Leaf /\ answer[w] = "none" /\ OnStack(w)
           /\ j \in Range(Work[w]) /\ j \in Job /\ Fresh(j) /\ ~OnStack(j) /\ ~Queued(j) /\ ended[j] = "no"
           /\ ~is_leaf[t]
<1>1. stack[t] # <<>> /\ Top(t).phase = "submit"
  BY Zenon DEF In
<1>2. w \in Waiter /\ OnStack(w) /\ Pending(Top(t)) /\ Top(t) \in FrameType
  BY Zenon, <1>1, TopInv
<1>3. /\ w \notin Leaf /\ answer[w] = "none" /\ Top(t).next \in 1..Len(Work[w])
      /\ \A p \in Top(t).next..Len(Work[w]) : Fresh(Work[w][p])
  BY Zenon, <1>1, <1>2 DEF Pending
<1>4. Top(t).next \in Top(t).next..Len(Work[w])
  BY <1>3
<1>5. j \in Range(Work[w]) /\ j \in Job
  BY Zenon, <1>2, <1>3, WorkIs
<1>6. Fresh(j) /\ ~OnStack(j) /\ ~Queued(j) /\ ended[j] = "no"
  BY Zenon, <1>3, <1>4 DEF Fresh, Unstarted
<1>7. ~is_leaf[t]
  BY Zenon, <1>3 DEF Inv, LeafInv
<1> QED BY Zenon, <1>1, <1>2, <1>3, <1>5, <1>6, <1>7

(* The frame once that job is submitted.                                    *)
LEMMA RestIs ==
    ASSUME Inv, NEW t \in Thread, In(t, "submit"), NEW g, g = Rest(t)
    PROVE  /\ g \in FrameType /\ g.who = Top(t).who /\ g.from = Top(t).from /\ g.next = Top(t).next + 1
           /\ g.phase = IF Top(t).next = Len(Work[Top(t).who]) THEN "flush" ELSE "submit"
<1>1. Top(t) \in FrameType
  BY Zenon, TopInv DEF In
<1>2. PICK f \in FrameType : f = Top(t)
  BY Zenon, <1>1
<1>3. PICK ph \in Phase : ph = IF f.next = Len(Work[f.who]) THEN "flush" ELSE "submit"
  BY Zenon DEF Phase
<1>4. f.next + 1 \in Nat
  BY DEF FrameType
<1>5. g = [f EXCEPT !.next = f.next + 1, !.phase = ph]
  BY Zenon, <1>2, <1>3 DEF Rest
<1>6. g \in FrameType /\ g.who = f.who /\ g.from = f.from /\ g.next = f.next + 1 /\ g.phase = ph
  BY Zenon, <1>4, <1>5 DEF FrameType
<1> QED BY Zenon, <1>2, <1>3, <1>6

(* The frames after a submission: only the submitted job is no longer fresh. *)
LEMMA RestPending ==
    ASSUME Inv, NEW t \in Thread, In(t, "submit"), NEW w, w = Top(t).who, NEW j,
           j = Work[w][Top(t).next],
           NEW g, g = Rest(t), answer' = answer, ended' = ended,
           \A x : Fresh(x) /\ x # j => Fresh(x)'
    PROVE  /\ Pending(g)' /\ Ending(g)'
           /\ \A f \in FrameType : f.who # w /\ Pending(f) /\ Ending(f) => Pending(f)' /\ Ending(f)'
<1>1. /\ stack[t] # <<>> /\ w \in Waiter /\ w \notin Leaf /\ answer[w] = "none"
      /\ j \in Range(Work[w])
  BY NextJob
<1>2. /\ g.who = w /\ g.from = Top(t).from /\ g.next = Top(t).next + 1
      /\ g.phase = IF Top(t).next = Len(Work[w]) THEN "flush" ELSE "submit"
  BY Zenon, RestIs
<1>3. Pending(Top(t)) /\ Ending(Top(t)) /\ Top(t).phase = "submit"
  BY Zenon, <1>1, TopInv DEF In
<1>4. PICK n : n = Top(t).next
  BY Zenon
<1>5. n \in 1..Len(Work[w]) /\ \A p \in n..Len(Work[w]) : Fresh(Work[w][p])
  BY Zenon, <1>3, <1>4 DEF Pending
<1>6. Len(Work[w]) \in Nat
  BY <1>1, WorkIs
<1>7. ASSUME NEW p \in n + 1..Len(Work[w]) PROVE Fresh(Work[w][p])'
  <2>1. p \in n..Len(Work[w]) /\ p \in 1..Len(Work[w]) /\ p # n
    BY <1>5, <1>6
  <2>2. Work[w][p] # j
    BY Zenon, <1>1, <1>4, <1>5, <2>1, OnePlace
  <2> QED BY Zenon, <1>5, <2>1, <2>2
<1>8. g.phase = "submit" => n + 1 \in 1..Len(Work[w])
  BY <1>2, <1>4, <1>5, <1>6
<1>9. Pending(g)'
  BY Zenon, <1>1, <1>2, <1>4, <1>7, <1>8 DEF Pending
<1>10. g.phase # "relock"
  BY <1>2
<1>11. Ending(g)'
  BY Zenon, <1>2, <1>3, <1>10 DEF Ending
<1>12. ASSUME NEW f \in FrameType, f.who # w, Pending(f), Ending(f) PROVE Pending(f)' /\ Ending(f)'
  <2>1. {j} \in SUBSET Range(Work[w])
    BY Zenon, <1>1
  <2>2. \A x : Fresh(x) /\ x \notin {j} => Fresh(x)'
    BY Zenon
  <2>3. Pending(f)'
    BY Zenon, <1>1, <1>12, <2>1, <2>2, PendingKeeps
  <2> QED BY Zenon, <1>12, <2>3 DEF Ending
<1> QED BY Zenon, <1>9, <1>11, <1>12

(* A job that runs is on a stack.                                           *)
LEMMA RunsOnStack ==
    ASSUME NEW v, NEW F, Runs(v, F)
    PROVE  OnStack(v)
  BY Zenon DEF Runs, OnStack

-----------------------------------------------------------------------------
(* A job is submitted, to the queue or to run at once: what holds either    *)
(* way.                                                                     *)
LEMMA Submitted ==
    ASSUME Inv, NEW w \in Waiter, answer[w] = "none", OnStack(w),
           NEW j \in Range(Work[w]), j \in Job,
           UNCHANGED <<error, ended, answer>>, Unique',
           \A v : Unstarted(v)' => Unstarted(v),
           \A x : Fresh(x) /\ x # j => Fresh(x)',
           \A v : Queued(v)' => Queued(v) \/ v = j,
           \A v, F : v # j => (Runs(v, F)' <=> Runs(v, F))
    PROVE  StartInv' /\ DoneInv' /\ ErrorInv'
<1>1. /\ w \in Waiter /\ answer[w] = "none" /\ OnStack(w) /\ j \in Range(Work[w]) /\ j \in Job
  BY Zenon
<1>2. StartInv /\ DoneInv /\ ErrorInv
  BY Zenon DEF Inv
<1>3. StartInv'
  <2>1. ASSUME NEW v \in Job, Unstarted(v)', NEW x \in Range(Work[v]), Fresh(x) PROVE Fresh(x)'
    <3>1. v # w /\ v \in Waiter
      BY Zenon, <1>1, <2>1 DEF Unstarted, Waiter
    <3>2. x # j
      BY Zenon, <1>1, <3>1, OneOwner
    <3> QED BY Zenon, <2>1, <3>2
  <2> QED BY Zenon, <1>2, <2>1, StartKeeps
<1>4. DoneInv'
  <2>1. ASSUME NEW v \in Waiter, NEW x \in Range(Work[v]), answer[v] # "none"
        PROVE  (Queued(x)' => Queued(x)) /\ (Runs(x, From)' => Runs(x, From))
    <3>1. x # j
      BY Zenon, <1>1, <2>1, OneOwner
    <3> QED BY Zenon, <3>1
  <2> QED BY Zenon, <1>2, <2>1, DoneKeeps
<1>5. ErrorInv'
  BY Zenon, <1>2 DEF ErrorInv
<1> QED BY Zenon, <1>3, <1>4, <1>5

(* A job that submit runs at once.                                          *)
LEMMA SubmitInline ==
    ASSUME Inv, NEW t \in Thread, In(t, "submit"), NEW w, w = Top(t).who, NEW j,
           j = Work[w][Top(t).next],
           j \notin Leaf, stack' = [stack EXCEPT ![t] = Append(SetTop(t, Rest(t)), Frame(j, "inline"))],
           is_leaf' = [is_leaf EXCEPT ![t] = FALSE],
           UNCHANGED <<queue, num, error, ended, answer>>
    PROVE  Inv'
<1>1. /\ stack[t] # <<>> /\ w \in Waiter /\ w \notin Leaf /\ answer[w] = "none" /\ OnStack(w)
      /\ j \in Range(Work[w]) /\ j \in Job /\ Fresh(j) /\ ~OnStack(j) /\ ~Queued(j) /\ ended[j] = "no"
  BY NextJob
<1>2. /\ TypeInv /\ Nested /\ Unique /\ QueueInv /\ FrameInv /\ StartInv /\ CountInv /\ LeafInv
      /\ stack \in [Thread -> Seq(FrameType)] /\ is_leaf \in [Thread -> BOOLEAN]
  BY Zenon DEF Inv, TypeInv
<1>3. PICK g : g = Rest(t)
  BY Zenon
<1>4. PICK h : h = Frame(j, "inline")
  BY Zenon
<1>5. /\ g \in FrameType /\ g.who = w /\ g.from = Top(t).from /\ g.phase \in {"submit", "flush"}
  BY <1>3, RestIs
<1>6. "inline" \in From /\ j \in Waiter
  BY Zenon, <1>1 DEF From, Waiter
<1>7. h \in FrameType /\ h.who = j /\ h.from = "inline" /\ h.phase # "relock"
  <2>1. h.phase = IF Work[j] = <<>> THEN "end" ELSE "submit"
    BY <1>4, <1>6, FrameOf
  <2> QED BY Zenon, <1>4, <1>6, <2>1, FrameOf
<1>8. Pushed(t, g, h)
  BY Zenon, <1>1, <1>2, <1>3, <1>4, <1>5, <1>7, TurnPush
<1>9. /\ Nested' /\ Unique' /\ \A v : OnStack(v)' <=> OnStack(v) \/ v = j
  <2>1. /\ stack[t] # <<>> => g.who = Top(t).who /\ g.from = Top(t).from
        /\ ~OnStack(h.who) /\ h.from # "client" /\ h.who \in Job
    BY Zenon, <1>1, <1>5, <1>7
  <2>2. stack[t] # <<>> /\ Below(h.who, Top(t).who)
    BY Zenon, <1>1, <1>7 DEF Below
  <2>3. Nested' /\ Unique' /\ \A v : OnStack(v)' <=> OnStack(v) \/ v = h.who
    BY Zenon, <1>2, <1>8, <2>1, <2>2, PushedKeeps
  <2> QED BY Zenon, <1>7, <2>3
<1>10. /\ \A v, F : v # j => (Runs(v, F)' <=> Runs(v, F))
       /\ \A F : Runs(j, F)' <=> "inline" \in F
  <2>1. /\ stack[t] # <<>> => /\ g.who = Top(t).who /\ g.from = Top(t).from
                              /\ g.phase # "relock" /\ Top(t).phase # "relock"
        /\ ~OnStack(h.who)
    BY Zenon, <1>1, <1>5, <1>7 DEF In
  <2>2. /\ \A v, F : v # h.who => (Runs(v, F)' <=> Runs(v, F))
        /\ \A F : Runs(h.who, F)' <=> h.from \in F
    BY Zenon, <1>2, <1>7, <1>8, <2>1, PushedRuns
  <2> QED BY Zenon, <1>7, <2>2
<1>11. /\ \A v : Unstarted(v)' <=> Unstarted(v) /\ v # j
       /\ \A v : Fresh(v)' <=> Fresh(v) /\ v # j
       /\ \A v : Queued(v)' <=> Queued(v)
  <2>1. \A v : Unstarted(v)' <=> Unstarted(v) /\ v # j
    BY Zenon, <1>9 DEF Unstarted
  <2>2. \A v : Queued(v)' <=> Queued(v)
    BY Zenon DEF Queued
  <2> QED BY Zenon, <2>1, <2>2 DEF Fresh
<1>12. TypeInv'
  <2>1. stack' \in [Thread -> Seq(FrameType)]
    BY Zenon, <1>8 DEF Pushed
  <2>2. is_leaf' \in [Thread -> BOOLEAN]
    BY Zenon, <1>2
  <2> QED BY Zenon, <1>2, <2>1, <2>2 DEF TypeInv
<1>13. QueueInv'
  BY Zenon, <1>1, <1>2, <1>11, QueueKeeps
<1>14. FrameInv'
  <2>1. \A x \in Range(Work[j]) : x # j
    BY Zenon, <1>1, <1>6, OneOwner
  <2>2. Pending(h)' /\ Ending(h)'
    BY ZenonT(60), <1>1, <1>2, <1>4, <1>6, <1>11, <2>1, FrameStarts DEF Fresh
  <2>3. /\ Pending(g)' /\ Ending(g)'
        /\ \A f \in FrameType : f.who # w /\ Pending(f) /\ Ending(f) => Pending(f)' /\ Ending(f)'
    <3>1. answer' = answer /\ ended' = ended
      BY Zenon
    <3>2. \A x : Fresh(x) /\ x # j => Fresh(x)'
      BY Zenon, <1>11
    <3> QED BY Zenon, <1>3, <3>1, <3>2, RestPending
  <2> QED BY Zenon, <1>1, <1>2, <1>5, <1>8, <2>2, <2>3, PushedFrameInv
<1>15. StartInv' /\ DoneInv' /\ ErrorInv'
  BY Zenon, <1>1, <1>9, <1>10, <1>11, Submitted
<1>16. CountInv'
  <2>1. ~Runs(j, {"queue"})
    BY Zenon, <1>1, RunsOnStack
  <2>2. "inline" \notin {"queue"}
    OBVIOUS
  <2>3. \A v : Queued(v)' \/ Runs(v, {"queue"})' <=> Queued(v) \/ Runs(v, {"queue"})
    BY Zenon, <1>10, <1>11, <2>1, <2>2
  <2> QED BY Zenon, <1>2, <2>3, CountKeeps
<1>17. LeafInv'
  <2>1. /\ \A u \in Thread \ {t} : is_leaf'[u] = is_leaf[u]
        /\ ~is_leaf'[t]
    BY Zenon, <1>2
  <2> QED BY Zenon, <1>2, <1>7, <1>8, <2>1, PushedLeaf
<1> QED BY ZenonT(60), <1>9, <1>12, <1>13, <1>14, <1>15, <1>16, <1>17 DEF Inv

-----------------------------------------------------------------------------
LEMMA QueueGrows ==
    ASSUME queue \in Seq(Job), Distinct(queue), NEW j \in Job, ~Queued(j),
           queue' = <<j>> \o queue \/ queue' = Append(queue, j)
    PROVE  /\ queue' \in Seq(Job) /\ Distinct(queue)'
           /\ \A v : Queued(v)' <=> Queued(v) \/ v = j
<1>1. Len(queue) \in Nat /\ \A m \in 1..Len(queue) : queue[m] # j
  BY DEF Queued
<1>2. PICK s \in 0..1, k \in 1..Len(queue) + 1 :
         /\ queue' \in Seq(Job) /\ Len(queue') = Len(queue) + 1 /\ queue'[k] = j
         /\ \A m \in 1..Len(queue) : m + s \in 1..Len(queue) + 1 /\ m + s # k /\ queue'[m + s] = queue[m]
         /\ \A m \in 1..Len(queue) + 1 : m # k => m - s \in 1..Len(queue)
  <2>1. CASE queue' = <<j>> \o queue
    <3>1. /\ queue' \in Seq(Job) /\ Len(queue') = Len(queue) + 1 /\ queue'[1] = j
      BY <2>1
    <3>2. \A m \in 1..Len(queue) : queue'[m + 1] = queue[m]
      BY <1>1, <2>1
    <3>3. /\ 1 \in 0..1 /\ 1 \in 1..Len(queue) + 1
          /\ \A m \in 1..Len(queue) : m + 1 \in 1..Len(queue) + 1 /\ m + 1 # 1
          /\ \A m \in 1..Len(queue) + 1 : m # 1 => m - 1 \in 1..Len(queue)
      BY <1>1
    <3> QED BY Zenon, <3>1, <3>2, <3>3
  <2>2. CASE queue' = Append(queue, j)
    <3>1. /\ queue' \in Seq(Job) /\ Len(queue') = Len(queue) + 1 /\ queue'[Len(queue) + 1] = j
          /\ \A m \in 1..Len(queue) : queue'[m] = queue[m]
      BY <2>2
    <3>2. /\ 0 \in 0..1 /\ Len(queue) + 1 \in 1..Len(queue) + 1
          /\ \A m \in 1..Len(queue) : m + 0 = m /\ m + 0 \in 1..Len(queue) + 1 /\ m + 0 # Len(queue) + 1
          /\ \A m \in 1..Len(queue) + 1 : m # Len(queue) + 1 => m - 0 \in 1..Len(queue)
      BY <1>1
    <3>3. \A m \in 1..Len(queue) : queue'[m + 0] = queue[m]
      BY Zenon, <3>1, <3>2
    <3> QED BY Zenon, <3>1, <3>2, <3>3
  <2> QED BY Zenon, <2>1, <2>2
<1>3. ASSUME NEW m \in 1..Len(queue) + 1, m # k
      PROVE  m - s \in 1..Len(queue) /\ queue'[m] = queue[m - s]
  <2>1. m - s \in 1..Len(queue) /\ (m - s) + s = m
    BY <1>1, <1>2, <1>3
  <2> QED BY Zenon, <1>2, <2>1
<1>4. Distinct(queue)'
  <2> SUFFICES ASSUME NEW m \in 1..Len(queue) + 1, NEW n \in 1..Len(queue) + 1, queue'[m] = queue'[n] PROVE m = n
    BY <1>2 DEF Distinct
  <2>1. CASE m = k \/ n = k
    BY ZenonT(60), <1>1, <1>2, <1>3, <2>1
  <2>2. CASE m # k /\ n # k
    <3>1. m - s = n - s
      BY Zenon, <1>3, <2>2 DEF Distinct
    <3> QED BY <1>1, <3>1
  <2> QED BY Zenon, <2>1, <2>2
<1>5. ASSUME NEW v PROVE Queued(v)' <=> Queued(v) \/ v = j
  <2>1. ASSUME Queued(v)' PROVE Queued(v) \/ v = j
    <3>1. PICK m \in 1..Len(queue') : queue'[m] = v
      BY Zenon, <2>1 DEF Queued
    <3> QED BY Zenon, <1>2, <1>3, <3>1 DEF Queued
  <2>2. ASSUME Queued(v) PROVE Queued(v)'
    <3>1. PICK m \in 1..Len(queue) : queue[m] = v
      BY Zenon, <2>2 DEF Queued
    <3>2. m + s \in 1..Len(queue') /\ queue'[m + s] = v
      BY Zenon, <1>2, <3>1
    <3> QED BY Zenon, <3>2 DEF Queued
  <2>3. Queued(j)'
    BY <1>2 DEF Queued
  <2> QED BY Zenon, <2>1, <2>2, <2>3
<1> QED BY Zenon, <1>2, <1>4, <1>5

(* A job that submit queues.                                                *)
LEMMA SubmitQueued ==
    ASSUME Counting, Inv, NEW t \in Thread, In(t, "submit"), NEW w, w = Top(t).who, NEW j,
           j = Work[w][Top(t).next],
           stack' = [stack EXCEPT ![t] = SetTop(t, Rest(t))], num' = [num EXCEPT ![w] = @ + 1],
           queue' = <<j>> \o queue \/ queue' = Append(queue, j),
           UNCHANGED <<is_leaf, error, ended, answer>>
    PROVE  Inv'
<1>1. /\ stack[t] # <<>> /\ w \in Waiter /\ w \notin Leaf /\ answer[w] = "none" /\ OnStack(w)
      /\ j \in Range(Work[w]) /\ j \in Job /\ Fresh(j) /\ Unstarted(j) /\ ~OnStack(j) /\ ~Queued(j) /\ ~is_leaf[t]
  BY NextJob DEF Fresh
<1>2. /\ TypeInv /\ Nested /\ Unique /\ QueueInv /\ FrameInv /\ StartInv /\ CountInv /\ LeafInv
      /\ stack \in [Thread -> Seq(FrameType)] /\ queue \in Seq(Job) /\ num \in [Waiter -> Nat]
  BY Zenon DEF Inv, TypeInv
<1>3. PICK g : g = Rest(t)
  BY Zenon
<1>4. /\ g \in FrameType /\ g.who = Top(t).who /\ g.from = Top(t).from /\ g.phase \in {"submit", "flush"}
  BY Zenon, <1>3, RestIs
<1>5. Turned(t, g)
  BY Zenon, <1>1, <1>2, <1>3, <1>4, Turn
<1>6. Nested' /\ Unique' /\ \A v : OnStack(v)' <=> OnStack(v)
  BY Zenon, <1>1, <1>2, <1>4, <1>5, TurnedKeeps
<1>7. \A v, F : Runs(v, F)' <=> Runs(v, F)
  <2>1. Top(t).phase # "relock" /\ g.phase # "relock"
    BY <1>4 DEF In
  <2>2. /\ \A v, F : v # g.who => (Runs(v, F)' <=> Runs(v, F))
        /\ \A F : Runs(g.who, F)' <=> g.from \in F
    BY Zenon, <1>1, <1>2, <1>4, <1>5, <2>1, TurnedRuns
  <2>3. \A F : Runs(Top(t).who, F) <=> Top(t).from \in F
    BY Zenon, <1>1, <1>2, <2>1, TopRuns
  <2>4. \A F : Runs(g.who, F)' <=> Runs(g.who, F)
    BY Zenon, <1>4, <2>2, <2>3
  <2> QED BY Zenon, <2>2, <2>4
<1>8. Distinct(queue) /\ \A v : Queued(v) => Unstarted(v)
  BY Zenon, <1>2 DEF QueueInv, Distinct, Queued
<1>9. /\ queue' \in Seq(Job) /\ Distinct(queue)' /\ \A v : Queued(v)' <=> Queued(v) \/ v = j
  BY Zenon, <1>1, <1>2, <1>8, QueueGrows
<1>10. /\ \A v : Unstarted(v)' <=> Unstarted(v)
       /\ \A v : Fresh(v)' <=> Fresh(v) /\ v # j
  <2>1. \A v : Unstarted(v)' <=> Unstarted(v)
    BY Zenon, <1>6 DEF Unstarted
  <2> QED BY Zenon, <1>9, <2>1 DEF Fresh
<1>11. TypeInv'
  <2>1. stack' \in [Thread -> Seq(FrameType)]
    BY Zenon, <1>5 DEF Turned
  <2>2. num' \in [Waiter -> Nat]
    BY Zenon, <1>1, <1>2, OneMore
  <2> QED BY Zenon, <1>2, <1>9, <2>1, <2>2 DEF TypeInv
<1>12. QueueInv'
  BY Zenon, <1>1, <1>8, <1>9, <1>10, QueueMoves
<1>13. FrameInv'
  <2>1. /\ Pending(g)' /\ Ending(g)'
        /\ \A f \in FrameType : f.who # w /\ Pending(f) /\ Ending(f) => Pending(f)' /\ Ending(f)'
    <3>1. answer' = answer /\ ended' = ended
      BY Zenon
    <3>2. \A x : Fresh(x) /\ x # j => Fresh(x)'
      BY Zenon, <1>10
    <3> QED BY Zenon, <1>3, <3>1, <3>2, RestPending
  <2>2. g.who = w
    BY Zenon, <1>4
  <2> QED BY Zenon, <1>1, <1>2, <1>4, <1>5, <2>1, <2>2, TurnedFrameInv
<1>14. StartInv' /\ DoneInv' /\ ErrorInv'
  BY Zenon, <1>1, <1>6, <1>7, <1>9, <1>10, Submitted
<1>15. CountInv'
  <2> SUFFICES ASSUME NEW v \in Waiter PROVE num'[v] = Cardinality(Open(v))'
    BY Zenon DEF CountInv
  <2>1. CASE v = w
    <3>1. j \notin Open(w)
      BY Zenon, <1>1, RunsOnStack DEF Open
    <3>2. Open(w)' = Open(w) \union {j}
      BY Zenon, <1>1, <1>7, <1>9 DEF Open
    <3>3. PICK S : S = Open(w)
      BY Zenon
    <3>5. Cardinality(S \union {j}) = Cardinality(S) + 1
      BY Zenon, <1>1, <3>1, <3>3, OpenIs
    <3>6. num[w] = Cardinality(S) /\ num'[w] = num[w] + 1
      BY Zenon, <1>1, <1>2, <3>3 DEF CountInv
    <3> QED BY Zenon, <2>1, <3>2, <3>3, <3>5, <3>6
  <2>2. CASE v # w
    <3>1. j \notin Range(Work[v])
      BY Zenon, <1>1, <2>2, OneOwner
    <3>2. Open(v)' = Open(v)
      BY Zenon, <1>7, <1>9, <3>1 DEF Open
    <3>3. num'[v] = num[v]
      BY Zenon, <1>2, <2>2
    <3>4. Cardinality(Open(v))' = Cardinality(Open(v))
      BY <3>2
    <3> QED BY Zenon, <1>2, <3>3, <3>4 DEF CountInv
  <2> QED BY Zenon, <2>1, <2>2
<1>16. LeafInv'
  <2>1. g.who \notin Leaf
    BY Zenon, <1>1, <1>4
  <2> QED BY Zenon, <1>1, <1>2, <1>5, <2>1, TurnedLeaf
<1> QED BY ZenonT(60), <1>6, <1>11, <1>12, <1>13, <1>14, <1>15, <1>16 DEF Inv

-----------------------------------------------------------------------------
LEMMA SubmitStep ==
    ASSUME Counting, Inv, NEW t \in Thread, Submit(t)
    PROVE  Inv'
<1>1. PICK w : w = Top(t).who
  BY Zenon
<1>2. PICK j : j = Work[w][Top(t).next]
  BY Zenon
<1>3. In(t, "submit") /\ UNCHANGED <<error, ended, answer>>
  BY Zenon DEF Submit
<1>4. ~is_leaf[t]
  BY Zenon, <1>1, <1>2, <1>3, NextJob
<1>5. CASE j \notin Leaf /\ ((active = max /\ queue # <<>>) \/ depth[t] > 0)
  <2>1. /\ stack' = [stack EXCEPT ![t] = Append(SetTop(t, Rest(t)), Frame(j, "inline"))]
        /\ is_leaf' = [is_leaf EXCEPT ![t] = FALSE] /\ UNCHANGED <<queue, num>>
    BY Zenon, <1>1, <1>2, <1>4, <1>5 DEF Submit, Rest
  <2> QED BY Zenon, <1>1, <1>2, <1>3, <1>5, <2>1, SubmitInline
<1>6. CASE ~(j \notin Leaf /\ ((active = max /\ queue # <<>>) \/ depth[t] > 0))
  <2>1. /\ stack' = [stack EXCEPT ![t] = SetTop(t, Rest(t))] /\ num' = [num EXCEPT ![w] = @ + 1]
        /\ queue' = <<j>> \o queue \/ queue' = Append(queue, j)
        /\ is_leaf' = is_leaf
    BY Zenon, <1>1, <1>2, <1>4, <1>6 DEF Submit, Rest
  <2> QED BY Zenon, <1>1, <1>2, <1>3, <2>1, SubmitQueued
<1> QED BY Zenon, <1>5, <1>6

(* Who is parked is woken; the thread whose job has ended is not.           *)
LEMMA WakeTurns ==
    ASSUME stack \in [Thread -> Seq(FrameType)], NEW t \in Thread, stack[t] # <<>>, NEW g \in FrameType,
           g.phase # "parked", NEW w, NEW n,
           stack' = Wake([stack EXCEPT ![t] = SetTop(t, g)], w, n)
    PROVE  Turned(t, g)
<1> DEFINE r == [stack EXCEPT ![t] = SetTop(t, g)]
<1>1. /\ SetTop(t, g) \in Seq(FrameType) /\ Len(SetTop(t, g)) = Len(stack[t])
      /\ SetTop(t, g)[Len(stack[t])] = g
      /\ \A i \in 1..Len(stack[t]) - 1 : SetTop(t, g)[i] = stack[t][i]
  BY Zenon, SetTopIs
<1>2. r \in [Thread -> Seq(FrameType)] /\ r[t] = SetTop(t, g) /\ \A u \in Thread : u # t => r[u] = stack[u]
  BY Zenon, <1>1
<1>3. \A u \in Thread : stack'[u] =
         IF n = 0 /\ r[u] # <<>> /\ Last(r[u]).phase = "parked" /\ Last(r[u]).who = w
         THEN Append(Front(r[u]), [Last(r[u]) EXCEPT !.phase = "block"])
         ELSE r[u]
  BY Zenon DEF Wake
<1>4. DOMAIN stack' = Thread /\ stack' = [u \in Thread |-> stack'[u]]
  BY DEF Wake
<1> HIDE DEF r
<1>5. stack'[t] = SetTop(t, g)
  <2>1. Last(r[t]) = g
    BY Zenon, <1>1, <1>2 DEF Last
  <2> QED BY Zenon, <1>2, <1>3, <2>1
<1>6. ASSUME NEW u \in Thread, u # t
      PROVE  /\ stack'[u] \in Seq(FrameType) /\ Len(stack'[u]) = Len(stack[u])
             /\ \A i \in Frames(u) : Kept(stack[u][i], stack'[u][i])
  <2>1. CASE stack'[u] = stack[u]
    BY Zenon, <2>1 DEF Kept
  <2>2. CASE /\ stack[u] # <<>> /\ Top(u).phase = "parked"
             /\ stack'[u] = SetTop(u, [Top(u) EXCEPT !.phase = "block"])
    <3>1. /\ Len(stack[u]) \in Frames(u) /\ Len(stack[u]) \in Nat \ {0}
          /\ Top(u) = stack[u][Len(stack[u])] /\ Top(u) \in FrameType
      BY Zenon, <2>2, TopIs
    <3>2. PICK h : h = [Top(u) EXCEPT !.phase = "block"]
      BY Zenon
    <3>3. h \in FrameType
      BY ZenonT(60), <3>1, <3>2, PhaseIs DEF Phase
    <3>4. /\ stack'[u] \in Seq(FrameType) /\ Len(stack'[u]) = Len(stack[u]) /\ stack'[u][Len(stack[u])] = h
          /\ \A i \in 1..Len(stack[u]) - 1 : stack'[u][i] = stack[u][i]
      <4>1. stack'[u] = SetTop(u, h)
        BY Zenon, <2>2, <3>2
      <4>2. /\ SetTop(u, h) \in Seq(FrameType) /\ Len(SetTop(u, h)) = Len(stack[u])
            /\ SetTop(u, h)[Len(stack[u])] = h
            /\ \A i \in 1..Len(stack[u]) - 1 : SetTop(u, h)[i] = stack[u][i]
        BY Zenon, <2>2, <3>3, SetTopIs
      <4> QED BY Zenon, <4>1, <4>2
    <3>5. Kept(stack[u][Len(stack[u])], h)
      BY Zenon, <2>2, <3>1, <3>2 DEF Kept
    <3>6. \A i \in Frames(u) : i = Len(stack[u]) \/ i \in 1..Len(stack[u]) - 1
      BY <3>1 DEF Frames
    <3>7. \A i \in Frames(u) : Kept(stack[u][i], stack'[u][i])
      BY Zenon, <3>4, <3>5, <3>6 DEF Kept
    <3> QED BY Zenon, <3>4, <3>7
  <2> QED BY Zenon, <1>2, <1>3, <1>6, <2>1, <2>2 DEF Top, SetTop
<1>7. \A i \in Frames(t) : i # Len(stack[t]) => i \in 1..Len(stack[t]) - 1
  BY DEF Frames
<1>8. stack' \in [Thread -> Seq(FrameType)]
  <2>1. \A u \in Thread : stack'[u] \in Seq(FrameType)
    BY Zenon, <1>1, <1>5, <1>6
  <2> QED BY Zenon, <1>4, <2>1
<1>9. \A u \in Thread : Len(stack'[u]) = Len(stack[u])
  BY Zenon, <1>1, <1>5, <1>6
<1>10. stack'[t][Len(stack[t])] = g
  BY Zenon, <1>1, <1>5
<1>11. ASSUME NEW u \in Thread, NEW i \in Frames(u), u # t \/ i # Len(stack[t])
       PROVE  Kept(stack[u][i], stack'[u][i])
  <2>1. CASE u # t
    BY Zenon, <1>6, <2>1
  <2>2. CASE u = t
    <3>1. stack'[t][i] = stack[t][i]
      BY Zenon, <1>1, <1>5, <1>7, <1>11, <2>2
    <3> QED BY Zenon, <2>2, <3>1 DEF Kept
  <2> QED BY Zenon, <2>1, <2>2
<1> QED BY Zenon, <1>8, <1>9, <1>10, <1>11 DEF Turned

-----------------------------------------------------------------------------
LEMMA EndQueuedStep ==
    ASSUME Counting, Inv, NEW t \in Thread, EndQueued(t)
    PROVE  Inv'
<1>1. PICK j : j = Top(t).who
  BY Zenon
<1>2. PICK o : o = Owner(j)
  BY Zenon
<1>3. PICK end \in {"ok", "threw"} : end = IF j \in Throws \/ Top(t).failed THEN "threw" ELSE "ok"
  BY Zenon
<1>4. PICK g : g = [Top(t) EXCEPT !.phase = "relock"]
  BY Zenon
<1>5. /\ stack[t] # <<>> /\ Top(t).phase = "end" /\ Top(t).from = "queue"
      /\ error' = IF end = "threw" THEN error \union {o} ELSE error
      /\ ended' = [ended EXCEPT ![j] = end] /\ num' = [num EXCEPT ![o] = @ - 1]
      /\ stack' = Wake([stack EXCEPT ![t] = SetTop(t, g)], o, num'[o])
      /\ is_leaf' = [is_leaf EXCEPT ![t] = FALSE] /\ UNCHANGED <<queue, answer>>
  BY Zenon, <1>1, <1>2, <1>3, <1>4 DEF EndQueued, In, LeafReset
<1>6. /\ stack \in [Thread -> Seq(FrameType)] /\ Top(t) \in FrameType /\ OnStack(j)
      /\ Origin(t, Len(stack[t]), j, "queue") /\ Ending(Top(t))
  BY Zenon, <1>1, <1>5, TopInv
<1>7. /\ TypeInv /\ Nested /\ Unique /\ QueueInv /\ FrameInv /\ StartInv /\ CountInv /\ ErrorInv /\ DoneInv /\ LeafInv
      /\ is_leaf \in [Thread -> BOOLEAN] /\ num \in [Waiter -> Nat] /\ error \subseteq Waiter
      /\ ended \in [Job -> {"no", "ok", "threw", "raised"}]
  BY Zenon DEF Inv, TypeInv
<1>8. j \in Job /\ ended[j] = "no"
  BY Zenon, <1>1, <1>5, <1>6 DEF Origin, Ending
<1>9. o \in Waiter /\ j \in Range(Work[o]) /\ \A v \in Waiter : j \in Range(Work[v]) => v = o
  BY Zenon, <1>2, <1>8, OwnerOf, OneOwner
<1>10. g \in FrameType /\ g.who = j /\ g.from = "queue" /\ g.phase = "relock"
  BY <1>1, <1>4, <1>5, <1>6, PhaseIs DEF Phase
<1>11. Turned(t, g)
  <2>1. g.phase # "parked"
    BY <1>10
  <2> QED BY Zenon, <1>5, <1>6, <1>10, <2>1, WakeTurns
<1>12. g.who = Top(t).who /\ g.from = Top(t).from
  BY Zenon, <1>1, <1>5, <1>10
<1>13. Nested' /\ Unique' /\ \A v : OnStack(v)' <=> OnStack(v)
  BY Zenon, <1>5, <1>6, <1>7, <1>11, <1>12, TurnedKeeps
<1>14. /\ \A v, F : v # j => (Runs(v, F)' <=> Runs(v, F))
       /\ \A F : ~Runs(j, F)'
       /\ Runs(j, {"queue"}) /\ Runs(j, From)
  <2>1. /\ \A v, F : v # g.who => (Runs(v, F)' <=> Runs(v, F))
        /\ \A F : Runs(g.who, F)' <=> g.from \in F /\ g.phase # "relock"
    BY Zenon, <1>5, <1>6, <1>7, <1>11, <1>12, TurnedRuns
  <2>2. \A F : Runs(Top(t).who, F) <=> Top(t).from \in F /\ Top(t).phase # "relock"
    BY Zenon, <1>5, <1>6, <1>7, TopRuns
  <2>3. "queue" \in {"queue"} /\ "queue" \in From /\ "end" # "relock"
    BY Zenon DEF From
  <2>4. \A F : Runs(j, F) <=> "queue" \in F
    BY Zenon, <1>1, <1>5, <2>2
  <2> QED BY Zenon, <1>10, <2>1, <2>3, <2>4
<1>15. /\ ended'[j] = end /\ end # "no" /\ \A v \in Job : v # j => ended'[v] = ended[v]
       /\ ended' \in [Job -> {"no", "ok", "threw", "raised"}]
  BY Zenon, <1>5, <1>7, <1>8
<1>16. \A v : (Unstarted(v)' <=> Unstarted(v)) /\ (Queued(v)' <=> Queued(v)) /\ (Fresh(v)' <=> Fresh(v))
  <2>1. \A v : Queued(v)' <=> Queued(v)
    BY Zenon, <1>5 DEF Queued
  <2>2. \A v : Unstarted(v)' <=> Unstarted(v)
    BY Zenon, <1>6, <1>13, <1>15 DEF Unstarted
  <2> QED BY Zenon, <2>1, <2>2 DEF Fresh
<1>17. answer[o] = "none"
  BY Zenon, <1>7, <1>9, <1>14 DEF DoneInv
<1>18. \A v \in Waiter : v # o => (v \in error' <=> v \in error) /\ num'[v] = num[v]
  BY Zenon, <1>5, <1>7
<1>19. j \in Open(o) /\ Open(o)' = Open(o) \ {j} /\ \A v \in Waiter : v # o => Open(v)' = Open(v)
  <2>1. j \in Open(o)
    BY Zenon, <1>9, <1>14 DEF Open
  <2>2. ~Queued(j)
    BY Zenon, <1>6, <1>7 DEF QueueInv, Queued, Unstarted
  <2>3. Open(o)' = Open(o) \ {j}
    BY Zenon, <1>14, <1>16, <2>2 DEF Open
  <2>4. ASSUME NEW v \in Waiter, v # o PROVE Open(v)' = Open(v)
    BY Zenon, <1>9, <1>14, <1>16, <2>4 DEF Open
  <2> QED BY Zenon, <2>1, <2>3, <2>4
<1>20. num[o] = Cardinality(Open(o)) /\ num[o] # 0 /\ num'[o] = num[o] - 1
  <2>1. num[o] = Cardinality(Open(o)) /\ Open(o) # {}
    BY Zenon, <1>7, <1>9, <1>19 DEF CountInv
  <2>2. Cardinality(Open(o)) # 0
    BY Zenon, <1>9, <2>1, OpenIs
  <2>3. num'[o] = num[o] - 1
    BY Zenon, <1>5, <1>7, <1>9
  <2> QED BY Zenon, <2>1, <2>2, <2>3
<1>21. CountInv'
  <2> SUFFICES ASSUME NEW v \in Waiter PROVE num'[v] = Cardinality(Open(v))'
    BY Zenon DEF CountInv
  <2>1. CASE v = o
    <3>1. PICK S : S = Open(o)
      BY Zenon
    <3>3. Cardinality(S \ {j}) = Cardinality(S) - 1
      BY Zenon, <1>9, <1>19, <3>1, OpenIs
    <3> QED BY Zenon, <1>19, <1>20, <2>1, <3>1, <3>3
  <2>2. CASE v # o
    <3>1. Cardinality(Open(v))' = Cardinality(Open(v))
      BY Zenon, <1>19, <2>2
    <3> QED BY Zenon, <1>7, <1>18, <2>2, <3>1 DEF CountInv
  <2> QED BY Zenon, <2>1, <2>2
<1>22. TypeInv'
  <2>1. stack' \in [Thread -> Seq(FrameType)]
    BY Zenon, <1>11 DEF Turned
  <2>2. num' \in [Waiter -> Nat]
    <3>1. num[o] - 1 \in Nat
      BY <1>7, <1>9, <1>20
    <3> QED BY Zenon, <1>5, <1>7, <3>1
  <2>3. error' \subseteq Waiter
    BY Zenon, <1>5, <1>7, <1>9
  <2>4. is_leaf' \in [Thread -> BOOLEAN]
    BY Zenon, <1>5, <1>7
  <2> QED BY Zenon, <1>5, <1>7, <1>15, <2>1, <2>2, <2>3, <2>4 DEF TypeInv
<1>23. QueueInv' /\ StartInv'
  BY Zenon, <1>5, <1>7, <1>16, QueueKeeps, StartKeeps
<1>24. FrameInv'
  <2>1. Pending(g)'
    BY Zenon, <1>10 DEF Pending
  <2>2. Ending(g)'
    BY Zenon, <1>10, <1>15 DEF Ending
  <2>3. ASSUME NEW f \in FrameType, f.who # g.who, Pending(f), Ending(f) PROVE Pending(f)' /\ Ending(f)'
    <3>1. Pending(f)'
      BY Zenon, <1>5, <1>16, <2>3 DEF Pending
    <3>2. f.who \in Job => ended'[f.who] = ended[f.who]
      BY Zenon, <1>10, <1>15, <2>3
    <3> QED BY Zenon, <2>3, <3>1, <3>2 DEF Ending
  <2> QED BY Zenon, <1>5, <1>6, <1>7, <1>10, <1>11, <1>12, <2>1, <2>2, <2>3, TurnedFrameInv
<1>25. ErrorInv'
  <2> SUFFICES ASSUME NEW v \in Waiter PROVE v \in error' <=> \E x \in Range(Work[v]) : ended'[x] = "threw"
    BY DEF ErrorInv
  <2>1. \A x \in Range(Work[v]) : x \in Job
    BY Zenon, WorkIs
  <2>2. CASE v # o
    <3>1. \A x \in Range(Work[v]) : ended'[x] = ended[x]
      BY Zenon, <1>9, <1>15, <2>1, <2>2
    <3>2. v \in error <=> \E x \in Range(Work[v]) : ended[x] = "threw"
      BY Zenon, <1>7 DEF ErrorInv
    <3> QED BY Zenon, <1>18, <2>2, <3>1, <3>2
  <2>3. CASE v = o /\ end = "threw"
    BY Zenon, <1>5, <1>9, <1>15, <2>3
  <2>4. CASE v = o /\ end = "ok"
    <3>1. error' = error /\ "ok" # "threw" /\ "no" # "threw"
      BY Zenon, <1>5, <2>4
    <3> QED BY Zenon, <1>7, <1>8, <1>15, <2>1, <2>4, <3>1 DEF ErrorInv
  <2> QED BY Zenon, <1>3, <2>2, <2>3, <2>4
<1>26. DoneInv'
  <2> SUFFICES ASSUME NEW v \in Waiter, answer[v] # "none"
               PROVE  /\ \A x \in Range(Work[v]) : ~Queued(x)' /\ ~Runs(x, From)'
                      /\ answer[v] = "error" <=> v \in error'
    BY Zenon, <1>5 DEF DoneInv, From
  <2>1. v # o
    BY Zenon, <1>17
  <2> QED BY Zenon, <1>7, <1>14, <1>16, <1>18, <2>1 DEF DoneInv
<1>27. LeafInv'
  <2>1. (\A u \in Thread \ {t} : is_leaf'[u] = is_leaf[u]) /\ ~is_leaf'[t]
    BY Zenon, <1>5, <1>7
  <2> QED BY Zenon, <1>5, <1>6, <1>7, <1>10, <1>11, <2>1, TurnedLeaf
<1> QED BY Zenon, <1>13, <1>21, <1>22, <1>23, <1>24, <1>25, <1>26, <1>27 DEF Inv

-----------------------------------------------------------------------------
LEMMA EndInlineStep ==
    ASSUME Inv, NEW t \in Thread, EndInline(t)
    PROVE  Inv'
<1>1. PICK j : j = Top(t).who
  BY Zenon
<1>2. PICK b : b = stack[t][Len(stack[t]) - 1]
  BY Zenon
<1>3. stack[t] # <<>> /\ Top(t).phase = "end" /\ Top(t).from = "inline" /\ UNCHANGED <<queue, num, error, answer>>
  BY Zenon DEF EndInline, In
<1>4. /\ stack \in [Thread -> Seq(FrameType)] /\ OnStack(j) /\ Ending(Top(t)) /\ Len(stack[t]) > 1
      /\ Len(stack[t]) \in Nat \ {0} /\ Origin(t, Len(stack[t]), j, "inline") /\ Below(j, b.who)
      /\ Top(t) = stack[t][Len(stack[t])]
  BY Zenon, <1>1, <1>2, <1>3, TopInv
<1>5. /\ TypeInv /\ Nested /\ Unique /\ QueueInv /\ FrameInv /\ StartInv /\ CountInv /\ ErrorInv /\ DoneInv /\ LeafInv
      /\ is_leaf \in [Thread -> BOOLEAN] /\ ended \in [Job -> {"no", "ok", "threw", "raised"}]
  BY Zenon DEF Inv, TypeInv
<1>6. j \in Job /\ ended[j] = "no" /\ j \notin Leaf
  BY Zenon, <1>1, <1>3, <1>4 DEF Origin, Ending, Below
<1>7. /\ b \in FrameType /\ b.who \in Waiter /\ Pending(b) /\ Ending(b) /\ b.phase \in {"submit", "flush"}
      /\ b.who \notin Leaf /\ answer[b.who] = "none"
  BY Zenon, <1>2, <1>4, BelowInv DEF Pending
<1>8. b.who # j
  <2>1. Len(stack[t]) \in Frames(t) /\ Len(stack[t]) - 1 \in Frames(t) /\ Len(stack[t]) - 1 # Len(stack[t])
    BY <1>4 DEF Frames
  <2> QED BY <1>1, <1>2, <1>4, <1>5, <2>1, OneFrame
<1>9. PICK g \in FrameType :
         /\ Popped(t, g) /\ g.who = b.who /\ g.from = b.from /\ g.phase \in {"submit", "flush"}
         /\ g.phase = "submit" => g = b
  <2>1. CASE j \in Throws \/ Top(t).failed
    <3>1. PICK g : g = [b EXCEPT !.phase = "flush", !.failed = TRUE]
      BY Zenon
    <3>2. g \in FrameType /\ g.who = b.who /\ g.from = b.from /\ g.phase = "flush"
      BY Zenon, <1>7, <3>1 DEF FrameType, Phase
    <3>3. Last(Front(stack[t])) = b
      <4>1. /\ Front(stack[t]) \in Seq(FrameType) /\ Len(Front(stack[t])) = Len(stack[t]) - 1
            /\ \A i \in 1..Len(stack[t]) - 1 : Front(stack[t])[i] = stack[t][i]
        BY Zenon, <1>3, <1>4, FrontIs
      <4>2. Len(stack[t]) - 1 \in 1..Len(stack[t]) - 1
        BY <1>4
      <4> QED BY Zenon, <1>2, <4>1, <4>2 DEF Last
    <3>4. stack' = [stack EXCEPT ![t] = Append(Front(Front(stack[t])), g)]
      BY Zenon, <1>1, <2>1, <3>1, <3>3 DEF EndInline
    <3>5. Popped(t, g)
      BY Zenon, <1>4, <3>2, <3>4, PopTurn
    <3> QED BY Zenon, <3>2, <3>5
  <2>2. CASE ~(j \in Throws \/ Top(t).failed)
    <3>1. stack' = [stack EXCEPT ![t] = Front(stack[t])]
      BY Zenon, <1>1, <2>2 DEF EndInline
    <3>2. Popped(t, b)
      BY Zenon, <1>2, <1>3, <1>4, <3>1, Pop
    <3> QED BY Zenon, <1>7, <3>2
  <2> QED BY Zenon, <2>1, <2>2
<1>10. PICK end \in {"ok", "raised"} : ended' = [ended EXCEPT ![j] = end]
  BY Zenon, <1>1 DEF EndInline
<1>11. /\ (\A u \in Thread \ {t} : is_leaf'[u] = is_leaf[u]) /\ ~is_leaf'[t]
       /\ is_leaf' \in [Thread -> BOOLEAN]
  <2>1. ~is_leaf[t]
    BY Zenon, <1>1, <1>5, <1>6 DEF LeafInv
  <2>2. is_leaf' = is_leaf \/ is_leaf' = [is_leaf EXCEPT ![t] = FALSE]
    BY Zenon DEF EndInline, LeafReset
  <2> QED BY Zenon, <1>5, <2>1, <2>2
<1>12. /\ Len(stack[t]) > 1 => g.who = stack[t][Len(stack[t]) - 1].who
                               /\ g.from = stack[t][Len(stack[t]) - 1].from
       /\ g.phase # "relock" /\ stack[t][Len(stack[t]) - 1].phase # "relock"
  BY Zenon, <1>2, <1>7, <1>9
<1>13. Nested' /\ Unique' /\ \A v : OnStack(v)' <=> OnStack(v) /\ v # j
  BY Zenon, <1>1, <1>3, <1>4, <1>5, <1>9, <1>12, PoppedKeeps
<1>14. \A v, F : Runs(v, F)' <=> Runs(v, F) /\ v # j
  BY Zenon, <1>1, <1>3, <1>4, <1>5, <1>9, <1>12, PoppedRuns
<1>15. ~Runs(j, {"queue"})
  <2>1. Runs(Top(t).who, {"queue"}) <=> Top(t).from \in {"queue"} /\ Top(t).phase # "relock"
    BY Zenon, <1>3, <1>4, <1>5, TopRuns
  <2>2. Top(t).from \notin {"queue"}
    BY Zenon, <1>3
  <2> QED BY Zenon, <1>1, <2>1, <2>2
<1>16. /\ ended'[j] = end /\ end # "no" /\ end # "threw" /\ \A v \in Job : v # j => ended'[v] = ended[v]
       /\ ended' \in [Job -> {"no", "ok", "threw", "raised"}]
  BY Zenon, <1>5, <1>6, <1>10
<1>17. \A v : (Unstarted(v)' <=> Unstarted(v)) /\ (Queued(v)' <=> Queued(v)) /\ (Fresh(v)' <=> Fresh(v))
  <2>1. \A v : Queued(v)' <=> Queued(v)
    BY Zenon, <1>3 DEF Queued
  <2>2. \A v : Unstarted(v)' <=> Unstarted(v)
    BY Zenon, <1>4, <1>13, <1>16 DEF Unstarted
  <2> QED BY Zenon, <2>1, <2>2 DEF Fresh
<1>18. TypeInv'
  <2>1. stack' \in [Thread -> Seq(FrameType)]
    BY Zenon, <1>9 DEF Popped
  <2> QED BY Zenon, <1>3, <1>5, <1>11, <1>16, <2>1 DEF TypeInv
<1>19. QueueInv' /\ StartInv'
  BY Zenon, <1>3, <1>5, <1>17, QueueKeeps, StartKeeps
<1>20. FrameInv'
  <2>1. ASSUME NEW f \in FrameType, f.who # j, Pending(f), Ending(f) PROVE Pending(f)' /\ Ending(f)'
    <3>1. Pending(f)'
      BY Zenon, <1>3, <1>17, <2>1 DEF Pending
    <3>2. f.who \in Job => ended'[f.who] = ended[f.who]
      BY Zenon, <1>16, <2>1
    <3> QED BY Zenon, <2>1, <3>1, <3>2 DEF Ending
  <2>2. Pending(b)' /\ Ending(b)'
    BY Zenon, <1>7, <1>8, <2>1
  <2>3. Pending(g)'
    <3>1. CASE g = b
      BY Zenon, <2>2, <3>1
    <3>2. CASE g.phase # "submit"
      BY Zenon, <1>3, <1>7, <1>9, <3>2 DEF Pending
    <3> QED BY Zenon, <1>9, <3>1, <3>2
  <2>4. Ending(g)'
    <3>1. b.phase # "relock" /\ g.phase # "relock"
      BY Zenon, <1>7, <1>9
    <3> QED BY Zenon, <1>9, <2>2, <3>1 DEF Ending
  <2> QED BY Zenon, <1>1, <1>3, <1>4, <1>5, <1>9, <2>1, <2>3, <2>4, PoppedFrameInv
<1>21. CountInv'
  <2>1. \A v : Queued(v)' \/ Runs(v, {"queue"})' <=> Queued(v) \/ Runs(v, {"queue"})
    BY Zenon, <1>14, <1>15, <1>17
  <2> QED BY Zenon, <1>3, <1>5, <2>1, CountKeeps
<1>22. ErrorInv'
  <2> SUFFICES ASSUME NEW v \in Waiter PROVE v \in error <=> \E x \in Range(Work[v]) : ended'[x] = "threw"
    BY Zenon, <1>3 DEF ErrorInv
  <2>1. \A x \in Range(Work[v]) : ended'[x] = "threw" <=> ended[x] = "threw"
    <3>1. \A x \in Range(Work[v]) : x \in Job
      BY Zenon, WorkIs
    <3>2. ended'[j] # "threw" /\ ended[j] # "threw"
      BY Zenon, <1>6, <1>16
    <3> QED BY Zenon, <1>16, <3>1, <3>2
  <2> QED BY Zenon, <1>5, <2>1 DEF ErrorInv
<1>23. DoneInv'
  BY Zenon, <1>3, <1>5, <1>14, <1>17, DoneKeeps
<1>24. LeafInv'
  <2>1. g.who \notin Leaf
    BY Zenon, <1>7, <1>9
  <2> QED BY Zenon, <1>3, <1>4, <1>5, <1>9, <1>11, <2>1, PoppedLeaf
<1> QED BY Zenon, <1>13, <1>18, <1>19, <1>20, <1>21, <1>22, <1>23, <1>24 DEF Inv

-----------------------------------------------------------------------------
LEMMA InitInv ==
    ASSUME Counting, Init
    PROVE  Inv
<1>1. /\ queue = <<>> /\ error = {}
      /\ stack = [t \in Thread |-> IF t \in Client THEN <<Frame(t, "client")>> ELSE <<>>]
      /\ is_leaf = [t \in Thread |-> FALSE] /\ num = [w \in Waiter |-> 0]
      /\ ended = [j \in Job |-> "no"] /\ answer = [w \in Waiter |-> "none"]
  BY Zenon DEF Init, Waiter
<1>2. \A t \in Thread : t \notin Job /\ t \notin Leaf
  BY WorkAssumption DEF Thread
<1>3. ASSUME NEW t \in Client
      PROVE  LET f == Frame(t, "client") IN
             /\ t \in Waiter /\ f \in FrameType /\ f.who = t /\ f.from = "client" /\ f.next = 1
             /\ f.phase = IF Work[t] = <<>> THEN "end" ELSE "submit"
  BY ZenonT(60), FrameOf DEF Waiter, From
<1>4. /\ \A t \in Thread : t \in Client => stack[t] = <<Frame(t, "client")>>
      /\ \A t \in Thread : t \notin Client => stack[t] = <<>>
  BY Zenon, <1>1
<1>5. stack \in [Thread -> Seq(FrameType)]
  <2>1. \A f \in FrameType : <<f>> \in Seq(FrameType)
    OBVIOUS
  <2>2. <<>> \in Seq(FrameType)
    OBVIOUS
  <2>3. \A t \in Thread : (IF t \in Client THEN <<Frame(t, "client")>> ELSE <<>>) \in Seq(FrameType)
    BY Zenon, <1>3, <2>1, <2>2
  <2> QED BY Zenon, <1>1, <2>3
<1>6. ASSUME NEW t \in Thread, NEW i \in Frames(t)
      PROVE  /\ t \in Client /\ i = 1 /\ ~(i < Len(stack[t])) /\ stack[t][i] = Frame(t, "client")
             /\ stack[t][i].who = t /\ stack[t][i].from = "client"
  <2>1. t \in Client
    BY <1>4 DEF Frames
  <2>2. stack[t] = <<Frame(t, "client")>>
    BY Zenon, <1>4, <2>1
  <2>3. i = 1 /\ ~(i < Len(stack[t])) /\ stack[t][i] = Frame(t, "client")
    BY <2>2 DEF Frames
  <2> QED BY Zenon, <1>3, <2>1, <2>3
<1>7. TypeInv
  <2>1. <<>> \in Seq(Job)
    OBVIOUS
  <2>2. is_leaf \in [Thread -> BOOLEAN]
    BY Zenon, <1>1
  <2>3. num \in [Waiter -> Nat]
    BY Zenon, <1>1
  <2> QED BY Zenon, <1>1, <1>5, <2>1, <2>2, <2>3 DEF TypeInv
<1>8. Nested
  BY <1>6 DEF Nested, Origin
<1>9. Unique
  <2> SUFFICES ASSUME NEW t \in Thread, NEW u \in Thread, NEW i \in Frames(t), NEW k \in Frames(u),
                      stack[t][i].who = stack[u][k].who
               PROVE  t = u /\ i = k
    BY Zenon DEF Unique
  <2>1. stack[t][i].who = t /\ i = 1 /\ stack[u][k].who = u /\ k = 1
    BY Zenon, <1>6
  <2> QED BY Zenon, <2>1
<1>10. \A v : ~Queued(v)
  BY <1>1 DEF Queued
<1>11. \A v \in Job : Unstarted(v) /\ Fresh(v)
  <2>1. \A v : OnStack(v) => v \in Thread
    BY Zenon, <1>6 DEF OnStack
  <2> QED BY Zenon, <1>1, <1>2, <1>10, <2>1 DEF Unstarted, Fresh
<1>12. QueueInv
  BY <1>1 DEF QueueInv
<1>13. \A w \in Waiter : answer[w] = "none" /\ num[w] = 0
  BY Zenon, <1>1
<1>14. ASSUME NEW t \in Client, NEW f, f = Frame(t, "client") PROVE Pending(f) /\ Ending(f)
  <2>1. /\ t \in Waiter /\ f.who = t /\ f.next = 1 /\ f.phase = IF Work[t] = <<>> THEN "end" ELSE "submit"
    BY Zenon, <1>3, <1>14
  <2>2. t \notin Job /\ t \notin Leaf
    BY Zenon, <1>2 DEF Thread
  <2>3. Work[t] # <<>> => 1 \in 1..Len(Work[t])
    BY <2>1, WorkIs
  <2>4. \A p \in 1..Len(Work[t]) : Fresh(Work[t][p])
    BY Zenon, <1>11, <2>1, WorkIs
  <2>5. f.phase = "submit" => Work[t] # <<>>
    BY Zenon, <2>1
  <2>6. f.phase # "relock"
    BY <2>1
  <2>7. Pending(f)
    BY Zenon, <1>13, <2>1, <2>2, <2>3, <2>4, <2>5 DEF Pending
  <2> QED BY Zenon, <2>1, <2>2, <2>6, <2>7 DEF Ending
<1>15. FrameInv
  <2> SUFFICES ASSUME NEW t \in Thread, NEW i \in Frames(t)
               PROVE  Pending(stack[t][i]) /\ Ending(stack[t][i]) /\ ~(i < Len(stack[t]))
    BY Zenon DEF FrameInv
  <2>1. t \in Client /\ stack[t][i] = Frame(t, "client") /\ ~(i < Len(stack[t]))
    BY Zenon, <1>6
  <2>2. Pending(Frame(t, "client")) /\ Ending(Frame(t, "client"))
    BY Zenon, <1>14, <2>1
  <2> QED BY Zenon, <2>1, <2>2
<1>16. StartInv
  BY Zenon, <1>11, <1>13, WorkIs DEF StartInv, Waiter
<1>17. CountInv
  <2> SUFFICES ASSUME NEW w \in Waiter PROVE Cardinality(Open(w)) = 0
    BY Zenon, <1>13 DEF CountInv
  <2>1. \A v : ~Runs(v, {"queue"})
    BY <1>6 DEF Runs
  <2>2. Open(w) = {}
    BY Zenon, <1>10, <2>1 DEF Open
  <2> QED BY Zenon, <2>2 DEF Counting
<1>18. ErrorInv /\ DoneInv
  <2>1. \A w \in Waiter : \A j \in Range(Work[w]) : ended[j] # "threw"
    <3>1. "no" # "threw"
      OBVIOUS
    <3> QED BY Zenon, <1>1, <3>1, WorkIs
  <2>2. ErrorInv
    BY Zenon, <1>1, <2>1 DEF ErrorInv
  <2> QED BY Zenon, <1>13, <2>2 DEF DoneInv
<1>19. LeafInv
  <2> SUFFICES ASSUME NEW t \in Thread, stack[t] # <<>> PROVE Top(t).who \notin Leaf
    BY Zenon, <1>1 DEF LeafInv
  <2>1. Len(stack[t]) \in Frames(t) /\ Top(t) = stack[t][Len(stack[t])]
    BY Zenon, <1>5, TopIs
  <2>2. Top(t).who = t
    BY <1>6, <2>1
  <2> QED BY Zenon, <1>2, <2>2
<1> QED BY Zenon, <1>7, <1>8, <1>9, <1>12, <1>15, <1>16, <1>17, <1>18, <1>19 DEF Inv

(* Every step keeps the invariant.                                          *)
LEMMA StepInv ==
    ASSUME Counting, Inv, [Next]_vars
    PROVE  Inv'
<1>1. CASE UNCHANGED vars
  BY Zenon, <1>1, IdleStep DEF vars
<1>2. ASSUME NEW t \in Thread, Step(t) PROVE Inv'
  <2>1. ASSUME Sleep(t) PROVE Inv'
    BY Zenon, <2>1, IdleStep DEF Sleep
  <2> QED BY Zenon, <1>2, <2>1, SubmitStep, TakeStep, FlushedStep, WaitStep, EndQueuedStep, RelockStep,
             EndInlineStep, EndClientStep DEF Step
<1> QED BY Zenon, <1>1, <1>2 DEF Next

-----------------------------------------------------------------------------
INSTANCE FiniteSetTheorems

(* The facts about finite sets that CountInv needs.                         *)
LEMMA CountingHolds == Counting
<1>1. ASSUME NEW w \in Waiter, NEW S \in SUBSET Range(Work[w]) PROVE IsFiniteSet(S)
  <2> DEFINE f == [i \in 1..Len(Work[w]) |-> Work[w][i]]
             R == Range(Work[w])
  <2>1. Len(Work[w]) \in Nat
    BY WorkIs
  <2>2. IsFiniteSet(1..Len(Work[w]))
    BY <2>1, FS_Interval
  <2>3. f \in Surjection(1..Len(Work[w]), R)
    BY Zenon, WorkIs DEF Surjection
  <2> HIDE DEF f
  <2>4. IsFiniteSet(R)
    BY Zenon, <2>2, <2>3, FS_Surjection
  <2> QED BY Zenon, <2>4, FS_Subset
<1> QED BY Zenon, <1>1, FS_EmptySet, FS_AddElement, FS_RemoveElement DEF Counting

(* Inv holds in every reachable state.                                      *)
LEMMA InvAlways == FairSpec => []Inv
<1>1. Init => Inv
  BY Zenon, CountingHolds, InitInv
<1>2. Inv /\ [Next]_vars => Inv'
  BY Zenon, CountingHolds, StepInv
<1> QED BY <1>1, <1>2, PTL DEF FairSpec

(* When waiter::wait (threadpool.cpp) returns, no job submitted with the    *)
(* waiter is queued or still runs, on whichever thread and however waits    *)
(* nest, and the answer says whether one of them threw.                     *)
THEOREM WaitHolds == FairSpec => []WaitMeansDone
<1>1. Inv => WaitMeansDone
  <2> SUFFICES ASSUME Inv, NEW w \in Waiter, answer[w] # "none"
               PROVE  /\ \A j \in Range(Work[w]) : j \notin Range(queue) /\ ~Running(j)
                      /\ (answer[w] = "error") = (\E j \in Range(Work[w]) : ended[j] = "threw")
    BY Zenon DEF WaitMeansDone, Waiter
  <2>1. /\ \A j \in Range(Work[w]) : ~Queued(j) /\ ~Runs(j, From)
        /\ answer[w] = "error" <=> \E j \in Range(Work[w]) : ended[j] = "threw"
    BY Zenon DEF Inv, DoneInv, ErrorInv
  <2>2. stack \in [Thread -> Seq(FrameType)] /\ queue \in Seq(Job)
    BY Zenon DEF Inv, TypeInv
  <2>3. DOMAIN queue = 1..Len(queue) /\ \A t \in Thread : DOMAIN stack[t] = Frames(t)
    BY <2>2 DEF Frames
  <2>4. \A t \in Thread : \A i \in Frames(t) : stack[t][i].from \in From
    <3>1. \A t \in Thread : \A i \in Frames(t) : stack[t][i] \in FrameType
      BY <2>2 DEF Frames
    <3> QED BY Zenon, <3>1 DEF FrameType, From
  <2>5. \A j : j \in Range(queue) => Queued(j)
    BY Zenon, <2>3 DEF Range, Queued
  <2>6. \A j : Running(j) => Runs(j, From)
    BY ZenonT(60), <2>3, <2>4 DEF Running, Runs
  <2> QED BY Zenon, <2>1, <2>5, <2>6
<1> QED BY <1>1, InvAlways, PTL

(* is_leaf, which submit reads to refuse jobs of a leaf, is always right    *)
(* about the job in progress, after nested jobs have set and reset it.      *)
THEOREM LeafHolds == FairSpec => []LeafKnown
<1>1. Inv => LeafKnown
  <2> SUFFICES ASSUME Inv, NEW t \in Thread
               PROVE  is_leaf[t] = (stack[t] # <<>> /\ Top(t).phase # "relock" /\ Top(t).who \in Leaf)
    BY Zenon DEF LeafKnown
  <2>1. is_leaf[t] \in BOOLEAN
    BY Zenon DEF Inv, TypeInv
  <2> QED BY Zenon, <2>1 DEF Inv, LeafInv
<1> QED BY <1>1, InvAlways, PTL
=============================================================================
