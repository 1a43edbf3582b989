---------------------------- MODULE QueueLemmas -----------------------------
(***************************************************************************)
(* Facts about first-in first-out lists without repetition, and what the   *)
(* operations of TaskQueueOps and HalTaskOps do to a queue, or a group of  *)
(* handles, whose lists are such.                                          *)
(***************************************************************************)
EXTENDS TaskQueueOps, HalTaskOps, SequenceTheorems, TLAPS

(* Taking the head of such a list. *)
LEMMA TailToSet ==
    ASSUME NEW S, NEW s \in Seq(S), s # <<>>, IsInjective(s)
    PROVE  /\ Tail(s) \in Seq(S)
           /\ Head(s) \in S /\ Head(s) \in ToSet(s)
           /\ ToSet(Tail(s)) = ToSet(s) \ {Head(s)}
           /\ IsInjective(Tail(s))
<1> DEFINE r == Tail(s)
<1>1. /\ r \in Seq(S) /\ Head(s) = s[1] /\ Head(s) \in S
      /\ Len(s) \in Nat /\ Len(s) # 0
      /\ Len(r) = Len(s) - 1
      /\ \A i \in 1 .. Len(s) - 1 : r[i] = s[i + 1]
  OBVIOUS
<1>2. DOMAIN s = 1 .. Len(s) /\ DOMAIN r = 1 .. Len(s) - 1
  BY <1>1
<1> HIDE DEF r
<1>3. \A i, j \in 1 .. Len(s) : s[i] = s[j] => i = j
  BY <1>2 DEF IsInjective
<1>4. ASSUME NEW i \in 1 .. Len(s) - 1
      PROVE  r[i] \in ToSet(s) /\ r[i] # Head(s)
  <2>1. i + 1 \in 1 .. Len(s) /\ i + 1 # 1 /\ 1 \in 1 .. Len(s)
    BY <1>1, <1>4
  <2>2. r[i] = s[i + 1] /\ s[i + 1] # s[1]
    BY <1>1, <1>3, <2>1
  <2> QED BY <1>1, <1>2, <2>1, <2>2 DEF ToSet
<1>5. ASSUME NEW e \in ToSet(s), e # Head(s) PROVE e \in ToSet(r)
  <2>1. PICK i \in 1 .. Len(s) : s[i] = e
    BY <1>2 DEF ToSet
  <2>2. i # 1
    BY <1>1, <1>5, <2>1
  <2>3. i - 1 \in 1 .. Len(s) - 1 /\ (i - 1) + 1 = i
    BY <1>1, <2>1, <2>2
  <2>4. r[i - 1] = e
    BY <1>1, <2>1, <2>3
  <2> QED BY <1>2, <2>3, <2>4 DEF ToSet
<1>6. ToSet(r) = ToSet(s) \ {Head(s)}
  BY <1>2, <1>4, <1>5 DEF ToSet
<1>7. IsInjective(r)
  <2> SUFFICES ASSUME NEW i \in 1 .. Len(s) - 1, NEW j \in 1 .. Len(s) - 1,
                      r[i] = r[j]
               PROVE  i = j
    BY <1>2 DEF IsInjective
  <2>1. s[i + 1] = s[j + 1]
    BY <1>1
  <2>2. i + 1 \in 1 .. Len(s) /\ j + 1 \in 1 .. Len(s)
    BY <1>1
  <2>3. i + 1 = j + 1
    BY <1>3, <2>1, <2>2
  <2> QED BY <2>3
<1>8. Head(s) \in ToSet(s)
  BY <1>1, <1>2 DEF ToSet
<1> QED BY <1>1, <1>6, <1>7, <1>8 DEF r

(* Appending an element that is not in the list. *)
LEMMA AppendToSet ==
    ASSUME NEW S, NEW s \in Seq(S), NEW e \in S
    PROVE  /\ Append(s, e) \in Seq(S)
           /\ ToSet(Append(s, e)) = ToSet(s) \cup {e}
           /\ IsInjective(s) /\ e \notin ToSet(s) => IsInjective(Append(s, e))
<1> DEFINE r == Append(s, e)
<1>1. /\ r \in Seq(S) /\ Len(s) \in Nat
      /\ Len(r) = Len(s) + 1 /\ r[Len(s) + 1] = e
      /\ \A i \in 1 .. Len(s) : r[i] = s[i]
  OBVIOUS
<1>2. DOMAIN s = 1 .. Len(s) /\ DOMAIN r = 1 .. Len(s) + 1
  BY <1>1
<1> HIDE DEF r
<1>3. 1 .. Len(s) + 1 = (1 .. Len(s)) \cup {Len(s) + 1}
  BY <1>1
<1>4. ToSet(r) = ToSet(s) \cup {e}
  BY <1>1, <1>2, <1>3 DEF ToSet
<1>5. ASSUME IsInjective(s), e \notin ToSet(s),
             NEW i \in DOMAIN r, NEW j \in DOMAIN r, r[i] = r[j]
      PROVE  i = j
  <2>1. \A k \in 1 .. Len(s) : s[k] # e
    BY <1>2, <1>5 DEF ToSet
  <2> QED BY <1>1, <1>2, <1>3, <1>5, <2>1 DEF IsInjective
<1> QED BY <1>1, <1>4, <1>5 DEF r, IsInjective

(* Removing an element that is not in the list. *)
LEMMA RemoveAbsent ==
    ASSUME NEW S, NEW s \in Seq(S), NEW e, e \notin ToSet(s)
    PROVE  RemoveFirst(s, e) = s
<1>1. DOMAIN s = 1 .. Len(s)
  OBVIOUS
<1>2. ~ \E i \in 1 .. Len(s) : s[i] = e
  BY <1>1 DEF ToSet
<1> QED BY <1>2 DEF RemoveFirst

(* Removing an element that is in the list, once. *)
LEMMA RemovePresent ==
    ASSUME NEW S, NEW s \in Seq(S), IsInjective(s), NEW e \in ToSet(s)
    PROVE  /\ RemoveFirst(s, e) \in Seq(S)
           /\ ToSet(RemoveFirst(s, e)) = ToSet(s) \ {e}
           /\ IsInjective(RemoveFirst(s, e))
<1>1. DOMAIN s = 1 .. Len(s) /\ Len(s) \in Nat
  OBVIOUS
<1>2. PICK k \in 1 .. Len(s) : s[k] = e
  BY <1>1 DEF ToSet
<1>3. \A i, j \in 1 .. Len(s) : s[i] = s[j] => i = j
  BY <1>1 DEF IsInjective
<1> DEFINE r == SubSeq(s, 1, k - 1) \o SubSeq(s, k + 1, Len(s))
           from(i) == IF i < k THEN i ELSE i + 1
<1>4. RemoveFirst(s, e) = r
  <2>1. {i \in 1 .. Len(s) : s[i] = e} = {k}
    BY <1>2, <1>3
  <2>2. Min({k}) = k
    BY <1>2 DEF Min
  <2>3. SelectInSeq(s, LAMBDA v : v = e) = k
    BY <2>1, <2>2 DEF SelectInSeq
  <2> QED BY <1>2, <2>3 DEF RemoveFirst, RemoveAt
<1>5. /\ r \in Seq(S) /\ Len(r) = Len(s) - 1
      /\ \A i \in 1 .. Len(s) - 1 : r[i] = s[from(i)]
  <2> DEFINE a == SubSeq(s, 1, k - 1)
             b == SubSeq(s, k + 1, Len(s))
  <2>0. k \in Nat /\ Len(s) \in Nat /\ 1 <= k /\ k <= Len(s)
    BY <1>1
  <2>1. /\ a \in Seq(S) /\ Len(a) = k - 1
        /\ \A i \in 1 .. k - 1 : a[i] = s[i]
    BY <1>1, <1>2
  <2>2. /\ b \in Seq(S) /\ Len(b) = Len(s) - k
        /\ \A i \in 1 .. Len(s) - k : b[i] = s[i + k]
    <3>1. /\ b \in Seq(S)
          /\ Len(b) = IF k + 1 <= Len(s) THEN Len(s) - (k + 1) + 1 ELSE 0
          /\ \A i \in 1 .. Len(s) - (k + 1) + 1 : b[i] = s[(k + 1) + i - 1]
      <4>1. k + 1 \in Int /\ Len(s) \in Int /\ \A i \in k + 1 .. Len(s) : s[i] \in S
        BY <1>1, <1>2
      <4> QED BY <4>1, SubSeqProperties
    <3> HIDE DEF b
    <3>2. Len(s) - (k + 1) + 1 = Len(s) - k
      BY <1>1, <1>2
    <3>4. Len(b) = Len(s) - k
      <4>1. CASE k = Len(s)
        BY <1>1, <3>1, <4>1
      <4>2. CASE k # Len(s)
        <5>1. k + 1 <= Len(s)
          BY <2>0, <4>2
        <5> QED BY <3>1, <3>2, <5>1
      <4> QED BY <4>1, <4>2
    <3>3. \A i \in 1 .. Len(s) - k : (k + 1) + i - 1 = i + k
      BY <1>1, <1>2
    <3> QED BY <3>1, <3>2, <3>3, <3>4
  <2> HIDE DEF a, b
  <2>3. /\ a \o b \in Seq(S) /\ Len(a \o b) = Len(s) - 1
        /\ \A i \in 1 .. Len(s) - 1 :
              (a \o b)[i] = IF i <= k - 1 THEN a[i] ELSE b[i - (k - 1)]
    <3>1. /\ a \o b \in Seq(S) /\ Len(a \o b) = Len(a) + Len(b)
          /\ \A i \in 1 .. Len(a) + Len(b) :
                (a \o b)[i] = IF i <= Len(a) THEN a[i] ELSE b[i - Len(a)]
      BY <2>1, <2>2, ConcatProperties
    <3>2. Len(a) + Len(b) = Len(s) - 1
      BY <1>1, <1>2, <2>1, <2>2
    <3> QED BY <2>1, <3>1, <3>2
  <2>4. ASSUME NEW i \in 1 .. Len(s) - 1 PROVE (a \o b)[i] = s[from(i)]
    <3>1. CASE i < k
      BY <1>1, <1>2, <2>1, <2>3, <3>1
    <3>2. CASE ~(i < k)
      <4>1. i - (k - 1) \in 1 .. Len(s) - k /\ (i - (k - 1)) + k = i + 1
        BY <1>1, <1>2, <3>2
      <4>2. b[i - (k - 1)] = s[i + 1]
        BY <2>2, <4>1
      <4> QED BY <1>1, <1>2, <2>3, <3>2, <4>2
    <3> QED BY <3>1, <3>2
  <2> QED BY <2>3, <2>4 DEF a, b
<1>6. DOMAIN r = 1 .. Len(s) - 1
  <2> HIDE DEF r
  <2> QED BY <1>5
<1>7. /\ \A i \in 1 .. Len(s) - 1 : from(i) \in 1 .. Len(s) /\ from(i) # k
      /\ \A i, j \in 1 .. Len(s) - 1 : from(i) = from(j) => i = j
  BY <1>1, <1>2
<1>8. \A j \in 1 .. Len(s) : j # k => \E i \in 1 .. Len(s) - 1 : from(i) = j
  <2> SUFFICES ASSUME NEW j \in 1 .. Len(s), j # k
               PROVE  \E i \in 1 .. Len(s) - 1 : from(i) = j
    OBVIOUS
  <2>1. CASE j < k
    <3>1. j \in 1 .. Len(s) - 1 /\ from(j) = j
      BY <1>1, <1>2, <2>1
    <3> QED BY <3>1
  <2>2. CASE j > k
    <3>1. j - 1 \in 1 .. Len(s) - 1 /\ from(j - 1) = j
      BY <1>1, <1>2, <2>2
    <3> QED BY <3>1
  <2> QED BY <1>1, <1>2, <2>1, <2>2
<1> HIDE DEF r, from
<1>9. ToSet(r) = ToSet(s) \ {e}
  <2>1. ASSUME NEW i \in 1 .. Len(s) - 1 PROVE r[i] \in ToSet(s) \ {e}
    <3>1. s[from(i)] # e
      BY <1>2, <1>3, <1>7
    <3> QED BY <1>1, <1>5, <1>7, <3>1 DEF ToSet
  <2>2. ASSUME NEW x \in ToSet(s), x # e PROVE x \in ToSet(r)
    <3>1. PICK j \in 1 .. Len(s) : s[j] = x
      BY <1>1 DEF ToSet
    <3>2. PICK i \in 1 .. Len(s) - 1 : from(i) = j
      BY <1>2, <1>8, <2>2, <3>1
    <3> QED BY <1>5, <1>6, <3>1, <3>2 DEF ToSet
  <2> QED BY <1>6, <2>1, <2>2 DEF ToSet
<1>10. IsInjective(r)
  BY <1>3, <1>5, <1>6, <1>7 DEF IsInjective
<1> QED BY <1>4, <1>5, <1>9, <1>10

(* Removing any element. *)
LEMMA RemoveToSet ==
    ASSUME NEW S, NEW s \in Seq(S), IsInjective(s), NEW e
    PROVE  /\ RemoveFirst(s, e) \in Seq(S)
           /\ ToSet(RemoveFirst(s, e)) = ToSet(s) \ {e}
           /\ IsInjective(RemoveFirst(s, e))
           /\ e \notin ToSet(s) => RemoveFirst(s, e) = s
<1>1. CASE e \in ToSet(s)
  BY <1>1, RemovePresent
<1>2. CASE e \notin ToSet(s)
  <2>1. RemoveFirst(s, e) = s
    BY <1>2, RemoveAbsent
  <2> QED BY <1>2, <2>1
<1> QED BY <1>1, <1>2

-----------------------------------------------------------------------------
(* The values of a queue with the tasks T, and when its lists are right. *)
QueuesOf(T) ==
    [ queue    : [PortStatuses -> Seq(T)],
      status   : [T -> Statuses],
      asserted : BOOLEAN ]

Linked(q, T) ==
    \A s \in PortStatuses :
        /\ ToSet(q.queue[s]) = {t \in T : q.status[t] = s}
        /\ IsInjective(q.queue[s])

(* A new queue has all its tasks on the input side. *)
LEMMA QueueSetupFacts ==
    ASSUME NEW n \in Nat
    PROVE  /\ QueueSetup(n) \in QueuesOf(1 .. n) /\ Linked(QueueSetup(n), 1 .. n)
           /\ ~QueueSetup(n).asserted
           /\ QueueSetup(n).queue["OUTPUT_PORT"] = <<>>
           /\ \A t \in 1 .. n : QueueSetup(n).status[t] = "INPUT_PORT"
<1> DEFINE q == QueueSetup(n)
<1>1. /\ [i \in 1 .. n |-> i] \in Seq(1 .. n) /\ <<>> \in Seq(1 .. n)
      /\ DOMAIN [i \in 1 .. n |-> i] = 1 .. n
  OBVIOUS
<1>2. /\ q.queue = [s \in PortStatuses |->
                      IF s = "INPUT_PORT" THEN [i \in 1 .. n |-> i] ELSE <<>>]
      /\ q.status = [t \in 1 .. n |-> "INPUT_PORT"] /\ q.asserted = FALSE
      /\ q = [queue |-> q.queue, status |-> q.status, asserted |-> q.asserted]
  BY DEF QueueSetup
<1> HIDE DEF q
<1>3. q.queue["INPUT_PORT"] = [i \in 1 .. n |-> i] /\ q.queue["OUTPUT_PORT"] = <<>>
  BY <1>2 DEF PortStatuses
<1>4. q \in QueuesOf(1 .. n)
  <2>1. q.queue \in [PortStatuses -> Seq(1 .. n)]
    BY <1>1, <1>2
  <2>2. q.status \in [1 .. n -> Statuses]
    BY <1>2 DEF Statuses, PortStatuses
  <2> QED BY <1>2, <2>1, <2>2 DEF QueuesOf
<1>5. Linked(q, 1 .. n)
  <2>1. ToSet(q.queue["INPUT_PORT"]) = 1 .. n /\ IsInjective(q.queue["INPUT_PORT"])
    BY <1>1, <1>3 DEF ToSet, IsInjective
  <2>2. ToSet(q.queue["OUTPUT_PORT"]) = {} /\ IsInjective(q.queue["OUTPUT_PORT"])
    BY <1>3 DEF ToSet, IsInjective
  <2> QED BY <1>2, <2>1, <2>2 DEF Linked, PortStatuses
<1> QED BY <1>2, <1>3, <1>4, <1>5 DEF q

(* A dequeue takes the oldest task of one list and leaves the other alone. *)
LEMMA PortDequeueFacts ==
    ASSUME NEW T, NEW q \in QueuesOf(T), Linked(q, T),
           NEW port \in Ports, HasTask(q, port)
    PROVE  LET s == StatusCurr(port)
               t == NextTask(q, port)
               r == PortDequeue(q, port)
           IN  /\ t \in T /\ t = Head(q.queue[s]) /\ q.status[t] = s
               /\ r \in QueuesOf(T) /\ Linked(r, T)
               /\ r.queue = [q.queue EXCEPT ![s] = Tail(@)]
               /\ r.status = [q.status EXCEPT ![t] = NextOnDequeue(port)]
               /\ r.asserted = q.asserted
<1> DEFINE s == StatusCurr(port)
           t == NextTask(q, port)
           h == NextOnDequeue(port)
           r == PortDequeue(q, port)
<1>1. /\ s \in PortStatuses /\ h \in Statuses /\ h \notin PortStatuses
  BY DEF StatusCurr, NextOnDequeue, PortStatuses, HoldStatuses, Statuses, Ports
<1>2. /\ q.queue \in [PortStatuses -> Seq(T)] /\ q.status \in [T -> Statuses]
      /\ q.asserted \in BOOLEAN
  BY DEF QueuesOf
<1>3. /\ q.queue[s] \in Seq(T) /\ q.queue[s] # <<>> /\ t = Head(q.queue[s])
      /\ IsInjective(q.queue[s]) /\ ToSet(q.queue[s]) = {u \in T : q.status[u] = s}
  BY <1>1, <1>2 DEF HasTask, Queued, NextTask, Linked
<1>4. /\ Tail(q.queue[s]) \in Seq(T) /\ t \in T /\ t \in ToSet(q.queue[s])
      /\ ToSet(Tail(q.queue[s])) = ToSet(q.queue[s]) \ {t}
      /\ IsInjective(Tail(q.queue[s]))
  BY <1>3, TailToSet
<1>5. q.status[t] = s
  BY <1>3, <1>4
<1>6. /\ r.queue = [q.queue EXCEPT ![s] = Tail(@)]
      /\ r.status = [q.status EXCEPT ![t] = h]
      /\ r.asserted = q.asserted
      /\ r = [queue |-> r.queue, status |-> r.status, asserted |-> r.asserted]
  <2>1. r = [q EXCEPT !.queue[s] = Tail(@), !.status[t] = h]
    BY DEF PortDequeue
  <2> HIDE DEF r
  <2> QED BY <2>1 DEF QueuesOf
<1> HIDE DEF r
<1>7. r.queue \in [PortStatuses -> Seq(T)] /\ r.status \in [T -> Statuses]
  BY <1>1, <1>2, <1>4, <1>6
<1>8. r \in QueuesOf(T)
  BY <1>2, <1>6, <1>7 DEF QueuesOf
<1>9. Linked(r, T)
  <2>1. ASSUME NEW p \in PortStatuses, p # s
        PROVE  /\ r.queue[p] = q.queue[p]
               /\ {u \in T : r.status[u] = p} = {u \in T : q.status[u] = p}
    BY <1>1, <1>2, <1>4, <1>5, <1>6, <2>1
  <2>2. /\ r.queue[s] = Tail(q.queue[s])
        /\ {u \in T : r.status[u] = s} = {u \in T : q.status[u] = s} \ {t}
    BY <1>1, <1>2, <1>4, <1>6
  <2> QED BY <1>3, <1>4, <2>1, <2>2 DEF Linked
<1> QED BY <1>3, <1>4, <1>5, <1>6, <1>8, <1>9 DEF r

(* An enqueue of a task in any status: it leaves the list it is in. *)
LEMMA PortEnqueueFacts ==
    ASSUME NEW T, NEW q \in QueuesOf(T), Linked(q, T),
           NEW port \in Ports, NEW t \in T
    PROVE  LET n == NextOnEnqueue(port)
               r == PortEnqueue(q, port, t)
           IN  /\ r \in QueuesOf(T) /\ Linked(r, T)
               /\ r.queue[n] # <<>>
               /\ \A s \in PortStatuses :
                     s # n /\ q.queue[s] = <<>> => r.queue[s] = <<>>
               /\ r.status = [q.status EXCEPT ![t] = n]
               /\ r.asserted = (q.asserted \/ q.status[t] # NextOnDequeue(port))
<1> DEFINE n == NextOnEnqueue(port)
           r == PortEnqueue(q, port, t)
           un == [s \in PortStatuses |-> RemoveFirst(q.queue[s], t)]
<1>1. n \in PortStatuses /\ n \in Statuses
  BY DEF NextOnEnqueue, PortStatuses, Statuses, Ports
<1>2. /\ q.queue \in [PortStatuses -> Seq(T)] /\ q.status \in [T -> Statuses]
      /\ q.asserted \in BOOLEAN
  BY DEF QueuesOf
<1>3. \A s \in PortStatuses :
        /\ q.queue[s] \in Seq(T) /\ IsInjective(q.queue[s])
        /\ ToSet(q.queue[s]) = {u \in T : q.status[u] = s}
  BY <1>2 DEF Linked
<1>4. \A s \in PortStatuses :
        /\ un[s] \in Seq(T) /\ IsInjective(un[s]) /\ t \notin ToSet(un[s])
        /\ ToSet(un[s]) = {u \in T : q.status[u] = s} \ {t}
        /\ t \notin ToSet(q.queue[s]) => un[s] = q.queue[s]
  BY <1>3, RemoveToSet
<1>5. /\ Append(un[n], t) \in Seq(T)
      /\ ToSet(Append(un[n], t)) = ToSet(un[n]) \cup {t}
      /\ IsInjective(Append(un[n], t))
  BY <1>1, <1>4, AppendToSet
<1>6. /\ r.queue = [un EXCEPT ![n] = Append(@, t)]
      /\ r.status = [q.status EXCEPT ![t] = n]
      /\ r.asserted = (q.asserted \/ q.status[t] # NextOnDequeue(port))
      /\ r = [queue |-> r.queue, status |-> r.status, asserted |-> r.asserted]
  BY DEF PortEnqueue, Unlink
<1>7. /\ un \in [PortStatuses -> Seq(T)]
      /\ \A s \in PortStatuses : s # n => r.queue[s] = un[s]
      /\ r.queue[n] = Append(un[n], t)
  <2>1. un \in [PortStatuses -> Seq(T)]
    BY <1>4
  <2> HIDE DEF un
  <2> QED BY <1>1, <1>6, <2>1
<1> HIDE DEF r, un
<1>8. r \in QueuesOf(T)
  <2>1. r.queue \in [PortStatuses -> Seq(T)] /\ r.status \in [T -> Statuses]
    BY <1>1, <1>2, <1>5, <1>6, <1>7
  <2>2. r.asserted \in BOOLEAN
    BY <1>6
  <2> QED BY <1>6, <2>1, <2>2 DEF QueuesOf
<1>9. Linked(r, T)
  <2>1. ASSUME NEW p \in PortStatuses, p # n
        PROVE  {u \in T : r.status[u] = p} = {u \in T : q.status[u] = p} \ {t}
    BY <1>2, <1>6, <2>1
  <2>2. {u \in T : r.status[u] = n} = {u \in T : q.status[u] = n} \cup {t}
    BY <1>2, <1>6
  <2> QED BY <1>1, <1>4, <1>5, <1>7, <2>1, <2>2 DEF Linked
<1>10. r.queue[n] # <<>>
  BY <1>1, <1>4, <1>7
<1>11. ASSUME NEW s \in PortStatuses, s # n, q.queue[s] = <<>>
       PROVE  r.queue[s] = <<>>
  <2>1. ToSet(q.queue[s]) = {}
    BY <1>11 DEF ToSet
  <2> QED BY <1>4, <1>7, <1>11, <2>1
<1> QED BY <1>6, <1>8, <1>9, <1>10, <1>11 DEF r
-----------------------------------------------------------------------------
(* A task on hold is in no list. *)
LEMMA UnlinkHeld ==
    ASSUME NEW T, NEW q \in QueuesOf(T), Linked(q, T),
           NEW t, q.status[t] \notin PortStatuses
    PROVE  Unlink(q.queue, t) = q.queue
<1>1. /\ q.queue \in [PortStatuses -> Seq(T)]
      /\ \A s \in PortStatuses : q.queue[s] \in Seq(T) /\ t \notin ToSet(q.queue[s])
  BY DEF QueuesOf, Linked
<1>2. \A s \in PortStatuses : RemoveFirst(q.queue[s], t) = q.queue[s]
  BY <1>1, RemoveAbsent
<1> QED BY <1>1, <1>2 DEF Unlink

(* The four operations, port by port.  A dequeue from the input port. *)
LEMMA InputDequeue ==
    ASSUME NEW T, NEW q \in QueuesOf(T), Linked(q, T), HasTask(q, "INPUT")
    PROVE  LET t == NextTask(q, "INPUT")
               r == PortDequeue(q, "INPUT")
           IN  /\ t \in T /\ t = Head(q.queue["INPUT_PORT"])
               /\ q.status[t] = "INPUT_PORT"
               /\ r \in QueuesOf(T) /\ Linked(r, T) /\ r.asserted = q.asserted
               /\ r.queue["INPUT_PORT"] = Tail(q.queue["INPUT_PORT"])
               /\ r.queue["OUTPUT_PORT"] = q.queue["OUTPUT_PORT"]
               /\ r.status = [q.status EXCEPT ![t] = "INPUT_HOLD"]
<1> DEFINE r == PortDequeue(q, "INPUT")
           t == NextTask(q, "INPUT")
<1>1. /\ "INPUT" \in Ports /\ StatusCurr("INPUT") = "INPUT_PORT"
      /\ NextOnDequeue("INPUT") = "INPUT_HOLD"
  BY DEF Ports, StatusCurr, NextOnDequeue
<1>2. /\ t \in T /\ t = Head(q.queue["INPUT_PORT"]) /\ q.status[t] = "INPUT_PORT"
      /\ r \in QueuesOf(T) /\ Linked(r, T) /\ r.asserted = q.asserted
      /\ r.queue = [q.queue EXCEPT !["INPUT_PORT"] = Tail(@)]
      /\ r.status = [q.status EXCEPT ![t] = "INPUT_HOLD"]
  <2> HIDE DEF r, t
  <2> QED BY <1>1, PortDequeueFacts DEF r, t
<1>3. q.queue \in [{"INPUT_PORT", "OUTPUT_PORT"} -> Seq(T)]
  BY DEF QueuesOf, PortStatuses
<1> HIDE DEF r, t
<1>4. /\ r.queue["INPUT_PORT"] = Tail(q.queue["INPUT_PORT"])
      /\ r.queue["OUTPUT_PORT"] = q.queue["OUTPUT_PORT"]
  BY <1>2, <1>3
<1> QED BY <1>2, <1>4 DEF r, t

(* A dequeue from the output port. *)
LEMMA OutputDequeue ==
    ASSUME NEW T, NEW q \in QueuesOf(T), Linked(q, T), HasTask(q, "OUTPUT")
    PROVE  LET t == NextTask(q, "OUTPUT")
               r == PortDequeue(q, "OUTPUT")
           IN  /\ t \in T /\ t = Head(q.queue["OUTPUT_PORT"])
               /\ q.status[t] = "OUTPUT_PORT"
               /\ r \in QueuesOf(T) /\ Linked(r, T) /\ r.asserted = q.asserted
               /\ r.queue["OUTPUT_PORT"] = Tail(q.queue["OUTPUT_PORT"])
               /\ r.queue["INPUT_PORT"] = q.queue["INPUT_PORT"]
               /\ r.status = [q.status EXCEPT ![t] = "OUTPUT_HOLD"]
<1> DEFINE r == PortDequeue(q, "OUTPUT")
           t == NextTask(q, "OUTPUT")
<1>1. /\ "OUTPUT" \in Ports /\ StatusCurr("OUTPUT") = "OUTPUT_PORT"
      /\ NextOnDequeue("OUTPUT") = "OUTPUT_HOLD"
  BY DEF Ports, StatusCurr, NextOnDequeue
<1>2. /\ t \in T /\ t = Head(q.queue["OUTPUT_PORT"]) /\ q.status[t] = "OUTPUT_PORT"
      /\ r \in QueuesOf(T) /\ Linked(r, T) /\ r.asserted = q.asserted
      /\ r.queue = [q.queue EXCEPT !["OUTPUT_PORT"] = Tail(@)]
      /\ r.status = [q.status EXCEPT ![t] = "OUTPUT_HOLD"]
  <2> HIDE DEF r, t
  <2> QED BY <1>1, PortDequeueFacts DEF r, t
<1>3. q.queue \in [{"INPUT_PORT", "OUTPUT_PORT"} -> Seq(T)]
  BY DEF QueuesOf, PortStatuses
<1> HIDE DEF r, t
<1>4. /\ r.queue["OUTPUT_PORT"] = Tail(q.queue["OUTPUT_PORT"])
      /\ r.queue["INPUT_PORT"] = q.queue["INPUT_PORT"]
  BY <1>2, <1>3
<1> QED BY <1>2, <1>4 DEF r, t

(* An enqueue of any task to the input port. *)
LEMMA InputEnqueue ==
    ASSUME NEW T, NEW q \in QueuesOf(T), Linked(q, T), NEW t \in T
    PROVE  LET r == PortEnqueue(q, "INPUT", t)
           IN  /\ r \in QueuesOf(T) /\ Linked(r, T)
               /\ r.queue["OUTPUT_PORT"] # <<>>
               /\ q.queue["INPUT_PORT"] = <<>> => r.queue["INPUT_PORT"] = <<>>
               /\ r.status[t] = "OUTPUT_PORT"
               /\ \A u \in T \ {t} : r.status[u] = q.status[u]
               /\ ~q.asserted /\ q.status[t] = "INPUT_HOLD" => ~r.asserted
<1> DEFINE r == PortEnqueue(q, "INPUT", t)
<1>1. /\ "INPUT" \in Ports /\ NextOnEnqueue("INPUT") = "OUTPUT_PORT"
      /\ NextOnDequeue("INPUT") = "INPUT_HOLD"
  BY DEF Ports, NextOnEnqueue, NextOnDequeue
<1>2. /\ r \in QueuesOf(T) /\ Linked(r, T) /\ r.queue["OUTPUT_PORT"] # <<>>
      /\ \A s \in PortStatuses :
            s # "OUTPUT_PORT" /\ q.queue[s] = <<>> => r.queue[s] = <<>>
      /\ r.status = [q.status EXCEPT ![t] = "OUTPUT_PORT"]
      /\ r.asserted = (q.asserted \/ q.status[t] # "INPUT_HOLD")
  <2> HIDE DEF r
  <2> QED BY <1>1, PortEnqueueFacts DEF r
<1> HIDE DEF r
<1>3. q.queue["INPUT_PORT"] = <<>> => r.queue["INPUT_PORT"] = <<>>
  BY <1>2 DEF PortStatuses
<1>4. ~q.asserted /\ q.status[t] = "INPUT_HOLD" => ~r.asserted
  BY <1>2
<1>5. /\ r.status[t] = "OUTPUT_PORT"
      /\ \A u \in T \ {t} : r.status[u] = q.status[u]
  BY <1>2 DEF QueuesOf
<1> QED BY <1>2, <1>3, <1>4, <1>5 DEF r

(* If the task is on hold this is an append. *)
LEMMA InputAppend ==
    ASSUME NEW T, NEW q \in QueuesOf(T), Linked(q, T),
           NEW t \in T, q.status[t] \in HoldStatuses
    PROVE  LET r == PortEnqueue(q, "INPUT", t)
           IN  /\ r.queue["OUTPUT_PORT"] = Append(q.queue["OUTPUT_PORT"], t)
               /\ r.queue["INPUT_PORT"] = q.queue["INPUT_PORT"]
<1> DEFINE r == PortEnqueue(q, "INPUT", t)
<1>1. "INPUT" \in Ports /\ NextOnEnqueue("INPUT") = "OUTPUT_PORT"
  BY DEF Ports, NextOnEnqueue
<1>2. q.status[t] \notin PortStatuses
  BY DEF HoldStatuses, PortStatuses
<1>3. r.queue = [q.queue EXCEPT !["OUTPUT_PORT"] = Append(@, t)]
  <2>1. Unlink(q.queue, t) = q.queue
    BY <1>2, UnlinkHeld
  <2> QED BY <1>1, <2>1 DEF PortEnqueue
<1>4. q.queue \in [{"INPUT_PORT", "OUTPUT_PORT"} -> Seq(T)]
  BY DEF QueuesOf, PortStatuses
<1> HIDE DEF r
<1>5. /\ r.queue["OUTPUT_PORT"] = Append(q.queue["OUTPUT_PORT"], t)
      /\ r.queue["INPUT_PORT"] = q.queue["INPUT_PORT"]
  BY <1>3, <1>4
<1> QED BY <1>5 DEF r

(* An enqueue of any task to the output port. *)
LEMMA OutputEnqueue ==
    ASSUME NEW T, NEW q \in QueuesOf(T), Linked(q, T), NEW t \in T
    PROVE  LET r == PortEnqueue(q, "OUTPUT", t)
           IN  /\ r \in QueuesOf(T) /\ Linked(r, T)
               /\ r.queue["INPUT_PORT"] # <<>>
               /\ q.queue["OUTPUT_PORT"] = <<>> => r.queue["OUTPUT_PORT"] = <<>>
               /\ r.status[t] = "INPUT_PORT"
               /\ \A u \in T \ {t} : r.status[u] = q.status[u]
               /\ ~q.asserted /\ q.status[t] = "OUTPUT_HOLD" => ~r.asserted
<1> DEFINE r == PortEnqueue(q, "OUTPUT", t)
<1>1. /\ "OUTPUT" \in Ports /\ NextOnEnqueue("OUTPUT") = "INPUT_PORT"
      /\ NextOnDequeue("OUTPUT") = "OUTPUT_HOLD"
  BY DEF Ports, NextOnEnqueue, NextOnDequeue
<1>2. /\ r \in QueuesOf(T) /\ Linked(r, T) /\ r.queue["INPUT_PORT"] # <<>>
      /\ \A s \in PortStatuses :
            s # "INPUT_PORT" /\ q.queue[s] = <<>> => r.queue[s] = <<>>
      /\ r.status = [q.status EXCEPT ![t] = "INPUT_PORT"]
      /\ r.asserted = (q.asserted \/ q.status[t] # "OUTPUT_HOLD")
  <2> HIDE DEF r
  <2> QED BY <1>1, PortEnqueueFacts DEF r
<1> HIDE DEF r
<1>3. q.queue["OUTPUT_PORT"] = <<>> => r.queue["OUTPUT_PORT"] = <<>>
  BY <1>2 DEF PortStatuses
<1>4. ~q.asserted /\ q.status[t] = "OUTPUT_HOLD" => ~r.asserted
  BY <1>2
<1>5. /\ r.status[t] = "INPUT_PORT"
      /\ \A u \in T \ {t} : r.status[u] = q.status[u]
  BY <1>2 DEF QueuesOf
<1> QED BY <1>2, <1>3, <1>4, <1>5 DEF r

(* If the task is on hold this is an append. *)
LEMMA OutputAppend ==
    ASSUME NEW T, NEW q \in QueuesOf(T), Linked(q, T),
           NEW t \in T, q.status[t] \in HoldStatuses
    PROVE  LET r == PortEnqueue(q, "OUTPUT", t)
           IN  /\ r.queue["INPUT_PORT"] = Append(q.queue["INPUT_PORT"], t)
               /\ r.queue["OUTPUT_PORT"] = q.queue["OUTPUT_PORT"]
<1> DEFINE r == PortEnqueue(q, "OUTPUT", t)
<1>1. "OUTPUT" \in Ports /\ NextOnEnqueue("OUTPUT") = "INPUT_PORT"
  BY DEF Ports, NextOnEnqueue
<1>2. q.status[t] \notin PortStatuses
  BY DEF HoldStatuses, PortStatuses
<1>3. r.queue = [q.queue EXCEPT !["INPUT_PORT"] = Append(@, t)]
  <2>1. Unlink(q.queue, t) = q.queue
    BY <1>2, UnlinkHeld
  <2> QED BY <1>1, <2>1 DEF PortEnqueue
<1>4. q.queue \in [{"INPUT_PORT", "OUTPUT_PORT"} -> Seq(T)]
  BY DEF QueuesOf, PortStatuses
<1> HIDE DEF r
<1>5. /\ r.queue["INPUT_PORT"] = Append(q.queue["INPUT_PORT"], t)
      /\ r.queue["OUTPUT_PORT"] = q.queue["OUTPUT_PORT"]
  BY <1>3, <1>4
<1> QED BY <1>5 DEF r

(* Removing the head of a list. *)
LEMMA RemoveHead ==
    ASSUME NEW S, NEW s \in Seq(S), s # <<>>, IsInjective(s)
    PROVE  RemoveFirst(s, Head(s)) = Tail(s)
<1>1. DOMAIN s = 1 .. Len(s) /\ Len(s) \in Nat /\ Len(s) # 0 /\ Head(s) = s[1]
  OBVIOUS
<1>2. {i \in 1 .. Len(s) : s[i] = Head(s)} = {1}
  BY <1>1 DEF IsInjective
<1>3. SelectInSeq(s, LAMBDA v : v = Head(s)) = 1
  BY <1>2 DEF SelectInSeq, Min
<1>4. RemoveFirst(s, Head(s)) = SubSeq(s, 1, 0) \o SubSeq(s, 2, Len(s))
  <2>1. RemoveFirst(s, Head(s)) = RemoveAt(s, 1)
    BY <1>1, <1>3 DEF RemoveFirst
  <2>2. 1 - 1 = 0 /\ 1 + 1 = 2
    OBVIOUS
  <2> QED BY <2>1, <2>2 DEF RemoveAt
<1>5. SubSeq(s, 1, 0) = <<>> /\ SubSeq(s, 2, Len(s)) = Tail(s) /\ Tail(s) \in Seq(S)
  BY <1>1
<1> QED BY <1>4, <1>5

-----------------------------------------------------------------------------
(* The values of a task group with n handles whose tasks are in I, and     *)
(* when a handle is linked at most once.                                   *)
GroupsOf(n, I) ==
    [ list : [TaskStatuses -> Seq(1 .. n)], info : [1 .. n -> I] ]

LinkedOnce(g) ==
    \A s \in TaskStatuses :
        /\ IsInjective(g.list[s])
        /\ \A t \in TaskStatuses \ {s} : ToSet(g.list[s]) \cap ToSet(g.list[t]) = {}

(* A new group: every handle is idle. *)
LEMMA GroupInitFacts ==
    ASSUME NEW n \in Nat, NEW I, NEW i \in I
    PROVE  /\ GroupInit(n, i) \in GroupsOf(n, I) /\ LinkedOnce(GroupInit(n, i))
           /\ GroupInit(n, i).list["TASK_PROCESSING"] = <<>>
           /\ GroupInit(n, i).list["TASK_PROC_DONE"] = <<>>
<1> DEFINE g == GroupInit(n, i)
<1>1. [k \in 1 .. n |-> k] \in Seq(1 .. n) /\ <<>> \in Seq(1 .. n)
  OBVIOUS
<1>2. g.info \in [1 .. n -> I]
  BY DEF GroupInit
<1>3. \A s \in TaskStatuses :
         g.list[s] = IF s = "TASK_IDLE" THEN [k \in 1 .. n |-> k] ELSE <<>>
  BY DEF GroupInit
<1>4. g \in GroupsOf(n, I)
  BY <1>1, <1>2 DEF GroupsOf, GroupInit
<1>5. ToSet(<<>>) = {} /\ IsInjective(<<>>) /\ IsInjective([k \in 1 .. n |-> k])
  BY DEF ToSet, IsInjective
<1> HIDE DEF g
<1>6. LinkedOnce(g)
  BY <1>3, <1>5 DEF LinkedOnce
<1>7. g.list["TASK_PROCESSING"] = <<>> /\ g.list["TASK_PROC_DONE"] = <<>>
  BY <1>3 DEF TaskStatuses
<1> QED BY <1>4, <1>6, <1>7 DEF g

(* hal_task_hnd_set_status on the head of a list moves it to the end of    *)
(* the other.                                                              *)
LEMMA SetStatusFacts ==
    ASSUME NEW n, NEW I, NEW g \in GroupsOf(n, I), LinkedOnce(g),
           NEW s \in TaskStatuses, NEW t \in TaskStatuses \ {s},
           g.list[s] # <<>>, NEW r, r = SetStatus(g, Head(g.list[s]), t)
    PROVE  /\ r \in GroupsOf(n, I) /\ LinkedOnce(r) /\ r.info = g.info
           /\ Head(g.list[s]) \in 1 .. n
           /\ Head(g.list[s]) \notin ToSet(g.list[t])
           /\ r.list = [g.list EXCEPT ![s] = Tail(g.list[s]),
                                      ![t] = Append(g.list[t], Head(g.list[s]))]
<1> DEFINE h == Head(g.list[s])
           l == [g.list EXCEPT ![s] = Tail(g.list[s]), ![t] = Append(g.list[t], h)]
<1>1. /\ g.list \in [TaskStatuses -> Seq(1 .. n)] /\ g.info \in [1 .. n -> I]
      /\ g = [list |-> g.list, info |-> g.info]
  BY DEF GroupsOf
<1>2. /\ Tail(g.list[s]) \in Seq(1 .. n) /\ h \in 1 .. n /\ h \in ToSet(g.list[s])
      /\ ToSet(Tail(g.list[s])) = ToSet(g.list[s]) \ {h}
      /\ IsInjective(Tail(g.list[s]))
  <2>1. g.list[s] \in Seq(1 .. n) /\ IsInjective(g.list[s])
    BY <1>1 DEF LinkedOnce
  <2> QED BY <2>1, TailToSet
<1>3. \A u \in TaskStatuses \ {s} : h \notin ToSet(g.list[u])
  BY <1>2 DEF LinkedOnce
<1>4. /\ Append(g.list[t], h) \in Seq(1 .. n)
      /\ ToSet(Append(g.list[t], h)) = ToSet(g.list[t]) \cup {h}
      /\ IsInjective(Append(g.list[t], h))
  <2> DEFINE k == g.list[t]
             N == 1 .. n
  <2>1. k \in Seq(N) /\ IsInjective(k) /\ h \notin ToSet(k) /\ h \in N
    BY <1>1, <1>2, <1>3 DEF LinkedOnce
  <2> HIDE DEF h, k, N
  <2>2. /\ Append(k, h) \in Seq(N) /\ ToSet(Append(k, h)) = ToSet(k) \cup {h}
        /\ IsInjective(Append(k, h))
    BY <2>1, AppendToSet
  <2> QED BY <2>2 DEF k, N
<1>5. RemoveFirst(g.list[s], h) = Tail(g.list[s])
  <2>1. g.list[s] \in Seq(1 .. n) /\ IsInjective(g.list[s])
    BY <1>1 DEF LinkedOnce
  <2> QED BY <2>1, RemoveHead
<1>6. \A u \in TaskStatuses \ {s} : RemoveFirst(g.list[u], h) = g.list[u]
  <2> SUFFICES ASSUME NEW u \in TaskStatuses \ {s}
               PROVE  RemoveFirst(g.list[u], h) = g.list[u]
    OBVIOUS
  <2>1. g.list[u] \in Seq(1 .. n)
    BY <1>1
  <2> QED BY <1>3, <2>1, RemoveAbsent
<1> HIDE DEF h
<1>7. r = [g EXCEPT !.list = [[u \in TaskStatuses |-> RemoveFirst(g.list[u], h)]
                                 EXCEPT ![t] = Append(@, h)]]
  BY <1>1 DEF SetStatus, h
<1>8. [[u \in TaskStatuses |-> RemoveFirst(g.list[u], h)] EXCEPT ![t] = Append(@, h)] = l
  BY <1>1, <1>5, <1>6
<1>9. r = [list |-> l, info |-> g.info]
  BY <1>1, <1>7, <1>8
<1>10. /\ l[s] = Tail(g.list[s]) /\ l[t] = Append(g.list[t], h)
       /\ \A u \in TaskStatuses \ {s, t} : l[u] = g.list[u]
       /\ l \in [TaskStatuses -> Seq(1 .. n)]
  BY <1>1, <1>2, <1>4
<1> HIDE DEF l
<1>11. r \in GroupsOf(n, I) /\ r.info = g.info /\ r.list = l
  BY <1>1, <1>9, <1>10 DEF GroupsOf
<1>12. LinkedOnce(r)
  <2>1. ASSUME NEW u \in TaskStatuses PROVE IsInjective(l[u])
    BY <1>2, <1>4, <1>10 DEF LinkedOnce
  <2>2. \A u \in TaskStatuses : h \in ToSet(l[u]) => u = t
    BY <1>2, <1>3, <1>10
  <2>3. \A u \in TaskStatuses : ToSet(l[u]) \subseteq ToSet(g.list[u]) \cup {h}
    BY <1>2, <1>4, <1>10
  <2>4. ASSUME NEW u \in TaskStatuses, NEW w \in TaskStatuses \ {u},
               NEW x \in ToSet(l[u]), x \in ToSet(l[w])
        PROVE  FALSE
    <3>1. x # h
      BY <2>2, <2>4
    <3>2. x \in ToSet(g.list[u]) /\ x \in ToSet(g.list[w])
      BY <2>3, <2>4, <3>1
    <3> QED BY <3>2 DEF LinkedOnce
  <2> QED BY <1>11, <2>1, <2>4 DEF LinkedOnce
<1> QED BY <1>2, <1>3, <1>11, <1>12 DEF h, l
=============================================================================
