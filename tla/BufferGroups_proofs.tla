------------------------ MODULE BufferGroups_proofs -------------------------
(***************************************************************************)
(* Theorems about BufferGroups, for any groups, any finite set of buffers  *)
(* and any sizes and limits.                                               *)
(*                                                                         *)
(* The first part knows nothing of who calls: ServiceOK says of a service, *)
(* and of the references handed out, what lists, counters, flags and       *)
(* reference counts have to do with each other, and each entry point of    *)
(* BufGroupOps keeps it.                                                   *)
(*                                                                         *)
(* The second part is the inductive invariant IInv, and the safety         *)
(* properties of the runs that follow from it.  IInv consists of ServiceOK *)
(* and of UsersOK: a group that a get is half done with, or the decoder's  *)
(* while it is not stopped, is in the list of groups, so that no call      *)
(* works on a group that was put.                                          *)
(*                                                                         *)
(* The third part is about what the steps do to what a group offers, from  *)
(* the same invariant: no group is taken beyond its limit                  *)
(* (LimitNeverPassed), and the decoder does not sleep over a buffer it     *)
(* could have (NoSleepOverBuffers).                                        *)
(***************************************************************************)
EXTENDS BufferGroups, FiniteSetTheorems, TLAPS

States == {"none", "normal", "orphan", "freed", "misfreed"}

GroupType ==
    [ state : States, mode : Modes, misc : BOOLEAN,
      limit_count : Nat, limit_size : Nat,
      buffer_count : Int, count_used : Int, count_unused : Int,
      callback : BOOLEAN, list_used : SUBSET Buffers, list_unused : SUBSET Buffers ]

BufType ==
    [ alive : BOOLEAN, group : Groups \cup {0}, size : Nat,
      used : BOOLEAN, discard : BOOLEAN, ref_count : Nat ]

Services == [group : [Groups -> GroupType], buf : [Buffers -> BufType]]

(* The counters of a group agree with its lists, and the lists with what   *)
(* their buffers say.                                                      *)
CountsOK(p) ==
    /\ p.count_used = Cardinality(p.list_used)
    /\ p.count_unused = Cardinality(p.list_unused)
    /\ p.buffer_count = p.count_used + p.count_unused

ListsOK(s, g) ==
    \A b \in Buffers :
        LET mine == s.buf[b].alive /\ s.buf[b].group = g
        IN  /\ b \in s.group[g].list_used   <=> mine /\ s.buf[b].used
            /\ b \in s.group[g].list_unused <=> mine /\ ~s.buf[b].used

GroupOK(s, g) == Listed(s, g) => CountsOK(s.group[g]) /\ ListsOK(s, g)

(* A buffer that exists has a group, counts the h references handed out,   *)
(* and is used, discarded or not, exactly while there are some.            *)
BufferOK(s, b, h) ==
    IF s.buf[b].alive
    THEN /\ s.buf[b].group \in Groups /\ Listed(s, s.buf[b].group)
         /\ s.buf[b].ref_count = h
         /\ s.buf[b].used <=> h > 0
         /\ s.buf[b].discard => h > 0
    ELSE h = 0

ServiceOK(s, refs) ==
    /\ s \in Services
    /\ refs \in [Buffers -> Nat]
    /\ \A g \in Groups : GroupOK(s, g)
    /\ \A b \in Buffers : BufferOK(s, b, refs[b])

-----------------------------------------------------------------------------
(* Sets of buffers are finite. *)
LEMMA CardOfBuffers ==
    ASSUME NEW S \in SUBSET Buffers
    PROVE  /\ IsFiniteSet(S)
           /\ Cardinality(S) \in Nat
           /\ Cardinality(S) = 0 <=> S = {}
           /\ \A b : Cardinality(S \cup {b}) =
                        IF b \in S THEN Cardinality(S) ELSE Cardinality(S) + 1
           /\ \A b : Cardinality(S \ {b}) =
                        IF b \in S THEN Cardinality(S) - 1 ELSE Cardinality(S)
           /\ \A T \in SUBSET S : Cardinality(S \ T) = Cardinality(S) - Cardinality(T)
<1>1. IsFiniteSet(S)
  BY BuffersAssumption, FS_Subset
<1>2. \A T \in SUBSET S : S \cap T = T
  OBVIOUS
<1>3. Cardinality(S) \in Nat
  BY <1>1, FS_CardinalityType
<1>4. Cardinality(S) = 0 <=> S = {}
  BY <1>1, FS_EmptySet
<1>5. \A b : Cardinality(S \cup {b}) =
                IF b \in S THEN Cardinality(S) ELSE Cardinality(S) + 1
  BY <1>1, FS_AddElement
<1>6. \A b : Cardinality(S \ {b}) =
                IF b \in S THEN Cardinality(S) - 1 ELSE Cardinality(S)
  BY <1>1, FS_RemoveElement
<1>7. \A T \in SUBSET S : Cardinality(S \ T) = Cardinality(S) - Cardinality(T)
  BY <1>1, <1>2, FS_Difference
<1> QED BY <1>1, <1>3, <1>4, <1>5, <1>6, <1>7

(* One field of a group is given another value of its type ...             *)
LEMMA GroupEdit ==
    ASSUME NEW p \in GroupType
    PROVE  /\ \A v \in States : [p EXCEPT !.state = v] \in GroupType
           /\ \A v \in Int : /\ [p EXCEPT !.buffer_count = v] \in GroupType
                            /\ [p EXCEPT !.count_used = v] \in GroupType
                            /\ [p EXCEPT !.count_unused = v] \in GroupType
           /\ \A v \in SUBSET Buffers : /\ [p EXCEPT !.list_used = v] \in GroupType
                                       /\ [p EXCEPT !.list_unused = v] \in GroupType
           /\ \A v \in Nat : /\ [p EXCEPT !.limit_size = v] \in GroupType
                            /\ [p EXCEPT !.limit_count = v] \in GroupType
           /\ \A v \in BOOLEAN : [p EXCEPT !.callback = v] \in GroupType
BY DEF GroupType

(* ... of a buffer. *)
LEMMA BufEdit ==
    ASSUME NEW r \in BufType
    PROVE  /\ \A v \in Nat : [r EXCEPT !.ref_count = v] \in BufType
           /\ \A v \in BOOLEAN : /\ [r EXCEPT !.used = v] \in BufType
                                /\ [r EXCEPT !.discard = v] \in BufType
BY DEF BufType

-----------------------------------------------------------------------------
(* What happens to a group, as a record of its own: an unused buffer is    *)
(* taken, a new one added, unused ones dropped, a used one returned; or a  *)
(* used one is destroyed, before (Lost) and after (Uncounted) it is        *)
(* counted out of those in use.                                            *)
Taken(p, b) ==
    [p EXCEPT !.list_unused  = p.list_unused \ {b},
              !.list_used    = p.list_used \cup {b},
              !.count_used   = p.count_used + 1,
              !.count_unused = p.count_unused - 1]

Added(p, b) ==
    [p EXCEPT !.list_unused  = p.list_unused \cup {b},
              !.buffer_count = p.buffer_count + 1,
              !.count_unused = p.count_unused + 1]

Dropped(p, D) ==
    [p EXCEPT !.list_unused  = p.list_unused \ D,
              !.buffer_count = p.buffer_count - Cardinality(D),
              !.count_unused = p.count_unused - Cardinality(D)]

Returned(p, b) ==
    [p EXCEPT !.list_used    = p.list_used \ {b},
              !.list_unused  = p.list_unused \cup {b},
              !.count_unused = p.count_unused + 1,
              !.count_used   = p.count_used - 1]

Lost(p, b) ==
    [p EXCEPT !.list_used    = p.list_used \ {b},
              !.buffer_count = p.buffer_count - 1]

Uncounted(p) == [p EXCEPT !.count_used = p.count_used - 1]

(* An unused buffer is taken. *)
LEMMA GroupTake ==
    ASSUME NEW p \in GroupType, CountsOK(p),
           NEW b \in p.list_unused, b \notin p.list_used,
           NEW q, q = Taken(p, b)
    PROVE  /\ q \in GroupType /\ q.state = p.state /\ CountsOK(q)
           /\ q.list_unused = p.list_unused \ {b} /\ q.list_used = p.list_used \cup {b}
<1> DEFINE q1 == [p EXCEPT !.list_unused = p.list_unused \ {b}]
           q2 == [q1 EXCEPT !.list_used = p.list_used \cup {b}]
           q3 == [q2 EXCEPT !.count_used = p.count_used + 1]
<1>1. /\ p.list_unused \in SUBSET Buffers /\ p.list_used \in SUBSET Buffers
      /\ p.list_unused \ {b} \in SUBSET Buffers /\ p.list_used \cup {b} \in SUBSET Buffers
      /\ p.count_used + 1 \in Int /\ p.count_unused - 1 \in Int
  BY DEF GroupType
<1>2. q = [q3 EXCEPT !.count_unused = p.count_unused - 1]
  BY DEF Taken
<1> HIDE DEF q3
<1>3. q1 \in GroupType
  BY <1>1, GroupEdit
<1> HIDE DEF q1
<1>4. q2 \in GroupType
  BY <1>1, <1>3, GroupEdit
<1> HIDE DEF q2
<1>5. q3 \in GroupType
  BY <1>1, <1>4, GroupEdit DEF q3
<1>6. q \in GroupType
  BY <1>1, <1>2, <1>5, GroupEdit
<1>7. /\ q.state = p.state /\ q.buffer_count = p.buffer_count
      /\ q.list_unused = p.list_unused \ {b} /\ q.list_used = p.list_used \cup {b}
      /\ q.count_used = p.count_used + 1 /\ q.count_unused = p.count_unused - 1
  BY DEF GroupType, Taken
<1>8. /\ Cardinality(p.list_unused \ {b}) = Cardinality(p.list_unused) - 1
      /\ Cardinality(p.list_used \cup {b}) = Cardinality(p.list_used) + 1
      /\ Cardinality(p.list_used) \in Nat /\ Cardinality(p.list_unused) \in Nat
  BY <1>1, CardOfBuffers
<1>9. CountsOK(q)
  BY <1>7, <1>8 DEF CountsOK
<1> QED BY <1>6, <1>7, <1>9

(* A new buffer goes to the unused list. *)
LEMMA GroupAdd ==
    ASSUME NEW p \in GroupType, CountsOK(p),
           NEW b \in Buffers, b \notin p.list_unused,
           NEW q, q = Added(p, b)
    PROVE  /\ q \in GroupType /\ q.state = p.state /\ CountsOK(q)
           /\ q.list_unused = p.list_unused \cup {b} /\ q.list_used = p.list_used
<1> DEFINE q1 == [p EXCEPT !.list_unused = p.list_unused \cup {b}]
           q2 == [q1 EXCEPT !.buffer_count = p.buffer_count + 1]
<1>1. /\ p.list_unused \in SUBSET Buffers /\ p.list_used \in SUBSET Buffers
      /\ p.list_unused \cup {b} \in SUBSET Buffers
      /\ p.buffer_count + 1 \in Int /\ p.count_unused + 1 \in Int
  BY DEF GroupType
<1>2. q = [q2 EXCEPT !.count_unused = p.count_unused + 1]
  BY DEF Added
<1> HIDE DEF q2
<1>3. q1 \in GroupType
  BY <1>1, GroupEdit
<1> HIDE DEF q1
<1>4. q2 \in GroupType
  BY <1>1, <1>3, GroupEdit DEF q2
<1>5. q \in GroupType
  BY <1>1, <1>2, <1>4, GroupEdit
<1>6. /\ q.state = p.state /\ q.buffer_count = p.buffer_count + 1
      /\ q.list_unused = p.list_unused \cup {b} /\ q.list_used = p.list_used
      /\ q.count_used = p.count_used /\ q.count_unused = p.count_unused + 1
  BY DEF GroupType, Added
<1>7. /\ Cardinality(p.list_unused \cup {b}) = Cardinality(p.list_unused) + 1
      /\ Cardinality(p.list_used) \in Nat /\ Cardinality(p.list_unused) \in Nat
  BY <1>1, CardOfBuffers
<1>8. CountsOK(q)
  BY <1>6, <1>7 DEF CountsOK
<1> QED BY <1>5, <1>6, <1>8

(* Unused buffers are given up. *)
LEMMA GroupDrop ==
    ASSUME NEW p \in GroupType, CountsOK(p), NEW D \in SUBSET p.list_unused,
           NEW q, q = Dropped(p, D)
    PROVE  /\ q \in GroupType /\ q.state = p.state /\ CountsOK(q)
           /\ q.list_unused = p.list_unused \ D /\ q.list_used = p.list_used
           /\ q.buffer_count = p.buffer_count - Cardinality(D)
<1> DEFINE q1 == [p EXCEPT !.list_unused = p.list_unused \ D]
           q2 == [q1 EXCEPT !.buffer_count = p.buffer_count - Cardinality(D)]
<1>1. /\ p.list_unused \in SUBSET Buffers /\ p.list_used \in SUBSET Buffers
      /\ p.list_unused \ D \in SUBSET Buffers /\ D \in SUBSET Buffers
  BY DEF GroupType
<1>2. /\ Cardinality(p.list_unused \ D) = Cardinality(p.list_unused) - Cardinality(D)
      /\ Cardinality(p.list_used) \in Nat /\ Cardinality(p.list_unused) \in Nat
      /\ Cardinality(D) \in Nat
  BY <1>1, CardOfBuffers
<1>3. p.buffer_count - Cardinality(D) \in Int /\ p.count_unused - Cardinality(D) \in Int
  BY <1>2 DEF GroupType
<1>4. q = [q2 EXCEPT !.count_unused = p.count_unused - Cardinality(D)]
  BY DEF Dropped
<1> HIDE DEF q2
<1>5. q1 \in GroupType
  BY <1>1, GroupEdit
<1> HIDE DEF q1
<1>6. q2 \in GroupType
  BY <1>3, <1>5, GroupEdit DEF q2
<1>7. q \in GroupType
  BY <1>3, <1>4, <1>6, GroupEdit
<1>8. /\ q.state = p.state /\ q.buffer_count = p.buffer_count - Cardinality(D)
      /\ q.list_unused = p.list_unused \ D /\ q.list_used = p.list_used
      /\ q.count_used = p.count_used /\ q.count_unused = p.count_unused - Cardinality(D)
  BY DEF GroupType, Dropped
<1>9. CountsOK(q)
  BY <1>2, <1>8 DEF CountsOK
<1> QED BY <1>7, <1>8, <1>9

(* A buffer comes back from use to the unused list. *)
LEMMA GroupReturn ==
    ASSUME NEW p \in GroupType, CountsOK(p),
           NEW b \in p.list_used, b \notin p.list_unused,
           NEW q, q = Returned(p, b)
    PROVE  /\ q \in GroupType /\ q.state = p.state /\ CountsOK(q)
           /\ q.list_unused = p.list_unused \cup {b} /\ q.list_used = p.list_used \ {b}
<1> DEFINE q1 == [p EXCEPT !.list_used = p.list_used \ {b}]
           q2 == [q1 EXCEPT !.list_unused = p.list_unused \cup {b}]
           q3 == [q2 EXCEPT !.count_unused = p.count_unused + 1]
<1>1. /\ p.list_unused \in SUBSET Buffers /\ p.list_used \in SUBSET Buffers
      /\ p.list_unused \cup {b} \in SUBSET Buffers /\ p.list_used \ {b} \in SUBSET Buffers
      /\ p.count_used - 1 \in Int /\ p.count_unused + 1 \in Int
  BY DEF GroupType
<1>2. q = [q3 EXCEPT !.count_used = p.count_used - 1]
  BY DEF Returned
<1> HIDE DEF q3
<1>3. q1 \in GroupType
  BY <1>1, GroupEdit
<1> HIDE DEF q1
<1>4. q2 \in GroupType
  BY <1>1, <1>3, GroupEdit
<1> HIDE DEF q2
<1>5. q3 \in GroupType
  BY <1>1, <1>4, GroupEdit DEF q3
<1>6. q \in GroupType
  BY <1>1, <1>2, <1>5, GroupEdit
<1>7. /\ q.state = p.state /\ q.buffer_count = p.buffer_count
      /\ q.list_unused = p.list_unused \cup {b} /\ q.list_used = p.list_used \ {b}
      /\ q.count_used = p.count_used - 1 /\ q.count_unused = p.count_unused + 1
  BY DEF GroupType, Returned
<1>8. /\ Cardinality(p.list_unused \cup {b}) = Cardinality(p.list_unused) + 1
      /\ Cardinality(p.list_used \ {b}) = Cardinality(p.list_used) - 1
      /\ Cardinality(p.list_used) \in Nat /\ Cardinality(p.list_unused) \in Nat
  BY <1>1, CardOfBuffers
<1>9. CountsOK(q)
  BY <1>7, <1>8 DEF CountsOK
<1> QED BY <1>6, <1>7, <1>9

(* A buffer is destroyed when its use ends; o is the group before it is    *)
(* counted out of those in use, q after.                                   *)
LEMMA GroupLose ==
    ASSUME NEW p \in GroupType, CountsOK(p), NEW b \in p.list_used,
           NEW o, o = Lost(p, b), NEW q, q = Uncounted(o)
    PROVE  /\ o \in GroupType /\ o.state = p.state
           /\ o.buffer_count = 0 => p.list_used = {b} /\ p.list_unused = {}
           /\ q \in GroupType /\ q.state = p.state /\ CountsOK(q)
           /\ q.list_unused = p.list_unused /\ q.list_used = p.list_used \ {b}
<1> DEFINE q1 == [p EXCEPT !.list_used = p.list_used \ {b}]
<1>1. /\ p.list_unused \in SUBSET Buffers /\ p.list_used \in SUBSET Buffers
      /\ p.list_used \ {b} \in SUBSET Buffers
      /\ p.count_used - 1 \in Int /\ p.buffer_count - 1 \in Int
  BY DEF GroupType
<1>2. o = [q1 EXCEPT !.buffer_count = p.buffer_count - 1]
  BY DEF Lost
<1>3. q1 \in GroupType
  BY <1>1, GroupEdit
<1> HIDE DEF q1
<1>4. o \in GroupType
  BY <1>1, <1>2, <1>3, GroupEdit
<1>5. /\ o.state = p.state /\ o.buffer_count = p.buffer_count - 1
      /\ o.list_unused = p.list_unused /\ o.list_used = p.list_used \ {b}
      /\ o.count_used = p.count_used /\ o.count_unused = p.count_unused
  BY DEF GroupType, Lost
<1>6. /\ Cardinality(p.list_used \ {b}) = Cardinality(p.list_used) - 1
      /\ Cardinality(p.list_used) \in Nat /\ Cardinality(p.list_unused) \in Nat
      /\ Cardinality(p.list_used \ {b}) \in Nat
      /\ Cardinality(p.list_used \ {b}) = 0 => p.list_used \ {b} = {}
      /\ Cardinality(p.list_unused) = 0 => p.list_unused = {}
  BY <1>1, CardOfBuffers
<1>7. o.buffer_count = 0 => p.list_used = {b} /\ p.list_unused = {}
  <2> SUFFICES ASSUME o.buffer_count = 0
               PROVE  p.list_used \ {b} = {} /\ p.list_unused = {}
    OBVIOUS
  <2>1. Cardinality(p.list_used) + Cardinality(p.list_unused) = 1
    BY <1>1, <1>5 DEF CountsOK, GroupType
  <2> HIDE DEF CountsOK
  <2>2. Cardinality(p.list_used \ {b}) = 0 /\ Cardinality(p.list_unused) = 0
    BY <1>6, <2>1
  <2> QED BY <1>6, <2>2
<1>8. q \in GroupType
  BY <1>1, <1>4, <1>5, GroupEdit DEF Uncounted
<1>9. /\ q.state = p.state /\ q.buffer_count = p.buffer_count - 1
      /\ q.list_unused = p.list_unused /\ q.list_used = p.list_used \ {b}
      /\ q.count_used = p.count_used - 1 /\ q.count_unused = p.count_unused
  BY <1>4, <1>5 DEF GroupType, Uncounted
<1>10. CountsOK(q)
  BY <1>6, <1>9 DEF CountsOK
<1> QED BY <1>4, <1>5, <1>7, <1>8, <1>9, <1>10

-----------------------------------------------------------------------------
(* What happens to the service. *)

(* No group changes its state; a normal group stays one. *)
SameStates(s, t) == \A k \in Groups : t.group[k].state = s.group[k].state

NormalKept(s, t) ==
    \A k \in Groups : s.group[k].state = "normal" => t.group[k].state = "normal"

(* A step that changes one group and buffers of that group only, before or *)
(* after, keeps ServiceOK if it does for them.                             *)
Follows(s, refs, t, h, g, b) ==
    \/ /\ t.buf[b] = s.buf[b] /\ h[b] = refs[b]
       /\ s.buf[b].alive /\ s.buf[b].group = g => Listed(t, g)
    \/ /\ s.buf[b].alive => s.buf[b].group = g
       /\ t.buf[b].alive => t.buf[b].group = g
       /\ BufferOK(t, b, h[b])

GroupStepOK(s, refs, t, h, g) ==
    /\ t \in Services /\ h \in [Buffers -> Nat]
    /\ \A k \in Groups : k # g => t.group[k] = s.group[k]
    /\ Listed(t, g) => CountsOK(t.group[g]) /\ ListsOK(t, g)
    /\ \A b \in Buffers : Follows(s, refs, t, h, g, b)

(* The lemma for such a step. *)
LEMMA GroupStep ==
    ASSUME NEW s, NEW refs, ServiceOK(s, refs), NEW g \in Groups,
           NEW t, NEW h, GroupStepOK(s, refs, t, h, g)
    PROVE  ServiceOK(t, h)
<1>1. ASSUME NEW k \in Groups
      PROVE  GroupOK(t, k)
  <2>1. CASE k = g
    BY <2>1 DEF GroupOK, GroupStepOK
  <2>2. CASE k # g
    <3>1. GroupOK(s, k) /\ t.group[k] = s.group[k]
      BY <2>2 DEF ServiceOK, GroupStepOK
    <3>2. \A b \in Buffers : (t.buf[b].alive /\ t.buf[b].group = k)
                          \/ (s.buf[b].alive /\ s.buf[b].group = k) => t.buf[b] = s.buf[b]
      BY <2>2 DEF GroupStepOK, Follows
    <3>3. ListsOK(s, k) => ListsOK(t, k)
      BY <3>1, <3>2 DEF ListsOK
    <3> QED BY <3>1, <3>3 DEF GroupOK, Listed
  <2> QED BY <2>1, <2>2
<1>2. ASSUME NEW b \in Buffers
      PROVE  BufferOK(t, b, h[b])
  <2>1. BufferOK(s, b, refs[b]) /\ Follows(s, refs, t, h, g, b)
    BY DEF ServiceOK, GroupStepOK
  <2>2. CASE t.buf[b] = s.buf[b] /\ h[b] = refs[b]
             /\ (s.buf[b].alive /\ s.buf[b].group = g => Listed(t, g))
    <3>1. CASE ~s.buf[b].alive
      BY <2>1, <2>2, <3>1 DEF BufferOK
    <3>2. CASE s.buf[b].alive
      <4>1. s.buf[b].group \in Groups /\ Listed(s, s.buf[b].group)
        BY <2>1, <3>2 DEF BufferOK
      <4>2. Listed(t, s.buf[b].group)
        BY <2>2, <3>2, <4>1 DEF Listed, GroupStepOK
      <4> QED BY <2>1, <2>2, <3>2, <4>1, <4>2 DEF BufferOK
    <3> QED BY <3>1, <3>2
  <2> QED BY <2>1, <2>2 DEF Follows
<1> QED BY <1>1, <1>2 DEF ServiceOK, GroupStepOK

(* A service that differs from s in one group, and in one buffer.          *)
With(s, g, q, b, r) ==
    [group |-> [s.group EXCEPT ![g] = q], buf |-> [s.buf EXCEPT ![b] = r]]

(* Buffer b of group g is r from now on, with n references, and the group  *)
(* q: what the two must satisfy.                                           *)
Fits(g, q, b, r, n) ==
    /\ r.alive => /\ r.group = g /\ q.state \in {"normal", "orphan"}
                  /\ r.ref_count = n
                  /\ r.used <=> n > 0
                  /\ r.discard => n > 0
    /\ ~r.alive => n = 0

SameBut(p, q, b, r) ==
    /\ CountsOK(q)
    /\ q.list_used \ {b} = p.list_used \ {b}
    /\ q.list_unused \ {b} = p.list_unused \ {b}
    /\ b \in q.list_used <=> r.alive /\ r.used
    /\ b \in q.list_unused <=> r.alive /\ ~r.used

(* ... and what they must be before. *)
OneStepOK(s, refs, t, h, g, b, q, r, n) ==
    /\ g \in Groups /\ b \in Buffers /\ q \in GroupType /\ r \in BufType /\ n \in Nat
    /\ t = With(s, g, q, b, r) /\ h = [refs EXCEPT ![b] = n]
    /\ s.buf[b].alive => s.buf[b].group = g
    /\ Fits(g, q, b, r, n)
    /\ q.state \in {"normal", "orphan"}
          => Listed(s, g) /\ SameBut(s.group[g], q, b, r)
    /\ q.state \notin {"normal", "orphan"}
          => \A c \in Buffers : s.buf[c].alive /\ s.buf[c].group = g => c = b

(* One group and one buffer of it change. *)
LEMMA OneStep ==
    ASSUME NEW s, NEW refs, ServiceOK(s, refs), NEW t, NEW h, NEW g, NEW b,
           NEW q, NEW r, NEW n, OneStepOK(s, refs, t, h, g, b, q, r, n)
    PROVE  /\ ServiceOK(t, h)
           /\ t.group[g] = q
           /\ \A k \in Groups : k # g => t.group[k] = s.group[k]
<1> USE DEF OneStepOK
<1>1. /\ s.group \in [Groups -> GroupType] /\ s.buf \in [Buffers -> BufType]
      /\ refs \in [Buffers -> Nat]
  BY DEF ServiceOK, Services
<1>2. /\ t.group = [s.group EXCEPT ![g] = q] /\ t.buf = [s.buf EXCEPT ![b] = r]
      /\ t = [group |-> t.group, buf |-> t.buf]
  BY DEF With
<1>3. t.group \in [Groups -> GroupType] /\ t.buf \in [Buffers -> BufType]
  BY <1>1, <1>2
<1>4. t \in Services /\ h \in [Buffers -> Nat]
  BY <1>1, <1>2, <1>3 DEF Services
<1>5. /\ t.group[g] = q /\ t.buf[b] = r /\ h[b] = n
      /\ \A k \in Groups : k # g => t.group[k] = s.group[k]
      /\ \A c \in Buffers : c # b => t.buf[c] = s.buf[c] /\ h[c] = refs[c]
  BY <1>1, <1>2
<1>6. Listed(t, g) <=> q.state \in {"normal", "orphan"}
  BY <1>5 DEF Listed
<1>7. ASSUME Listed(t, g)
      PROVE  CountsOK(t.group[g]) /\ ListsOK(t, g)
  <2>1. Listed(s, g) /\ SameBut(s.group[g], q, b, r)
    BY <1>6, <1>7
  <2>2. ListsOK(s, g)
    BY <2>1 DEF ServiceOK, GroupOK
  <2>3. r.alive => r.group = g
    BY DEF Fits
  <2>4. ASSUME NEW c \in Buffers
        PROVE  LET mine == t.buf[c].alive /\ t.buf[c].group = g
               IN  /\ c \in q.list_used   <=> mine /\ t.buf[c].used
                   /\ c \in q.list_unused <=> mine /\ ~t.buf[c].used
    <3>1. CASE c = b
      BY <1>5, <2>1, <2>3, <3>1 DEF SameBut
    <3>2. CASE c # b
      <4>1. /\ c \in q.list_used <=> c \in s.group[g].list_used
            /\ c \in q.list_unused <=> c \in s.group[g].list_unused
        BY <2>1, <3>2 DEF SameBut
      <4> QED BY <1>5, <2>2, <3>2, <4>1 DEF ListsOK
    <3> QED BY <3>1, <3>2
  <2> QED BY <1>5, <2>1, <2>4 DEF SameBut, ListsOK
<1>8. ASSUME NEW c \in Buffers
      PROVE  Follows(s, refs, t, h, g, c)
  <2>1. CASE c = b
    <3>1. r.alive => r.group = g /\ Listed(t, g)
      BY <1>6 DEF Fits
    <3>2. BufferOK(t, b, h[b])
      BY <1>5, <3>1 DEF Fits, BufferOK
    <3> QED BY <1>5, <2>1, <3>1, <3>2 DEF Follows
  <2>2. CASE c # b
    <3>1. s.buf[c].alive /\ s.buf[c].group = g => Listed(t, g)
      BY <1>6, <2>2
    <3> QED BY <1>5, <2>2, <3>1 DEF Follows
  <2> QED BY <2>1, <2>2
<1>9. GroupStepOK(s, refs, t, h, g)
  BY <1>4, <1>5, <1>7, <1>8 DEF GroupStepOK
<1>10. ServiceOK(t, h)
  BY <1>9, GroupStep
<1> QED BY <1>5, <1>10

(* What ServiceOK says of a buffer that exists, and of its group.          *)
LEMMA OfBuffer ==
    ASSUME NEW s, NEW refs, ServiceOK(s, refs), NEW b \in Buffers, s.buf[b].alive
    PROVE  /\ s.buf[b] \in BufType /\ refs[b] \in Nat
           /\ s.buf[b].ref_count = refs[b]
           /\ s.buf[b].used <=> refs[b] > 0
           /\ s.buf[b].discard => refs[b] > 0
           /\ s.buf[b].group \in Groups /\ Listed(s, s.buf[b].group)
           /\ s.group[s.buf[b].group] \in GroupType
           /\ CountsOK(s.group[s.buf[b].group])
           /\ ListsOK(s, s.buf[b].group)
           /\ b \in s.group[s.buf[b].group].list_used <=> s.buf[b].used
           /\ b \in s.group[s.buf[b].group].list_unused <=> ~s.buf[b].used
<1>1. /\ s.group \in [Groups -> GroupType] /\ s.buf \in [Buffers -> BufType]
      /\ refs \in [Buffers -> Nat]
  BY DEF ServiceOK, Services
<1>2. BufferOK(s, b, refs[b])
  BY DEF ServiceOK
<1>3. s.buf[b].group \in Groups /\ Listed(s, s.buf[b].group)
  BY <1>2 DEF BufferOK
<1>4. CountsOK(s.group[s.buf[b].group]) /\ ListsOK(s, s.buf[b].group)
  BY <1>3 DEF ServiceOK, GroupOK
<1>5. /\ b \in s.group[s.buf[b].group].list_used <=> s.buf[b].used
      /\ b \in s.group[s.buf[b].group].list_unused <=> ~s.buf[b].used
  BY <1>4 DEF ListsOK
<1> QED BY <1>1, <1>2, <1>3, <1>4, <1>5 DEF BufferOK

AddRef(refs, b) == [refs EXCEPT ![b] = refs[b] + 1]

(* inc_buffer_ref_no_lock adds one reference. *)
LEMMA IncRefOK ==
    ASSUME NEW s, NEW refs, ServiceOK(s, refs), NEW b \in Buffers, s.buf[b].alive
    PROVE  /\ ServiceOK(IncRef(s, b), AddRef(refs, b))
           /\ SameStates(s, IncRef(s, b))
<1> SUFFICES ASSUME NEW t, t = IncRef(s, b), NEW h, h = [refs EXCEPT ![b] = refs[b] + 1]
             PROVE  /\ ServiceOK(t, h)
                    /\ \A k \in Groups : t.group[k].state = s.group[k].state
  BY DEF AddRef, SameStates
<1>1. PICK g, p : g = s.buf[b].group /\ p = s.group[g]
  OBVIOUS
<1>2. PICK r : r = [s.buf[b] EXCEPT !.ref_count = s.buf[b].ref_count + 1, !.used = TRUE]
  OBVIOUS
<1>3. PICK n : n = refs[b] + 1
  OBVIOUS
<1>4. /\ s.group \in [Groups -> GroupType] /\ s.buf \in [Buffers -> BufType]
      /\ s \in Services
  BY DEF ServiceOK, Services
<1>5. /\ g \in Groups /\ p \in GroupType /\ Listed(s, g) /\ CountsOK(p)
      /\ s.buf[b] \in BufType /\ refs[b] \in Nat /\ s.buf[b].ref_count = refs[b]
      /\ s.buf[b].used \/ ~s.buf[b].used
      /\ b \in p.list_used <=> s.buf[b].used
      /\ b \in p.list_unused <=> ~s.buf[b].used
  BY <1>1, OfBuffer
<1>6. n \in Nat /\ n > 0
  BY <1>3, <1>5
<1>7. r \in BufType /\ r.alive /\ r.group = g /\ r.used /\ r.ref_count = n
  <2>1. [s.buf[b] EXCEPT !.ref_count = s.buf[b].ref_count + 1] \in BufType
    BY <1>5, BufEdit DEF BufType
  <2>2. r \in BufType
    BY <1>2, <2>1, BufEdit
  <2> QED BY <1>1, <1>2, <1>3, <1>5, <2>2 DEF BufType
<1>8. ASSUME NEW q \in GroupType, q.state = p.state, t = With(s, g, q, b, r),
             SameBut(p, q, b, r)
      PROVE  ServiceOK(t, h) /\ \A k \in Groups : t.group[k].state = s.group[k].state
  <2>1. q.state \in {"normal", "orphan"}
    BY <1>1, <1>5, <1>8 DEF Listed
  <2>2. Fits(g, q, b, r, n)
    BY <1>6, <1>7, <2>1 DEF Fits
  <2>3. OneStepOK(s, refs, t, h, g, b, q, r, n)
    BY <1>1, <1>3, <1>5, <1>6, <1>7, <1>8, <2>1, <2>2 DEF OneStepOK
  <2>4. /\ ServiceOK(t, h) /\ t.group[g] = q
        /\ \A k \in Groups : k # g => t.group[k] = s.group[k]
    BY <2>3, OneStep
  <2> QED BY <1>1, <1>8, <2>4
<1>9. CASE s.buf[b].used
  <2>1. t = With(s, g, p, b, r)
    <3>1. t = [s EXCEPT !.buf = [s.buf EXCEPT ![b] = r]]
      BY <1>2, <1>4, <1>9 DEF IncRef, Services
    <3>2. s.group = [s.group EXCEPT ![g] = p]
      BY <1>1, <1>4, <1>5
    <3> QED BY <1>4, <3>1, <3>2 DEF With, Services
  <2>2. SameBut(p, p, b, r)
    BY <1>5, <1>7, <1>9 DEF SameBut
  <2> QED BY <1>5, <1>8, <2>1, <2>2
<1>10. CASE ~s.buf[b].used
  <2>1. PICK q : q = Taken(p, b)
    OBVIOUS
  <2>2. /\ q \in GroupType /\ q.state = p.state /\ CountsOK(q)
        /\ q.list_unused = p.list_unused \ {b} /\ q.list_used = p.list_used \cup {b}
    BY <1>5, <1>10, <2>1, GroupTake
  <2>3. t = With(s, g, q, b, r)
    <3>1. t = [group |-> t.group, buf |-> t.buf]
      BY <1>4, <1>10 DEF IncRef, Services
    <3>2. t.buf = [s.buf EXCEPT ![b] = r]
      BY <1>2, <1>4, <1>10 DEF IncRef, Services
    <3>3. t.group = [s.group EXCEPT ![g] = q]
      BY <1>1, <1>4, <1>5, <1>10, <2>1 DEF IncRef, Services, Taken
    <3> QED BY <3>1, <3>2, <3>3 DEF With
  <2>4. SameBut(p, q, b, r)
    BY <1>7, <2>2 DEF SameBut
  <2> QED BY <1>8, <2>2, <2>3, <2>4
<1> QED BY <1>5, <1>9, <1>10

SameBuffers(s, t, D) == \A b \in Buffers : b \notin D => t.buf[b] = s.buf[b]

(* Buffers that are given up: unused ones of one group. *)
LEMMA DropUnusedOK ==
    ASSUME NEW s, NEW refs, ServiceOK(s, refs), NEW g \in Groups, Listed(s, g),
           NEW D \in SUBSET s.group[g].list_unused
    PROVE  /\ ServiceOK(DropUnused(s, g, D), refs)
           /\ DropUnused(s, g, D).group = [s.group EXCEPT ![g] = Dropped(s.group[g], D)]
           /\ DropUnused(s, g, D).group[g].list_unused = s.group[g].list_unused \ D
           /\ DropUnused(s, g, D).group[g].list_used = s.group[g].list_used
           /\ SameStates(s, DropUnused(s, g, D))
           /\ SameBuffers(s, DropUnused(s, g, D), D)
<1> SUFFICES ASSUME NEW t, t = DropUnused(s, g, D)
             PROVE  /\ ServiceOK(t, refs)
                    /\ t.group = [s.group EXCEPT ![g] = Dropped(s.group[g], D)]
                    /\ t.group[g].list_unused = s.group[g].list_unused \ D
                    /\ t.group[g].list_used = s.group[g].list_used
                    /\ \A k \in Groups : t.group[k].state = s.group[k].state
                    /\ \A b \in Buffers : b \notin D => t.buf[b] = s.buf[b]
  BY DEF SameStates, SameBuffers
<1>1. PICK p, q : p = s.group[g] /\ q = Dropped(p, D)
  OBVIOUS
<1>2. /\ s.group \in [Groups -> GroupType] /\ s.buf \in [Buffers -> BufType]
      /\ s \in Services /\ refs \in [Buffers -> Nat]
      /\ p \in GroupType /\ CountsOK(p) /\ ListsOK(s, g)
      /\ p.list_unused \in SUBSET Buffers
  BY <1>1 DEF ServiceOK, Services, GroupOK, GroupType
<1>3. /\ q \in GroupType /\ q.state = p.state /\ CountsOK(q)
      /\ q.list_unused = p.list_unused \ D /\ q.list_used = p.list_used
  BY <1>1, <1>2, GroupDrop
<1>4. NoBuffer \in BufType /\ ~NoBuffer.alive
  BY DEF NoBuffer, BufType
<1>5. /\ t = [group |-> t.group, buf |-> t.buf]
      /\ t.group = [s.group EXCEPT ![g] = q]
      /\ t.buf = [b \in Buffers |-> IF b \in D THEN NoBuffer ELSE s.buf[b]]
  <2>1. t = [group |-> t.group, buf |-> t.buf]
    BY <1>2 DEF DropUnused, Services
  <2>2. t.buf = [b \in Buffers |-> IF b \in D THEN NoBuffer ELSE s.buf[b]]
    BY <1>2 DEF DropUnused, Services
  <2>3. t.group = [s.group EXCEPT ![g] = q]
    BY <1>1, <1>2 DEF DropUnused, Services, Dropped
  <2> QED BY <2>1, <2>2, <2>3
<1>6. t.group \in [Groups -> GroupType] /\ t.buf \in [Buffers -> BufType]
  BY <1>2, <1>3, <1>4, <1>5
<1>7. t \in Services
  BY <1>5, <1>6 DEF Services
<1>8. t.group[g] = q /\ \A k \in Groups : k # g => t.group[k] = s.group[k]
  BY <1>2, <1>5
<1>9. \A b \in Buffers : /\ b \in D => t.buf[b] = NoBuffer
                         /\ b \notin D => t.buf[b] = s.buf[b]
  BY <1>5
<1>10. Listed(t, g)
  BY <1>1, <1>3, <1>8 DEF Listed
<1>11. ASSUME NEW b \in Buffers
       PROVE  LET mine == t.buf[b].alive /\ t.buf[b].group = g
              IN  /\ b \in q.list_used   <=> mine /\ t.buf[b].used
                  /\ b \in q.list_unused <=> mine /\ ~t.buf[b].used
  <2>1. /\ b \in p.list_used   <=> s.buf[b].alive /\ s.buf[b].group = g /\ s.buf[b].used
        /\ b \in p.list_unused <=> s.buf[b].alive /\ s.buf[b].group = g /\ ~s.buf[b].used
    BY <1>1, <1>2 DEF ListsOK
  <2>2. CASE b \in D
    <3>1. b \in p.list_unused /\ b \notin p.list_used
      BY <1>1, <2>1, <2>2
    <3> QED BY <1>3, <1>4, <1>9, <2>2, <3>1
  <2>3. CASE b \notin D
    BY <1>3, <1>9, <2>1, <2>3
  <2> QED BY <2>2, <2>3
<1>12. ListsOK(t, g)
  BY <1>8, <1>11 DEF ListsOK
<1>13. ASSUME NEW b \in Buffers
       PROVE  Follows(s, refs, t, refs, g, b)
  <2>1. CASE b \in D
    <3>1. s.buf[b].alive /\ s.buf[b].group = g /\ ~s.buf[b].used
      BY <1>1, <1>2, <2>1 DEF ListsOK
    <3>2. refs[b] = 0
      BY <1>2, <3>1, OfBuffer
    <3> QED BY <1>4, <1>9, <2>1, <3>1, <3>2 DEF Follows, BufferOK
  <2>2. CASE b \notin D
    BY <1>9, <1>10, <2>2 DEF Follows
  <2> QED BY <2>1, <2>2
<1>14. GroupStepOK(s, refs, t, refs, g)
  BY <1>2, <1>3, <1>7, <1>8, <1>12, <1>13 DEF GroupStepOK
<1>15. ServiceOK(t, refs)
  BY <1>14, GroupStep
<1>16. \A k \in Groups : t.group[k].state = s.group[k].state
  BY <1>1, <1>3, <1>8
<1> QED BY <1>1, <1>3, <1>5, <1>8, <1>9, <1>15, <1>16

(* mpp_buffer_create at a free address, in a group that is not destroyed.  *)
LEMMA CreateOK ==
    ASSUME NEW s, NEW refs, ServiceOK(s, refs), NEW g \in Groups, Listed(s, g),
           NEW size \in Nat, NEW b \in Buffers, ~s.buf[b].alive, NEW take \in BOOLEAN
    PROVE  /\ ServiceOK(Create(s, g, size, b, take),
                        IF take THEN [refs EXCEPT ![b] = 1] ELSE refs)
           /\ SameStates(s, Create(s, g, size, b, take))
<1> SUFFICES ASSUME NEW t, t = Create(s, g, size, b, take),
                    NEW h, h = IF take THEN [refs EXCEPT ![b] = 1] ELSE refs
             PROVE  /\ ServiceOK(t, h)
                    /\ \A k \in Groups : t.group[k].state = s.group[k].state
  BY DEF SameStates
<1>1. PICK p, q, r, u : /\ p = s.group[g] /\ q = Added(p, b)
                        /\ r = [NoBuffer EXCEPT !.alive = TRUE, !.group = g, !.size = size]
                        /\ u = With(s, g, q, b, r)
  OBVIOUS
<1>2. /\ s.group \in [Groups -> GroupType] /\ s.buf \in [Buffers -> BufType]
      /\ s \in Services /\ refs \in [Buffers -> Nat]
      /\ p \in GroupType /\ CountsOK(p) /\ ListsOK(s, g)
  BY <1>1 DEF ServiceOK, Services, GroupOK
<1>3. refs[b] = 0 /\ b \notin p.list_used /\ b \notin p.list_unused
  BY <1>1, <1>2 DEF ServiceOK, BufferOK, ListsOK
<1>4. /\ q \in GroupType /\ q.state = p.state /\ CountsOK(q)
      /\ q.list_unused = p.list_unused \cup {b} /\ q.list_used = p.list_used
  BY <1>1, <1>2, <1>3, GroupAdd
<1>5. /\ r \in BufType /\ r.alive /\ r.group = g /\ ~r.used /\ ~r.discard
      /\ r.ref_count = 0
  BY <1>1 DEF NoBuffer, BufType
<1>6. q.state \in {"normal", "orphan"}
  BY <1>1, <1>4 DEF Listed
<1>7. Fits(g, q, b, r, 0)
  BY <1>5, <1>6 DEF Fits
<1>8. SameBut(p, q, b, r)
  BY <1>3, <1>4, <1>5 DEF SameBut
<1>9. refs = [refs EXCEPT ![b] = 0]
  BY <1>2, <1>3
<1>10. /\ ServiceOK(u, refs) /\ u.group[g] = q
       /\ \A k \in Groups : k # g => u.group[k] = s.group[k]
  <2>1. OneStepOK(s, refs, u, refs, g, b, q, r, 0)
    BY <1>1, <1>4, <1>5, <1>6, <1>7, <1>8, <1>9 DEF OneStepOK
  <2> QED BY <2>1, OneStep
<1>11. u.buf[b] = r /\ u.buf[b].alive
  BY <1>1, <1>2, <1>5 DEF With
<1>12. \A k \in Groups : u.group[k].state = s.group[k].state
  BY <1>1, <1>4, <1>10
<1>13. t = IF take THEN IncRef(u, b) ELSE u
  <2>1. PICK v : v = Create(s, g, size, b, FALSE)
    OBVIOUS
  <2>2. v = [group |-> v.group, buf |-> v.buf]
    BY <1>2, <2>1 DEF Create, Services
  <2>3. v.buf = [s.buf EXCEPT ![b] = r]
    BY <1>1, <1>2, <2>1 DEF Create, Services
  <2>4. v.group = [s.group EXCEPT ![g] = q]
    BY <1>1, <1>2, <2>1 DEF Create, Services, Added
  <2>5. v = u
    BY <1>1, <2>2, <2>3, <2>4 DEF With
  <2>6. t = IF take THEN IncRef(v, b) ELSE v
    BY <2>1 DEF Create
  <2> QED BY <2>5, <2>6
<1>14. CASE take
  <2>1. h = AddRef(refs, b) /\ t = IncRef(u, b)
    BY <1>3, <1>13, <1>14 DEF AddRef
  <2>2. ServiceOK(t, h) /\ SameStates(u, t)
    <3>1. ServiceOK(u, refs) /\ u.buf[b].alive
      BY <1>10, <1>11
    <3> QED BY <2>1, <3>1, IncRefOK
  <2> QED BY <1>12, <2>2 DEF SameStates
<1>15. CASE ~take
  BY <1>10, <1>12, <1>13, <1>15
<1> QED BY <1>14, <1>15

DropRef(refs, b) == [refs EXCEPT ![b] = refs[b] - 1]

(* mpp_buffer_ref_dec takes one reference away, and with the last one puts *)
(* the buffer back or destroys it, and with it perhaps an orphaned group.  *)
LEMMA RefDecOK ==
    ASSUME NEW s, NEW refs, ServiceOK(s, refs), NEW b \in Buffers, refs[b] > 0
    PROVE  /\ ServiceOK(RefDec(s, b), DropRef(refs, b))
           /\ NormalKept(s, RefDec(s, b))
<1> SUFFICES ASSUME NEW t, t = RefDec(s, b), NEW h, h = [refs EXCEPT ![b] = refs[b] - 1]
             PROVE  /\ ServiceOK(t, h)
                    /\ \A k \in Groups : s.group[k].state = "normal"
                          => t.group[k].state = "normal"
  BY DEF DropRef, NormalKept
<1>1. PICK g, p, n : g = s.buf[b].group /\ p = s.group[g] /\ n = refs[b] - 1
  OBVIOUS
<1>2. /\ s.group \in [Groups -> GroupType] /\ s.buf \in [Buffers -> BufType]
      /\ s \in Services /\ refs \in [Buffers -> Nat]
  BY DEF ServiceOK, Services
<1>3. s.buf[b].alive
  BY <1>2 DEF ServiceOK, BufferOK
<1>4. /\ g \in Groups /\ p \in GroupType /\ Listed(s, g) /\ CountsOK(p) /\ ListsOK(s, g)
      /\ s.buf[b] \in BufType /\ refs[b] \in Nat /\ s.buf[b].ref_count = refs[b]
      /\ s.buf[b].used /\ b \in p.list_used /\ b \notin p.list_unused
  BY <1>1, <1>3, OfBuffer
<1>5. n \in Nat /\ p.state \in {"normal", "orphan"}
  BY <1>1, <1>4 DEF Listed
<1>6. ASSUME NEW q \in GroupType, NEW r \in BufType, t = With(s, g, q, b, r),
             q.state = p.state, Fits(g, q, b, r, n), SameBut(p, q, b, r)
      PROVE  /\ ServiceOK(t, h)
             /\ \A k \in Groups : s.group[k].state = "normal" => t.group[k].state = "normal"
  <2>1. OneStepOK(s, refs, t, h, g, b, q, r, n)
    BY <1>1, <1>4, <1>5, <1>6 DEF OneStepOK
  <2>2. /\ ServiceOK(t, h) /\ t.group[g] = q
        /\ \A k \in Groups : k # g => t.group[k] = s.group[k]
    BY <2>1, OneStep
  <2> QED BY <1>1, <1>6, <2>2
<1>7. CASE s.buf[b].ref_count > 1
  <2>1. PICK r : r = [s.buf[b] EXCEPT !.ref_count = s.buf[b].ref_count - 1]
    OBVIOUS
  <2>2. s.buf[b].ref_count - 1 \in Nat
    BY <1>4, <1>7
  <2>3. r \in BufType
    BY <1>4, <2>1, <2>2, BufEdit
  <2>4. /\ r.alive /\ r.group = g /\ r.used /\ r.ref_count = n /\ n > 0
    BY <1>1, <1>3, <1>4, <1>7, <2>1 DEF BufType
  <2>5. t = With(s, g, p, b, r)
    <3>1. t = [s EXCEPT !.buf = [s.buf EXCEPT ![b] = r]]
      BY <1>2, <1>7, <2>1 DEF RefDec, Services
    <3>2. s.group = [s.group EXCEPT ![g] = p]
      BY <1>1, <1>2, <1>4
    <3> QED BY <1>2, <3>1, <3>2 DEF With, Services
  <2>6. Fits(g, p, b, r, n)
    BY <1>5, <2>4 DEF Fits
  <2>7. SameBut(p, p, b, r)
    BY <1>4, <2>4 DEF SameBut
  <2> QED BY <1>4, <1>6, <2>3, <2>5, <2>6, <2>7
<1>8. CASE ~(s.buf[b].ref_count > 1)
  <2>1. PICK p0, r0, last :
           /\ p0 = [p EXCEPT !.list_used = p.list_used \ {b}]
           /\ r0 = [s.buf[b] EXCEPT !.ref_count = 0, !.used = FALSE]
           /\ last = [s EXCEPT !.buf[b].ref_count = 0, !.buf[b].used = FALSE,
                               !.group[g].list_used = @ \ {b}]
    OBVIOUS
  <2>2. n = 0
    BY <1>1, <1>4, <1>8
  <2>3. /\ r0 \in BufType /\ r0.alive /\ r0.group = g /\ ~r0.used /\ r0.ref_count = 0
        /\ r0.discard = s.buf[b].discard
    <3>1. [s.buf[b] EXCEPT !.ref_count = 0] \in BufType
      BY <1>4, BufEdit
    <3>2. r0 \in BufType
      BY <2>1, <3>1, BufEdit
    <3> QED BY <1>1, <1>3, <1>4, <2>1, <3>2 DEF BufType
  <2>4. /\ last = [group |-> last.group, buf |-> last.buf]
        /\ last.buf = [s.buf EXCEPT ![b] = r0]
        /\ last.group = [s.group EXCEPT ![g] = p0]
    <3>1. last = [group |-> last.group, buf |-> last.buf]
      BY <1>2, <2>1 DEF Services
    <3>2. last.buf = [s.buf EXCEPT ![b] = r0]
      BY <1>2, <2>1 DEF Services
    <3>3. last.group = [s.group EXCEPT ![g] = p0]
      BY <1>1, <1>2, <2>1 DEF Services
    <3> QED BY <3>1, <3>2, <3>3
  <2>5. last.buf[b] = r0 /\ last.group[g] = p0
    BY <1>2, <1>4, <2>4
  <2>6. p0.state = p.state /\ p0.misc = p.misc
    BY <1>4, <2>1 DEF GroupType
  <2>7. t = IF Listed(Retire(last, b), g)
            THEN [Retire(last, b) EXCEPT !.group[g].count_used = @ - 1]
            ELSE Retire(last, b)
    <3> DEFINE l == [s EXCEPT !.buf[b].ref_count = 0, !.buf[b].used = FALSE,
                              !.group[s.buf[b].group].list_used = @ \ {b}]
    <3>1. t = IF Listed(Retire(l, b), s.buf[b].group)
              THEN [Retire(l, b) EXCEPT !.group[s.buf[b].group].count_used = @ - 1]
              ELSE Retire(l, b)
      BY <1>8 DEF RefDec
    <3>2. l = last
      BY <1>1, <2>1
    <3> HIDE DEF l
    <3> QED BY <1>1, <3>1, <3>2
  <2>8. PICK v : v = Retire(last, b)
    OBVIOUS
  <2>9. t = IF Listed(v, g) THEN [v EXCEPT !.group[g].count_used = @ - 1] ELSE v
    BY <2>7, <2>8
  <2>10. CASE ~(p.misc \/ s.buf[b].discard)
    <3>1. PICK q, p1 : /\ q = Returned(p, b)
                       /\ p1 = [p0 EXCEPT !.list_unused = p0.list_unused \cup {b},
                                          !.count_unused = p0.count_unused + 1]
      OBVIOUS
    <3>2. v = [last EXCEPT !.group[g].list_unused = @ \cup {b},
                           !.group[g].count_unused = @ + 1]
      BY <2>3, <2>5, <2>6, <2>8, <2>10 DEF Retire
    <3>3. /\ v = [group |-> v.group, buf |-> v.buf]
          /\ v.buf = last.buf /\ v.group = [last.group EXCEPT ![g] = p1]
      <4>1. v = [group |-> v.group, buf |-> v.buf] /\ v.buf = last.buf
        BY <2>4, <3>2
      <4>2. v.group = [last.group EXCEPT ![g] = p1]
        BY <2>4, <2>5, <3>1, <3>2
      <4> QED BY <4>1, <4>2
    <3>4. v.group = [s.group EXCEPT ![g] = p1] /\ v.group[g] = p1
      BY <1>2, <1>4, <2>4, <3>3
    <3>5. p1.state = p.state /\ Listed(v, g)
      BY <1>4, <1>5, <2>1, <3>1, <3>4 DEF GroupType, Listed
    <3>6. q = [p1 EXCEPT !.count_used = p1.count_used - 1]
      BY <1>4, <2>1, <3>1 DEF GroupType, Returned
    <3>7. t = [v EXCEPT !.group[g].count_used = @ - 1]
      BY <2>9, <3>5
    <3>8. t = With(s, g, q, b, r0)
      <4>1. t = [group |-> t.group, buf |-> t.buf] /\ t.buf = v.buf
        BY <3>3, <3>7
      <4>2. t.group = [v.group EXCEPT ![g] = q]
        BY <3>3, <3>4, <3>6, <3>7
      <4>3. t.group = [s.group EXCEPT ![g] = q]
        BY <1>2, <1>4, <3>4, <4>2
      <4> QED BY <2>4, <3>3, <4>1, <4>3 DEF With
    <3>9. /\ q \in GroupType /\ q.state = p.state /\ CountsOK(q)
          /\ q.list_unused = p.list_unused \cup {b} /\ q.list_used = p.list_used \ {b}
      BY <1>4, <3>1, GroupReturn
    <3>10. Fits(g, q, b, r0, n)
      BY <1>5, <2>2, <2>3, <2>10, <3>9 DEF Fits
    <3>11. SameBut(p, q, b, r0)
      BY <2>3, <3>9 DEF SameBut
    <3> QED BY <1>6, <2>3, <3>8, <3>9, <3>10, <3>11
  <2>11. CASE p.misc \/ s.buf[b].discard
    <3>1. PICK o, q, x : /\ o = Lost(p, b) /\ q = Uncounted(o)
                         /\ x = [last EXCEPT !.buf[b] = NoBuffer,
                                             !.group[g].buffer_count = @ - 1]
      OBVIOUS
    <3>2. NoBuffer \in BufType /\ ~NoBuffer.alive
      BY DEF NoBuffer, BufType
    <3>3. /\ o \in GroupType /\ o.state = p.state
          /\ o.buffer_count = 0 => p.list_used = {b} /\ p.list_unused = {}
          /\ q \in GroupType /\ q.state = p.state /\ CountsOK(q)
          /\ q.list_unused = p.list_unused /\ q.list_used = p.list_used \ {b}
      BY <1>4, <3>1, GroupLose
    <3>4. v = IF x.group[g].state = "orphan" /\ x.group[g].buffer_count = 0
              THEN DestroyGroup(x, g) ELSE x
      <4>1. v = DeinitBuffer(last, b)
        BY <2>3, <2>5, <2>6, <2>8, <2>11 DEF Retire
      <4>2. last.buf[b].group = g
        BY <2>3, <2>5
      <4> QED BY <3>1, <4>1, <4>2 DEF DeinitBuffer
    <3>5. x = With(s, g, o, b, NoBuffer)
      <4>1. x = [group |-> x.group, buf |-> x.buf]
        BY <2>4, <3>1
      <4>2. x.buf = [last.buf EXCEPT ![b] = NoBuffer]
        BY <2>4, <3>1
      <4>3. o = [p0 EXCEPT !.buffer_count = p0.buffer_count - 1]
        BY <1>4, <2>1, <3>1 DEF GroupType, Lost
      <4>4. x.group = [last.group EXCEPT ![g] = o]
        BY <2>4, <2>5, <3>1, <4>3
      <4>5. x.buf = [s.buf EXCEPT ![b] = NoBuffer]
        BY <1>2, <2>4, <4>2
      <4>6. x.group = [s.group EXCEPT ![g] = o]
        BY <1>2, <2>4, <4>4
      <4> QED BY <4>1, <4>5, <4>6 DEF With
    <3>6. /\ x.group = [s.group EXCEPT ![g] = o] /\ x.buf = [s.buf EXCEPT ![b] = NoBuffer]
          /\ x.group[g] = o
      BY <1>2, <1>4, <3>5 DEF With
    <3>7. CASE ~(o.state = "orphan" /\ o.buffer_count = 0)
      <4>1. v = x /\ Listed(v, g)
        BY <1>5, <3>3, <3>4, <3>6, <3>7 DEF Listed
      <4>2. t = [x EXCEPT !.group[g].count_used = @ - 1]
        BY <2>9, <4>1
      <4>3. t = With(s, g, q, b, NoBuffer)
        <5>1. t = [group |-> t.group, buf |-> t.buf] /\ t.buf = x.buf
          BY <3>5, <4>2 DEF With
        <5>2. t.group = [x.group EXCEPT ![g] = q]
          BY <3>1, <3>5, <3>6, <4>2 DEF With, Uncounted
        <5>3. t.group = [s.group EXCEPT ![g] = q]
          BY <1>2, <1>4, <3>6, <5>2
        <5> QED BY <3>6, <5>1, <5>3 DEF With
      <4>4. Fits(g, q, b, NoBuffer, n)
        BY <2>2, <3>2 DEF Fits
      <4>5. SameBut(p, q, b, NoBuffer)
        BY <1>4, <3>2, <3>3 DEF SameBut
      <4> QED BY <1>6, <3>2, <3>3, <4>3, <4>4, <4>5
    <3>8. CASE o.state = "orphan" /\ o.buffer_count = 0
      <4>1. PICK z : z = [NoGroup EXCEPT !.state =
                             IF o.count_used = 0 /\ o.count_unused = 0
                             THEN "freed" ELSE "misfreed"]
        OBVIOUS
      <4>2. z \in GroupType /\ z.state \in {"freed", "misfreed"}
        <5>1. NoGroup \in GroupType
          BY DEF NoGroup, GroupType, States, Modes
        <5>2. z.state \in {"freed", "misfreed"}
          BY <4>1 DEF NoGroup
        <5> QED BY <4>1, <5>1, <5>2, GroupEdit DEF States
      <4>3. v = [x EXCEPT !.group[g] = z]
        BY <3>4, <3>6, <3>8, <4>1 DEF DestroyGroup
      <4>4. /\ v = [group |-> v.group, buf |-> v.buf] /\ v.buf = x.buf
            /\ v.group = [x.group EXCEPT ![g] = z]
        BY <3>5, <4>3 DEF With
      <4>5. v.group = [s.group EXCEPT ![g] = z] /\ v.group[g] = z
        BY <1>2, <1>4, <3>6, <4>4
      <4>6. t = v
        BY <2>9, <4>2, <4>5 DEF Listed
      <4>7. t = With(s, g, z, b, NoBuffer)
        BY <3>6, <4>4, <4>5, <4>6 DEF With
      <4>8. \A c \in Buffers : s.buf[c].alive /\ s.buf[c].group = g => c = b
        <5>1. p.list_used = {b} /\ p.list_unused = {}
          BY <3>3, <3>8
        <5>2. \A c \in Buffers : s.buf[c].alive /\ s.buf[c].group = g
                                 => c \in p.list_used \/ c \in p.list_unused
          BY <1>1, <1>4 DEF ListsOK
        <5> QED BY <5>1, <5>2
      <4>9. Fits(g, z, b, NoBuffer, n)
        BY <2>2, <3>2 DEF Fits
      <4>10. OneStepOK(s, refs, t, h, g, b, z, NoBuffer, n)
        BY <1>1, <1>4, <1>5, <3>2, <4>2, <4>7, <4>8, <4>9 DEF OneStepOK
      <4>11. ServiceOK(t, h) /\ \A k \in Groups : k # g => t.group[k] = s.group[k]
        BY <4>10, OneStep
      <4> QED BY <1>1, <3>3, <3>8, <4>11
    <3> QED BY <3>7, <3>8
  <2> QED BY <2>10, <2>11
<1> QED BY <1>7, <1>8

(* A group is given other contents, its buffers stay as they are. *)
LEMMA GroupChange ==
    ASSUME NEW s, NEW refs, ServiceOK(s, refs), NEW g \in Groups, NEW q \in GroupType,
           q.state \in {"normal", "orphan"} =>
               /\ CountsOK(q)
               /\ \/ /\ Listed(s, g)
                     /\ q.list_used = s.group[g].list_used
                     /\ q.list_unused = s.group[g].list_unused
                  \/ /\ ~Listed(s, g)
                     /\ q.list_used = {} /\ q.list_unused = {},
           q.state \notin {"normal", "orphan"} =>
               ~Listed(s, g) \/ (s.group[g].list_used = {} /\ s.group[g].list_unused = {})
    PROVE  ServiceOK([s EXCEPT !.group[g] = q], refs)
<1>1. PICK t : t = [s EXCEPT !.group[g] = q]
  OBVIOUS
<1>2. /\ s.group \in [Groups -> GroupType] /\ s.buf \in [Buffers -> BufType]
      /\ s \in Services /\ refs \in [Buffers -> Nat]
  BY DEF ServiceOK, Services
<1>3. /\ t = [group |-> t.group, buf |-> t.buf]
      /\ t.group = [s.group EXCEPT ![g] = q] /\ t.buf = s.buf
  BY <1>1, <1>2 DEF Services
<1>4. t.group \in [Groups -> GroupType]
  BY <1>2, <1>3
<1>5. t \in Services
  BY <1>2, <1>3, <1>4 DEF Services
<1>6. t.group[g] = q /\ \A k \in Groups : k # g => t.group[k] = s.group[k]
  BY <1>2, <1>3
<1>7. Listed(t, g) <=> q.state \in {"normal", "orphan"}
  BY <1>6 DEF Listed
<1>8. Listed(s, g) => ListsOK(s, g)
  BY DEF ServiceOK, GroupOK
<1>9. ASSUME NEW b \in Buffers, s.buf[b].alive, s.buf[b].group = g
      PROVE  Listed(s, g) /\ (b \in s.group[g].list_used \/ b \in s.group[g].list_unused)
  <2>1. Listed(s, g)
    BY <1>9 DEF ServiceOK, BufferOK
  <2> QED BY <1>8, <1>9, <2>1 DEF ListsOK
<1>10. ASSUME Listed(t, g)
       PROVE  CountsOK(t.group[g]) /\ ListsOK(t, g)
  <2>1. CASE Listed(s, g)
    BY <1>3, <1>6, <1>7, <1>8, <1>10, <2>1 DEF ListsOK
  <2>2. CASE ~Listed(s, g)
    BY <1>3, <1>6, <1>7, <1>9, <1>10, <2>2 DEF ListsOK
  <2> QED BY <2>1, <2>2
<1>11. ASSUME NEW b \in Buffers
       PROVE  Follows(s, refs, t, refs, g, b)
  <2>1. s.buf[b].alive /\ s.buf[b].group = g => Listed(t, g)
    BY <1>7, <1>9
  <2> QED BY <1>3, <2>1 DEF Follows
<1>12. GroupStepOK(s, refs, t, refs, g)
  BY <1>2, <1>5, <1>6, <1>10, <1>11 DEF GroupStepOK
<1>13. ServiceOK(t, refs)
  BY <1>12, GroupStep
<1> QED BY <1>1, <1>13

(* mpp_buffer_group_reset *)
LEMMA GroupResetOK ==
    ASSUME NEW s, NEW refs, ServiceOK(s, refs), NEW g \in Groups, Listed(s, g)
    PROVE  /\ ServiceOK(GroupReset(s, g), refs)
           /\ SameStates(s, GroupReset(s, g))
<1>1. PICK p, D, t : /\ p = s.group[g] /\ D = p.list_unused
                     /\ t = [s EXCEPT !.buf = [b \in DOMAIN @ |->
                                IF b \in s.group[g].list_used
                                THEN [@[b] EXCEPT !.discard = TRUE] ELSE @[b]]]
  OBVIOUS
<1>2. /\ s.group \in [Groups -> GroupType] /\ s.buf \in [Buffers -> BufType]
      /\ s \in Services /\ refs \in [Buffers -> Nat]
      /\ p \in GroupType /\ CountsOK(p) /\ ListsOK(s, g)
  BY <1>1 DEF ServiceOK, Services, GroupOK
<1>3. /\ t = [group |-> t.group, buf |-> t.buf] /\ t.group = s.group
      /\ t.buf = [b \in Buffers |-> IF b \in p.list_used
                                    THEN [s.buf[b] EXCEPT !.discard = TRUE] ELSE s.buf[b]]
  BY <1>1, <1>2 DEF Services
<1>4. \A b \in Buffers : [s.buf[b] EXCEPT !.discard = TRUE] \in BufType
  BY <1>2, BufEdit
<1>5. t.buf \in [Buffers -> BufType]
  BY <1>2, <1>3, <1>4
<1>6. t \in Services
  BY <1>2, <1>3, <1>5 DEF Services
<1>7. ASSUME NEW b \in Buffers
      PROVE  /\ t.buf[b].alive = s.buf[b].alive /\ t.buf[b].group = s.buf[b].group
             /\ t.buf[b].used = s.buf[b].used /\ t.buf[b].ref_count = s.buf[b].ref_count
             /\ b \in p.list_used \/ t.buf[b] = s.buf[b]
  BY <1>2, <1>3 DEF BufType
<1>8. ListsOK(t, g)
  BY <1>2, <1>3, <1>7 DEF ListsOK
<1>9. Listed(t, g) /\ t.group[g] = p
  BY <1>1, <1>3 DEF Listed
<1>10. ASSUME NEW b \in Buffers
       PROVE  Follows(s, refs, t, refs, g, b)
  <2>1. CASE b \in p.list_used
    <3>1. s.buf[b].alive /\ s.buf[b].group = g /\ s.buf[b].used
      BY <1>1, <1>2, <2>1 DEF ListsOK
    <3>2. s.buf[b].ref_count = refs[b] /\ refs[b] > 0
      BY <3>1, OfBuffer
    <3>3. BufferOK(t, b, refs[b])
      BY <1>7, <1>9, <3>1, <3>2 DEF BufferOK
    <3> QED BY <1>7, <3>1, <3>3 DEF Follows
  <2>2. CASE b \notin p.list_used
    BY <1>7, <1>9, <2>2 DEF Follows
  <2> QED BY <2>1, <2>2
<1>11. GroupStepOK(s, refs, t, refs, g)
  BY <1>2, <1>3, <1>6, <1>8, <1>9, <1>10 DEF GroupStepOK
<1>12. ServiceOK(t, refs)
  BY <1>11, GroupStep
<1>13. D \in SUBSET t.group[g].list_unused
  BY <1>1, <1>9
<1>14. ServiceOK(DropUnused(t, g, D), refs) /\ SameStates(t, DropUnused(t, g, D))
  BY <1>9, <1>12, <1>13, DropUnusedOK
<1>15. GroupReset(s, g) = DropUnused(t, g, D)
  BY <1>1 DEF GroupReset
<1> QED BY <1>3, <1>14, <1>15 DEF SameStates

(* MppBufferService::put_group *)
LEMMA PutGroupOK ==
    ASSUME NEW s, NEW refs, ServiceOK(s, refs), NEW g \in Groups, Listed(s, g)
    PROVE  /\ ServiceOK(PutGroup(s, g), refs)
           /\ \A k \in Groups : k # g => PutGroup(s, g).group[k] = s.group[k]
<1>1. PICK p, t : p = s.group[g] /\ t = DropUnused(s, g, p.list_unused)
  OBVIOUS
<1>2. s.group \in [Groups -> GroupType]
  BY DEF ServiceOK, Services
<1>3. /\ ServiceOK(t, refs) /\ SameStates(s, t)
      /\ t.group[g].list_unused = {} /\ t.group[g].list_used = p.list_used
      /\ t.group = [s.group EXCEPT ![g] = Dropped(p, p.list_unused)]
  <2>1. p.list_unused \in SUBSET s.group[g].list_unused
    BY <1>1
  <2> QED BY <1>1, <2>1, DropUnusedOK
<1>4. \A k \in Groups : k # g => t.group[k] = s.group[k]
  BY <1>2, <1>3
<1>5. PICK q : q = t.group[g]
  OBVIOUS
<1>6. Listed(t, g)
  BY <1>3 DEF Listed, SameStates
<1>7. q \in GroupType /\ CountsOK(q)
  BY <1>3, <1>5, <1>6 DEF ServiceOK, Services, GroupOK
<1>8. t.group \in [Groups -> GroupType] /\ t = [group |-> t.group, buf |-> t.buf]
  BY <1>3 DEF ServiceOK, Services
<1>9. CASE q.list_used = {}
  <2>1. PICK z : z = [NoGroup EXCEPT !.state =
                         IF q.count_used = 0 /\ q.count_unused = 0
                         THEN "freed" ELSE "misfreed"]
    OBVIOUS
  <2>2. z \in GroupType /\ z.state \in {"freed", "misfreed"}
    <3>1. NoGroup \in GroupType
      BY DEF NoGroup, GroupType, States, Modes
    <3>2. z.state \in {"freed", "misfreed"}
      BY <2>1 DEF NoGroup
    <3> QED BY <2>1, <3>1, <3>2, GroupEdit DEF States
  <2>3. PutGroup(s, g) = DestroyGroup(t, g)
    BY <1>1, <1>5, <1>9 DEF PutGroup
  <2>4. DestroyGroup(t, g) = [t EXCEPT !.group[g] = z]
    BY <1>5, <2>1 DEF DestroyGroup
  <2>5. ServiceOK([t EXCEPT !.group[g] = z], refs)
    BY <1>3, <1>5, <1>9, <2>2, GroupChange
  <2>6. \A k \in Groups : k # g => [t EXCEPT !.group[g] = z].group[k] = t.group[k]
    BY <1>8
  <2> QED BY <1>4, <2>3, <2>4, <2>5, <2>6
<1>10. CASE q.list_used # {}
  <2>1. PICK z : z = [q EXCEPT !.state = "orphan"]
    OBVIOUS
  <2>2. z \in GroupType
    BY <1>7, <2>1, GroupEdit DEF States
  <2>3. /\ z.state = "orphan" /\ CountsOK(z)
        /\ z.list_used = q.list_used /\ z.list_unused = q.list_unused
    BY <1>7, <2>1 DEF GroupType, CountsOK
  <2>4. PutGroup(s, g) = [t EXCEPT !.group[g].state = "orphan"]
    BY <1>1, <1>5, <1>10 DEF PutGroup
  <2>5. [t EXCEPT !.group[g].state = "orphan"] = [t EXCEPT !.group[g] = z]
    BY <1>5, <1>8, <2>1
  <2>6. ServiceOK([t EXCEPT !.group[g] = z], refs)
    BY <1>3, <1>5, <1>6, <2>2, <2>3, GroupChange
  <2>7. \A k \in Groups : k # g => [t EXCEPT !.group[g] = z].group[k] = t.group[k]
    BY <1>8
  <2> QED BY <1>4, <2>4, <2>5, <2>6, <2>7
<1> QED BY <1>9, <1>10

-----------------------------------------------------------------------------
(* The inductive invariant. *)

Decoders ==
    [ pc : {"stopped", "paused", "check", "try", "search", "create"},
      wait : BOOLEAN, notify : BOOLEAN, size : Nat ]

GettingOK ==
    /\ getting \in [group : Groups \cup {0}, size : Nat]
    /\ getting # NoRequest => getting.group \in Groups /\ Normal(getting.group)

DecOK ==
    /\ dec \in Decoders
    /\ dec.pc # "stopped" => Normal(Frames)

UsersOK == GettingOK /\ DecOK

IInv == ServiceOK(svc, held) /\ UsersOK

-----------------------------------------------------------------------------
(* The search of a get gives up buffers that are unused and do not fit. *)
LEMMA PassedUnused ==
    ASSUME NEW s \in Services, NEW g \in Groups, NEW size, NEW D \in Passed(s, g, size)
    PROVE  D \in SUBSET (s.group[g].list_unused \ Fitting(s, g, size))
<1>1. s.group[g].mode \in Modes
  BY DEF Services, GroupType
<1>2. CASE s.group[g].mode = "EXTERNAL"
  BY <1>2 DEF Passed
<1>3. CASE s.group[g].mode = "INTERNAL"
  BY <1>3 DEF Passed
<1> QED BY <1>1, <1>2, <1>3 DEF Modes

(* ... and hands out one that fits. *)
LEMMA GetOK ==
    ASSUME NEW s, NEW refs, ServiceOK(s, refs), NEW g \in Groups, Listed(s, g),
           NEW size, NEW D \in Passed(s, g, size), NEW b \in Fitting(s, g, size)
    PROVE  /\ ServiceOK(IncRef(DropUnused(s, g, D), b), [refs EXCEPT ![b] = 1])
           /\ NormalKept(s, IncRef(DropUnused(s, g, D), b))
<1>1. PICK t : t = DropUnused(s, g, D)
  OBVIOUS
<1>2. s \in Services /\ refs \in [Buffers -> Nat]
  BY DEF ServiceOK
<1>3. D \in SUBSET s.group[g].list_unused /\ b \notin D /\ b \in s.group[g].list_unused
  BY <1>2, PassedUnused DEF Fitting
<1>4. b \in Buffers
  BY <1>2, <1>3 DEF Services, GroupType
<1>5. ServiceOK(t, refs) /\ SameStates(s, t) /\ t.buf[b] = s.buf[b]
  <2>1. D \in SUBSET s.group[g].list_unused
    BY <1>3
  <2>2. /\ ServiceOK(DropUnused(s, g, D), refs) /\ SameStates(s, DropUnused(s, g, D))
        /\ SameBuffers(s, DropUnused(s, g, D), D)
    BY <2>1, DropUnusedOK
  <2> QED BY <1>1, <1>3, <1>4, <2>2 DEF SameBuffers
<1>6. s.buf[b].alive /\ ~s.buf[b].used
  <2>1. ListsOK(s, g)
    BY DEF ServiceOK, GroupOK
  <2> QED BY <1>3, <1>4, <2>1 DEF ListsOK
<1>7. refs[b] = 0
  BY <1>4, <1>6, OfBuffer
<1>8. t.buf[b].alive
  BY <1>5, <1>6
<1>9. ServiceOK(IncRef(t, b), AddRef(refs, b)) /\ SameStates(t, IncRef(t, b))
  BY <1>4, <1>5, <1>8, IncRefOK
<1>10. AddRef(refs, b) = [refs EXCEPT ![b] = 1]
  BY <1>7 DEF AddRef
<1>11. NormalKept(s, IncRef(t, b))
  BY <1>5, <1>9 DEF SameStates, NormalKept
<1> QED BY <1>1, <1>9, <1>10, <1>11

(* A group in the list of the service. *)
LEMMA NormalListed ==
    ASSUME NEW g \in Groups, Normal(g)
    PROVE  Listed(svc, g)
BY DEF Normal, Listed

(* Users who see no group go, and start no work on another. *)
LEMMA UsersStep ==
    ASSUME UsersOK, NormalKept(svc, svc'), getting' \in {getting, NoRequest},
           dec' \in Decoders, dec'.pc # "stopped" => dec.pc # "stopped"
    PROVE  UsersOK'
<1>1. \A k \in Groups : Normal(k) => Normal(k)'
  BY DEF NormalKept, Normal
<1>2. NoRequest \in [group : Groups \cup {0}, size : Nat]
  BY DEF NoRequest
<1>3. GettingOK'
  BY <1>1, <1>2 DEF UsersOK, GettingOK
<1>4. DecOK'
  BY <1>1, GroupsAssumption DEF UsersOK, DecOK
<1> QED BY <1>3, <1>4 DEF UsersOK

(* A notification leaves the decoder where it is. *)
LEMMA NotifiedOK ==
    ASSUME NEW d \in Decoders, NEW g
    PROVE  Notified(d, g) \in Decoders /\ Notified(d, g).pc = d.pc
<1>1. [d EXCEPT !.notify = TRUE] \in Decoders /\ [d EXCEPT !.notify = TRUE].pc = d.pc
  BY DEF Decoders
<1> QED BY <1>1 DEF Notified

(* A step that changes no state of a group removes none. *)
LEMMA SameStatesKeep ==
    ASSUME NEW s, NEW t, SameStates(s, t)
    PROVE  NormalKept(s, t)
BY DEF SameStates, NormalKept

-----------------------------------------------------------------------------
(* The invariant holds at first: nothing exists. *)
LEMMA InitInv == Init => IInv
<1> SUFFICES ASSUME Init PROVE IInv
  OBVIOUS
<1>1. NoGroup \in GroupType /\ NoGroup.state = "none"
  BY DEF NoGroup, GroupType, States, Modes
<1>2. NoBuffer \in BufType /\ ~NoBuffer.alive
  BY DEF NoBuffer, BufType
<1>3. /\ svc = [group |-> svc.group, buf |-> svc.buf]
      /\ svc.group = [g \in Groups |-> NoGroup] /\ svc.buf = [b \in Buffers |-> NoBuffer]
  BY DEF Init, ServiceInit
<1>4. svc.group \in [Groups -> GroupType] /\ svc.buf \in [Buffers -> BufType]
  BY <1>1, <1>2, <1>3
<1>5. svc \in Services
  BY <1>3, <1>4 DEF Services
<1>6. held \in [Buffers -> Nat]
  BY DEF Init
<1>7. \A g \in Groups : GroupOK(svc, g)
  BY <1>1, <1>3 DEF GroupOK, Listed
<1>8. \A b \in Buffers : BufferOK(svc, b, held[b])
  BY <1>2, <1>3 DEF BufferOK, Init
<1>9. UsersOK
  BY DEF Init, UsersOK, GettingOK, DecOK, NoRequest, Decoders
<1> QED BY <1>5, <1>6, <1>7, <1>8, <1>9 DEF IInv, ServiceOK

(* A new group is empty, and no buffer can name it yet. *)
LEMMA GroupGetInv ==
    ASSUME IInv, NEW g \in Groups, GroupGet(g)
    PROVE  IInv'
<1>1. PICK mode \in Modes, misc \in BOOLEAN :
         svc' = [svc EXCEPT !.group[g] = [NoGroup EXCEPT !.state = "normal", !.mode = mode,
                                                  !.misc = misc, !.callback = (g = Frames)]]
  BY DEF GroupGet
<1>2. PICK q : q = [NoGroup EXCEPT !.state = "normal", !.mode = mode,
                                   !.misc = misc, !.callback = (g = Frames)]
  OBVIOUS
<1>3. /\ q \in GroupType /\ q.state = "normal"
      /\ q.list_used = {} /\ q.list_unused = {}
      /\ q.count_used = 0 /\ q.count_unused = 0 /\ q.buffer_count = 0
  <2>1. PICK c \in BOOLEAN : c = (g = Frames)
    OBVIOUS
  <2>2. q = [ state |-> "normal", mode |-> mode, misc |-> misc,
              limit_count |-> 0, limit_size |-> 0,
              buffer_count |-> 0, count_used |-> 0, count_unused |-> 0,
              callback |-> c, list_used |-> {}, list_unused |-> {} ]
    BY <1>2, <2>1 DEF NoGroup
  <2>3. "normal" \in States /\ {} \in SUBSET Buffers /\ 0 \in Nat /\ 0 \in Int
    BY DEF States
  <2> QED BY <2>2, <2>3 DEF GroupType
<1>4. CountsOK(q)
  BY <1>3, FS_EmptySet DEF CountsOK
<1>5. ~Listed(svc, g)
  BY DEF GroupGet, Listed
<1>6. ServiceOK(svc, held)
  BY DEF IInv
<1>7. svc' = [svc EXCEPT !.group[g] = q]
  BY <1>1, <1>2
<1>8. ServiceOK([svc EXCEPT !.group[g] = q], held)
  BY <1>3, <1>4, <1>5, <1>6, GroupChange
<1>9. held' = held /\ getting' = getting
  BY DEF GroupGet
<1>10. ServiceOK(svc', held')
  BY <1>7, <1>8, <1>9
<1>11. svc'.group[g] = q /\ \A k \in Groups : k # g => svc'.group[k] = svc.group[k]
  BY <1>6, <1>7 DEF ServiceOK, Services
<1>12. Normal(g)' /\ \A k \in Groups : Normal(k) => Normal(k)'
  BY <1>3, <1>11 DEF Normal
<1>13. GettingOK'
  BY <1>9, <1>12 DEF IInv, UsersOK, GettingOK
<1>14. DecOK'
  <2>1. dec \in Decoders /\ (dec.pc # "stopped" => Normal(Frames))
    BY DEF IInv, UsersOK, DecOK
  <2>2. [dec EXCEPT !.pc = "paused"] \in Decoders
    BY <2>1 DEF Decoders
  <2>3. dec' \in Decoders
    BY <2>1, <2>2 DEF GroupGet
  <2>4. CASE g = Frames
    BY <1>12, <2>3, <2>4 DEF DecOK
  <2>5. CASE g # Frames
    <3>1. dec' = dec
      BY <2>5 DEF GroupGet
    <3> QED BY <1>12, <2>1, <3>1, GroupsAssumption DEF DecOK
  <2> QED BY <2>4, <2>5
<1> QED BY <1>10, <1>13, <1>14 DEF IInv, UsersOK

(* The settings of a group are no part of what IInv relates. *)
LEMMA LimitConfigInv ==
    ASSUME IInv, LimitConfig
    PROVE  IInv'
<1>1. PICK limit \in Limits : svc' = [svc EXCEPT !.group[Frames].limit_size = limit[1],
                                                 !.group[Frames].limit_count = limit[2]]
  BY DEF LimitConfig
<1>2. PICK p, q : /\ p = svc.group[Frames]
                  /\ q = [p EXCEPT !.limit_size = limit[1], !.limit_count = limit[2]]
  OBVIOUS
<1>3. /\ ServiceOK(svc, held) /\ svc \in Services /\ Frames \in Groups
      /\ Listed(svc, Frames) /\ p \in GroupType /\ CountsOK(p)
  <2>1. ServiceOK(svc, held) /\ svc \in Services
    BY DEF IInv, ServiceOK
  <2>2. Frames \in Groups /\ Listed(svc, Frames)
    BY GroupsAssumption, NormalListed DEF LimitConfig, Quiet
  <2> QED BY <1>2, <2>1, <2>2 DEF ServiceOK, Services, GroupOK
<1>4. limit[1] \in Nat /\ limit[2] \in Nat
  BY LimitsAssumption
<1>5. q \in GroupType
  <2>1. [p EXCEPT !.limit_size = limit[1]] \in GroupType
    BY <1>3, <1>4, GroupEdit
  <2> QED BY <1>2, <1>4, <2>1, GroupEdit
<1>6. /\ q.state = p.state /\ CountsOK(q)
      /\ q.list_used = p.list_used /\ q.list_unused = p.list_unused
  BY <1>2, <1>3 DEF GroupType, CountsOK
<1>7. svc' = [svc EXCEPT !.group[Frames] = q]
  BY <1>1, <1>2, <1>3 DEF Services
<1>8. ServiceOK([svc EXCEPT !.group[Frames] = q], held)
  BY <1>2, <1>3, <1>5, <1>6, GroupChange DEF Listed
<1>9. held' = held /\ getting' = getting /\ dec' = dec
  BY DEF LimitConfig
<1>10. ServiceOK(svc', held')
  BY <1>7, <1>8, <1>9
<1>11. NormalKept(svc, svc')
  BY <1>2, <1>3, <1>6, <1>7 DEF NormalKept, Services
<1>12. UsersOK'
  BY <1>9, <1>11, UsersStep DEF IInv, UsersOK, DecOK
<1> QED BY <1>10, <1>12 DEF IInv

(* GroupReset leaves every group where it is. *)
LEMMA GroupClearInv ==
    ASSUME IInv, NEW g \in Groups, GroupClear(g)
    PROVE  IInv'
<1>1. ServiceOK(svc, held) /\ Listed(svc, g)
  BY NormalListed DEF IInv, GroupClear, Quiet
<1>2. svc' = GroupReset(svc, g) /\ held' = held /\ getting' = getting /\ dec' = dec
  BY DEF GroupClear
<1>3. ServiceOK(svc', held') /\ SameStates(svc, svc')
  BY <1>1, <1>2, GroupResetOK
<1>4. UsersOK'
  BY <1>2, <1>3, UsersStep, SameStatesKeep DEF IInv, UsersOK, DecOK
<1> QED BY <1>3, <1>4 DEF IInv

(* The only step after which a group is not normal any more: nobody works  *)
(* on it.                                                                  *)
LEMMA GroupPutInv ==
    ASSUME IInv, NEW g \in Groups, GroupPut(g)
    PROVE  IInv'
<1>1. ServiceOK(svc, held) /\ Listed(svc, g)
  BY NormalListed DEF IInv, GroupPut, Quiet
<1>2. svc' = PutGroup(svc, g) /\ held' = held /\ getting' = getting /\ dec' = dec
  BY DEF GroupPut
<1>3. ServiceOK(svc', held') /\ \A k \in Groups : k # g => svc'.group[k] = svc.group[k]
  BY <1>1, <1>2, PutGroupOK
<1>4. \A k \in Groups : k # g /\ Normal(k) => Normal(k)'
  BY <1>3 DEF Normal
<1>5. getting.group # g /\ (g = Frames => dec.pc = "stopped")
  BY DEF GroupPut, Quiet
<1>6. GettingOK'
  BY <1>2, <1>4, <1>5 DEF IInv, UsersOK, GettingOK
<1>7. DecOK'
  BY <1>2, <1>4, <1>5, GroupsAssumption DEF IInv, UsersOK, DecOK
<1> QED BY <1>3, <1>6, <1>7 DEF IInv, UsersOK

-----------------------------------------------------------------------------
(* A buffer is imported, and perhaps taken at once. *)
LEMMA CommitInv ==
    ASSUME IInv, NEW g \in Groups, Commit(g)
    PROVE  IInv'
<1>1. PICK b \in Free, size \in Sizes, take \in BOOLEAN :
         /\ svc' = Create(svc, g, size, b, take)
         /\ held' = IF take THEN [held EXCEPT ![b] = 1] ELSE held
  BY DEF Commit
<1>2. ServiceOK(svc, held) /\ Listed(svc, g)
  BY NormalListed DEF IInv, Commit
<1>3. b \in Buffers /\ ~svc.buf[b].alive /\ size \in Nat
  BY SizesAssumption DEF Free
<1>4. /\ ServiceOK(Create(svc, g, size, b, take),
                   IF take THEN [held EXCEPT ![b] = 1] ELSE held)
      /\ SameStates(svc, Create(svc, g, size, b, take))
  BY <1>2, <1>3, CreateOK
<1>5. ServiceOK(svc', held') /\ NormalKept(svc, svc')
  BY <1>1, <1>4, SameStatesKeep
<1>6. dec' \in Decoders /\ dec'.pc = dec.pc /\ getting' = getting
  BY NotifiedOK DEF IInv, UsersOK, DecOK, Commit
<1>7. UsersOK'
  BY <1>5, <1>6, UsersStep DEF IInv
<1> QED BY <1>5, <1>7 DEF IInv

(* The first half of a get finds a buffer, or leaves a request behind. *)
LEMMA GetSearchInv ==
    ASSUME IInv, NEW g \in Groups, GetSearch(g)
    PROVE  IInv'
<1>1. ServiceOK(svc, held) /\ Listed(svc, g) /\ Normal(g) /\ svc \in Services
  BY NormalListed DEF IInv, GetSearch, ServiceOK
<1>2. dec' = dec /\ dec \in Decoders
  BY DEF GetSearch, IInv, UsersOK, DecOK
<1>3. ASSUME NEW size \in Sizes, NEW D \in Passed(svc, g, size),
             NEW b \in Fitting(svc, g, size),
             svc' = IncRef(DropUnused(svc, g, D), b), held' = [held EXCEPT ![b] = 1],
             getting' = getting
      PROVE  IInv'
  <2>1. ServiceOK(svc', held') /\ NormalKept(svc, svc')
    BY <1>1, <1>3, GetOK
  <2>2. UsersOK'
    BY <1>2, <1>3, <2>1, UsersStep DEF IInv
  <2> QED BY <2>1, <2>2 DEF IInv
<1>4. ASSUME NEW size \in Sizes, NEW D \in Passed(svc, g, size),
             svc' = DropUnused(svc, g, D), held' = held,
             getting' = [group |-> g, size |-> size]
      PROVE  IInv'
  <2>1. D \in SUBSET svc.group[g].list_unused
    BY <1>1, PassedUnused
  <2>2. ServiceOK(svc', held') /\ SameStates(svc, svc')
    BY <1>1, <1>4, <2>1, DropUnusedOK
  <2>3. \A k \in Groups : Normal(k) => Normal(k)'
    BY <2>2 DEF SameStates, Normal
  <2>4. GettingOK'
    <3>1. getting' \in [group : Groups \cup {0}, size : Nat] /\ getting'.group = g
      BY <1>4, SizesAssumption
    <3> QED BY <1>1, <2>3, <3>1 DEF GettingOK
  <2>5. DecOK'
    BY <1>2, <2>3, GroupsAssumption DEF IInv, UsersOK, DecOK
  <2> QED BY <2>2, <2>4, <2>5 DEF IInv, UsersOK
<1> QED BY <1>3, <1>4 DEF GetSearch

(* The second half works on the group of the request, which is still there. *)
LEMMA GetCreateInv ==
    ASSUME IInv, GetCreate
    PROVE  IInv'
<1>1. ServiceOK(svc, held) /\ getting.group \in Groups /\ getting.size \in Nat
      /\ Listed(svc, getting.group)
  BY NormalListed DEF IInv, UsersOK, GettingOK, GetCreate
<1>2. dec \in Decoders
  BY DEF IInv, UsersOK, DecOK
<1>3. getting' = NoRequest
  BY DEF GetCreate
<1>4. CASE svc' = svc /\ held' = held /\ dec' = dec
  <2>1. NormalKept(svc, svc')
    BY <1>4 DEF NormalKept
  <2>2. UsersOK'
    BY <1>2, <1>3, <1>4, <2>1, UsersStep DEF IInv
  <2> QED BY <1>1, <1>4, <2>2 DEF IInv
<1>5. ASSUME NEW b \in Free,
             svc' = Create(svc, getting.group, getting.size, b, TRUE),
             held' = [held EXCEPT ![b] = 1],
             dec' = Notified(dec, getting.group)
      PROVE  IInv'
  <2>1. b \in Buffers /\ ~svc.buf[b].alive /\ TRUE \in BOOLEAN
    BY DEF Free
  <2>2. /\ ServiceOK(Create(svc, getting.group, getting.size, b, TRUE),
                     IF TRUE THEN [held EXCEPT ![b] = 1] ELSE held)
        /\ SameStates(svc, Create(svc, getting.group, getting.size, b, TRUE))
    BY <1>1, <2>1, CreateOK
  <2>3. ServiceOK(svc', held') /\ NormalKept(svc, svc')
    BY <1>5, <2>2, SameStatesKeep
  <2>4. dec' \in Decoders /\ dec'.pc = dec.pc
    BY <1>2, <1>5, NotifiedOK
  <2>5. UsersOK'
    BY <1>3, <2>3, <2>4, UsersStep DEF IInv
  <2> QED BY <2>3, <2>5 DEF IInv
<1> QED BY <1>4, <1>5 DEF GetCreate

(* A thread that holds a buffer takes another reference. *)
LEMMA ShareInv ==
    ASSUME IInv, NEW b \in Buffers, Share(b)
    PROVE  IInv'
<1>1. ServiceOK(svc, held) /\ held \in [Buffers -> Nat] /\ held[b] > 0
  BY MaxRefAssumption DEF IInv, ServiceOK, Share
<1>2. svc.buf[b].alive
  BY <1>1 DEF ServiceOK, BufferOK
<1>3. svc' = IncRef(svc, b) /\ held' = AddRef(held, b) /\ getting' = getting /\ dec' = dec
  BY DEF Share, AddRef
<1>4. ServiceOK(svc', held') /\ NormalKept(svc, svc')
  BY <1>1, <1>2, <1>3, IncRefOK, SameStatesKeep
<1>5. UsersOK'
  BY <1>3, <1>4, UsersStep DEF IInv, UsersOK, DecOK
<1> QED BY <1>4, <1>5 DEF IInv

(* A reference is put. *)
LEMMA BufferPutInv ==
    ASSUME IInv, NEW b \in Buffers, BufferPut(b)
    PROVE  IInv'
<1>1. ServiceOK(svc, held) /\ held[b] > 0
  BY DEF IInv, BufferPut
<1>2. svc' = RefDec(svc, b) /\ held' = DropRef(held, b) /\ getting' = getting
  BY DEF BufferPut, DropRef
<1>3. ServiceOK(svc', held') /\ NormalKept(svc, svc')
  BY <1>1, <1>2, RefDecOK
<1>4. dec' \in Decoders /\ dec'.pc = dec.pc
  BY NotifiedOK DEF IInv, UsersOK, DecOK, BufferPut
<1>5. UsersOK'
  BY <1>2, <1>3, <1>4, UsersStep DEF IInv
<1> QED BY <1>3, <1>5 DEF IInv

-----------------------------------------------------------------------------
(* Steps of the decoder outside the service. *)
LEMMA DecOnlyInv ==
    ASSUME IInv, DecResume \/ DecPause \/ DecCheck \/ DecTry
    PROVE  IInv'
<1>1. svc' = svc /\ held' = held /\ getting' = getting
  BY DEF DecResume, DecPause, DecCheck, DecTry
<1>2. dec \in Decoders
  BY DEF IInv, UsersOK, DecOK
<1>3. dec' \in Decoders /\ dec.pc # "stopped"
  <2>1. CASE DecResume
    BY <1>2, <2>1, SizesAssumption DEF DecResume, Decoders
  <2>2. CASE DecPause
    BY <1>2, <2>2 DEF DecPause, Decoders
  <2>3. CASE DecCheck
    BY <1>2, <2>3 DEF DecCheck, Decoders
  <2>4. CASE DecTry
    BY <1>2, <2>4 DEF DecTry, Decoders
  <2> QED BY <2>1, <2>2, <2>3, <2>4
<1>4. NormalKept(svc, svc')
  BY <1>1 DEF NormalKept
<1>5. UsersOK'
  BY <1>1, <1>3, <1>4, UsersStep DEF IInv
<1> QED BY <1>1, <1>5 DEF IInv

(* The decoder searches its own group, which is there while it runs. *)
LEMMA DecSearchInv ==
    ASSUME IInv, DecSearch
    PROVE  IInv'
<1>1. ServiceOK(svc, held) /\ svc \in Services
  BY DEF IInv, ServiceOK
<1>2. dec \in Decoders /\ dec.pc # "stopped" /\ Frames \in Groups /\ Listed(svc, Frames)
  BY GroupsAssumption, NormalListed DEF IInv, UsersOK, DecOK, DecSearch
<1>3. getting' = getting /\ dec' \in Decoders
  <2>1. /\ [dec EXCEPT !.pc = "check"] \in Decoders
        /\ [dec EXCEPT !.pc = "create"] \in Decoders
        /\ [dec EXCEPT !.pc = "check", !.wait = TRUE] \in Decoders
    BY <1>2 DEF Decoders
  <2> QED BY <2>1 DEF DecSearch
<1>4. ServiceOK(svc', held') /\ NormalKept(svc, svc')
  <2>1. ASSUME NEW D \in Passed(svc, Frames, dec.size), NEW b \in Fitting(svc, Frames, dec.size),
               svc' = IncRef(DropUnused(svc, Frames, D), b), held' = [held EXCEPT ![b] = 1]
        PROVE  ServiceOK(svc', held') /\ NormalKept(svc, svc')
    BY <1>1, <1>2, <2>1, GetOK
  <2>2. ASSUME NEW D \in Passed(svc, Frames, dec.size),
               svc' = DropUnused(svc, Frames, D), held' = held
        PROVE  ServiceOK(svc', held') /\ NormalKept(svc, svc')
    <3>1. D \in SUBSET svc.group[Frames].list_unused
      BY <1>1, <1>2, PassedUnused
    <3>2. ServiceOK(svc', held') /\ SameStates(svc, svc')
      BY <1>1, <1>2, <2>2, <3>1, DropUnusedOK
    <3> QED BY <3>2, SameStatesKeep
  <2> QED BY <2>1, <2>2 DEF DecSearch
<1>5. UsersOK'
  BY <1>2, <1>3, <1>4, UsersStep DEF IInv
<1> QED BY <1>4, <1>5 DEF IInv

(* ... and creates a buffer in it. *)
LEMMA DecCreateInv ==
    ASSUME IInv, DecCreate
    PROVE  IInv'
<1>1. ServiceOK(svc, held)
  BY DEF IInv
<1>2. /\ dec \in Decoders /\ dec.size \in Nat /\ dec.pc # "stopped"
      /\ Frames \in Groups /\ Listed(svc, Frames)
  BY GroupsAssumption, NormalListed DEF IInv, UsersOK, DecOK, DecCreate, Decoders
<1>3. getting' = getting /\ dec' \in Decoders
  <2>1. /\ [dec EXCEPT !.pc = "check"] \in Decoders
        /\ [dec EXCEPT !.pc = "check", !.wait = TRUE] \in Decoders
    BY <1>2 DEF Decoders
  <2>2. Notified([dec EXCEPT !.pc = "check"], Frames) \in Decoders
    BY <2>1, NotifiedOK
  <2> QED BY <2>1, <2>2 DEF DecCreate
<1>4. ServiceOK(svc', held') /\ NormalKept(svc, svc')
  <2>1. CASE svc' = svc /\ held' = held
    BY <1>1, <2>1 DEF NormalKept
  <2>2. ASSUME NEW b \in Free, svc' = Create(svc, Frames, dec.size, b, TRUE),
               held' = [held EXCEPT ![b] = 1]
        PROVE  ServiceOK(svc', held') /\ NormalKept(svc, svc')
    <3>1. b \in Buffers /\ ~svc.buf[b].alive /\ TRUE \in BOOLEAN
      BY DEF Free
    <3>2. /\ ServiceOK(Create(svc, Frames, dec.size, b, TRUE),
                       IF TRUE THEN [held EXCEPT ![b] = 1] ELSE held)
          /\ SameStates(svc, Create(svc, Frames, dec.size, b, TRUE))
      BY <1>1, <1>2, <3>1, CreateOK
    <3> QED BY <2>2, <3>2, SameStatesKeep
  <2> QED BY <2>1, <2>2 DEF DecCreate
<1>5. UsersOK'
  BY <1>2, <1>3, <1>4, UsersStep DEF IInv
<1> QED BY <1>4, <1>5 DEF IInv

(* Mpp::clear takes the callback off the group. *)
LEMMA DecStopInv ==
    ASSUME IInv, DecStop
    PROVE  IInv'
<1>1. ServiceOK(svc, held) /\ svc \in Services
  BY DEF IInv, ServiceOK
<1>2. dec \in Decoders /\ dec.pc # "stopped" /\ Frames \in Groups /\ Listed(svc, Frames)
  BY GroupsAssumption, NormalListed DEF IInv, UsersOK, DecOK, DecStop
<1>3. PICK p, q : p = svc.group[Frames] /\ q = [p EXCEPT !.callback = FALSE]
  OBVIOUS
<1>4. p \in GroupType /\ CountsOK(p)
  BY <1>1, <1>2, <1>3 DEF ServiceOK, Services, GroupOK
<1>5. q \in GroupType
  BY <1>3, <1>4, GroupEdit
<1>6. /\ q.state = p.state /\ CountsOK(q)
      /\ q.list_used = p.list_used /\ q.list_unused = p.list_unused
  BY <1>3, <1>4 DEF GroupType, CountsOK
<1>7. svc' = [svc EXCEPT !.group[Frames] = q]
  BY <1>1, <1>2, <1>3 DEF Services, DecStop
<1>8. ServiceOK([svc EXCEPT !.group[Frames] = q], held)
  BY <1>1, <1>2, <1>3, <1>5, <1>6, GroupChange DEF Listed
<1>9. held' = held /\ getting' = getting
  BY DEF DecStop
<1>10. dec' \in Decoders
  BY <1>2 DEF DecStop, Decoders
<1>11. ServiceOK(svc', held')
  BY <1>7, <1>8, <1>9
<1>12. NormalKept(svc, svc')
  BY <1>1, <1>2, <1>3, <1>6, <1>7 DEF NormalKept, Services
<1>13. UsersOK'
  BY <1>2, <1>9, <1>10, <1>12, UsersStep DEF IInv
<1> QED BY <1>11, <1>13 DEF IInv

(* Every step keeps the invariant. *)
LEMMA NextInv == IInv /\ [Next]_vars => IInv'
<1> SUFFICES ASSUME IInv, [Next]_vars PROVE IInv'
  OBVIOUS
<1>1. ASSUME NEW g \in Groups,
             GroupGet(g) \/ GroupClear(g) \/ GroupPut(g) \/ Commit(g) \/ GetSearch(g)
      PROVE  IInv'
  BY <1>1, GroupGetInv, GroupClearInv, GroupPutInv, CommitInv, GetSearchInv
<1>2. ASSUME NEW b \in Buffers, Share(b) \/ BufferPut(b)
      PROVE  IInv'
  BY <1>2, ShareInv, BufferPutInv
<1>3. CASE LimitConfig \/ GetCreate
  BY <1>3, LimitConfigInv, GetCreateInv
<1>4. CASE DecResume \/ DecPause \/ DecCheck \/ DecTry
  BY <1>4, DecOnlyInv
<1>5. CASE DecSearch \/ DecCreate \/ DecStop
  BY <1>5, DecSearchInv, DecCreateInv, DecStopInv
<1>6. CASE UNCHANGED vars
  BY <1>6 DEF vars, IInv, UsersOK, GettingOK, DecOK, Normal
<1> QED BY <1>1, <1>2, <1>3, <1>4, <1>5, <1>6 DEF Next

(* IInv holds in every reachable state. *)
LEMMA Invariant == Spec => []IInv
BY InitInv, NextInv, PTL DEF Spec

-----------------------------------------------------------------------------
(* What follows from the invariant. *)

(* In every reachable state the counters of each group in use agree with   *)
(* its lists, and the lists, flags and reference counts of the buffers     *)
(* agree with each other, whatever threads and user do to the groups.      *)
THEOREM CountsCorrect == Spec => []CountsMatchLists
<1>1. IInv => CountsMatchLists
  <2> SUFFICES ASSUME IInv PROVE CountsMatchLists
    OBVIOUS
  <2>1. ServiceOK(svc, held)
    BY DEF IInv
  <2>2. ASSUME NEW g \in Groups, Listed(svc, g)
        PROVE  CountsOK(svc.group[g])
    BY <2>1, <2>2 DEF ServiceOK, GroupOK
  <2>3. ASSUME NEW b \in Buffers, svc.buf[b].alive
        PROVE  LET p == svc.group[svc.buf[b].group]
               IN  /\ svc.buf[b].used <=> b \in p.list_used
                   /\ ~svc.buf[b].used <=> b \in p.list_unused
                   /\ svc.buf[b].used <=> svc.buf[b].ref_count > 0
    BY <2>1, <2>3, OfBuffer
  <2> QED BY <2>2, <2>3 DEF CountsMatchLists, CountsOK
<1> QED BY <1>1, Invariant, PTL

(* Whoever holds a reference holds a buffer that exists, whose count is    *)
(* the number of references handed out, in a group that is not destroyed:  *)
(* clearing and putting groups takes nothing from under a thread.          *)
THEOREM HeldBuffersSurvive == Spec => []HeldSurvives
<1>1. IInv => HeldSurvives
  <2> SUFFICES ASSUME IInv, NEW b \in Buffers, held[b] > 0
               PROVE  /\ svc.buf[b].alive /\ svc.buf[b].ref_count = held[b]
                      /\ Listed(svc, svc.buf[b].group)
    BY DEF HeldSurvives
  <2>1. ServiceOK(svc, held) /\ held[b] \in Nat
    BY DEF IInv, ServiceOK
  <2>2. svc.buf[b].alive
    BY <2>1 DEF ServiceOK, BufferOK
  <2> QED BY <2>1, <2>2, OfBuffer
<1> QED BY <1>1, Invariant, PTL

(* A buffer that was in use when its group was cleared goes with its last  *)
(* reference: none is ever left for a get to find.                         *)
THEOREM DiscardedGone == Spec => []DiscardedNotReused
<1>1. IInv => DiscardedNotReused
  <2> SUFFICES ASSUME IInv, NEW b \in Buffers, svc.buf[b].alive, svc.buf[b].discard
               PROVE  held[b] > 0
    BY DEF DiscardedNotReused
  <2>1. ServiceOK(svc, held)
    BY DEF IInv
  <2> QED BY <2>1, OfBuffer
<1> QED BY <1>1, Invariant, PTL

(* What mpp_buffer_group_unused promises of an internal group can be had,  *)
(* whatever the limits and sizes: a get of an allowed size finds a buffer, *)
(* or has given up enough small ones to create one.                        *)
THEOREM UnusedHonest == Spec => []UnusedCanBeGot
<1>1. IInv => UnusedCanBeGot
  <2> SUFFICES ASSUME IInv, NEW g \in Groups, NEW size \in Sizes,
                      Normal(g), svc.group[g].mode = "INTERNAL",
                      svc.group[g].limit_size = 0 \/ size <= svc.group[g].limit_size,
                      Unused(svc, g) > 0, Fitting(svc, g, size) = {},
                      NEW D \in Passed(svc, g, size)
               PROVE  MayCreate(DropUnused(svc, g, D), g, size)
    BY DEF UnusedCanBeGot
  <2>1. PICK p, q : p = svc.group[g] /\ q = Dropped(p, D)
    OBVIOUS
  <2>2. ServiceOK(svc, held) /\ svc \in Services /\ Listed(svc, g)
    BY NormalListed DEF IInv, ServiceOK
  <2>3. p \in GroupType /\ CountsOK(p)
    BY <2>1, <2>2 DEF ServiceOK, Services, GroupOK
  <2>4. D = p.list_unused
    BY <2>1 DEF Passed, Fitting
  <2>5. DropUnused(svc, g, D).group[g] = q
    <3>1. D \in SUBSET svc.group[g].list_unused
      BY <2>2, PassedUnused
    <3>2. DropUnused(svc, g, D).group = [svc.group EXCEPT ![g] = Dropped(svc.group[g], D)]
      BY <2>2, <3>1, DropUnusedOK
    <3> QED BY <2>1, <2>2, <3>2 DEF Services
  <2>6. /\ q.limit_count = p.limit_count /\ q.limit_size = p.limit_size
        /\ q.buffer_count = p.buffer_count - Cardinality(D)
    BY <2>1, <2>3 DEF GroupType, Dropped
  <2>7. Cardinality(D) \in Nat /\ p.count_used \in Int /\ p.limit_count \in Nat
    <3>1. D \in SUBSET Buffers
      BY <2>3, <2>4 DEF GroupType
    <3> QED BY <2>3, <3>1, CardOfBuffers DEF GroupType
  <2>8. q.buffer_count = p.count_used
    BY <2>3, <2>4, <2>6, <2>7 DEF CountsOK
  <2>9. p.limit_count = 0 \/ p.count_used < p.limit_count
    BY <2>1, <2>7 DEF Unused
  <2> QED BY <2>1, <2>5, <2>6, <2>8, <2>9 DEF MayCreate
<1> QED BY <1>1, Invariant, PTL

-----------------------------------------------------------------------------
(* What the entry points do to the groups, and to the sizes of buffers.    *)

SameSizes(s, t, b) == \A c \in Buffers \ {b} : t.buf[c].size = s.buf[c].size

(* A buffer that is taken leaves the unused list; another reference to a   *)
(* used one changes no group.                                              *)
LEMMA IncRefEffect ==
    ASSUME NEW s \in Services, NEW b \in Buffers, NEW g \in Groups, g = s.buf[b].group
    PROVE  /\ s.buf[b].used => IncRef(s, b).group = s.group
           /\ ~s.buf[b].used =>
                 IncRef(s, b).group = [s.group EXCEPT ![g] = Taken(s.group[g], b)]
           /\ \A c \in Buffers : IncRef(s, b).buf[c].size = s.buf[c].size
<1> SUFFICES ASSUME NEW t, t = IncRef(s, b)
             PROVE  /\ s.buf[b].used => t.group = s.group
                    /\ ~s.buf[b].used => t.group = [s.group EXCEPT ![g] = Taken(s.group[g], b)]
                    /\ \A c \in Buffers : t.buf[c].size = s.buf[c].size
  OBVIOUS
<1>1. PICK r : r = [s.buf[b] EXCEPT !.ref_count = s.buf[b].ref_count + 1, !.used = TRUE]
  OBVIOUS
<1>2. r.size = s.buf[b].size
  BY <1>1 DEF Services, BufType
<1>3. s.buf[b].used \/ ~s.buf[b].used
  OBVIOUS
<1>4. CASE s.buf[b].used
  <2>1. t = [s EXCEPT !.buf = [s.buf EXCEPT ![b] = r]]
    BY <1>1, <1>4 DEF IncRef, Services
  <2> QED BY <1>2, <1>4, <2>1 DEF Services
<1>5. CASE ~s.buf[b].used
  <2>1. t.buf = [s.buf EXCEPT ![b] = r]
    BY <1>1, <1>5 DEF IncRef, Services
  <2>2. t.group = [s.group EXCEPT ![g] = Taken(s.group[g], b)]
    <3>1. PICK G : G = s.group
      OBVIOUS
    <3>2. PICK p : p = s.group[g]
      OBVIOUS
    <3>3. G \in [Groups -> GroupType] /\ p = G[g] /\ p \in GroupType
      BY <3>1, <3>2 DEF Services
    <3>4. t.group = [G EXCEPT ![g].list_unused  = @ \ {b},
                              ![g].list_used    = @ \cup {b},
                              ![g].count_used   = @ + 1,
                              ![g].count_unused = @ - 1]
      BY <1>5, <3>1 DEF IncRef, Services
    <3>5. t.group = [G EXCEPT ![g] = [p EXCEPT !.list_unused  = @ \ {b},
                                               !.list_used    = @ \cup {b},
                                               !.count_used   = @ + 1,
                                               !.count_unused = @ - 1]]
      BY ONLY <3>3, <3>4, g \in Groups DEF GroupType
    <3>6. [p EXCEPT !.list_unused  = @ \ {b}, !.list_used    = @ \cup {b},
                    !.count_used   = @ + 1,   !.count_unused = @ - 1] = Taken(p, b)
      BY <3>3 DEF Taken, GroupType
    <3> QED BY <3>1, <3>2, <3>5, <3>6
  <2> QED BY <1>2, <1>5, <2>1, <2>2 DEF Services
<1> QED BY <1>4, <1>5

(* The fields of a group that gets a buffer, or that lends one out. *)
LEMMA AddedFields ==
    ASSUME NEW p \in GroupType, NEW b \in Buffers
    PROVE  /\ Added(p, b) \in GroupType
           /\ Added(p, b).list_unused = p.list_unused \cup {b}
           /\ Added(p, b).buffer_count = p.buffer_count + 1
           /\ Added(p, b).count_unused = p.count_unused + 1
           /\ Added(p, b).count_used = p.count_used
           /\ Added(p, b).callback = p.callback /\ Added(p, b).mode = p.mode
           /\ Added(p, b).state = p.state
           /\ Added(p, b).limit_count = p.limit_count
           /\ Added(p, b).limit_size = p.limit_size
<1> DEFINE q1 == [p EXCEPT !.list_unused = p.list_unused \cup {b}]
           q2 == [q1 EXCEPT !.buffer_count = p.buffer_count + 1]
<1>1. /\ p.list_unused \cup {b} \in SUBSET Buffers
      /\ p.buffer_count + 1 \in Int /\ p.count_unused + 1 \in Int
  BY DEF GroupType
<1>2. Added(p, b) = [q2 EXCEPT !.count_unused = p.count_unused + 1]
  BY DEF Added
<1> HIDE DEF q2
<1>3. q1 \in GroupType
  BY <1>1, GroupEdit
<1> HIDE DEF q1
<1>4. q2 \in GroupType
  BY <1>1, <1>3, GroupEdit DEF q2
<1>5. Added(p, b) \in GroupType
  BY <1>1, <1>2, <1>4, GroupEdit
<1> QED BY <1>5 DEF GroupType, Added

(* The same of a group that lends one out. *)
LEMMA TakenFields ==
    ASSUME NEW p \in GroupType, NEW b \in Buffers
    PROVE  /\ Taken(p, b).list_unused = p.list_unused \ {b}
           /\ Taken(p, b).buffer_count = p.buffer_count
           /\ Taken(p, b).count_unused = p.count_unused - 1
           /\ Taken(p, b).count_used = p.count_used + 1
           /\ Taken(p, b).callback = p.callback /\ Taken(p, b).mode = p.mode
           /\ Taken(p, b).state = p.state
           /\ Taken(p, b).limit_count = p.limit_count
           /\ Taken(p, b).limit_size = p.limit_size
BY DEF GroupType, Taken

(* A new buffer belongs to its group, and is lent out if it was asked for. *)
LEMMA CreateEffect ==
    ASSUME NEW s \in Services, NEW g \in Groups, NEW size \in Nat, NEW b \in Buffers,
           NEW take \in BOOLEAN
    PROVE  /\ ~take => Create(s, g, size, b, take).group =
                          [s.group EXCEPT ![g] = Added(s.group[g], b)]
           /\ take  => Create(s, g, size, b, take).group =
                          [s.group EXCEPT ![g] = Taken(Added(s.group[g], b), b)]
           /\ SameSizes(s, Create(s, g, size, b, take), b)
<1>1. PICK p, q, r, u : /\ p = s.group[g] /\ q = Added(p, b)
                        /\ r = [NoBuffer EXCEPT !.alive = TRUE, !.group = g, !.size = size]
                        /\ u = With(s, g, q, b, r)
  OBVIOUS
<1>2. PICK v : v = Create(s, g, size, b, FALSE)
  OBVIOUS
<1>3. v = [group |-> v.group, buf |-> v.buf]
  BY <1>2 DEF Create, Services
<1>4. v.buf = [s.buf EXCEPT ![b] = r]
  BY <1>1, <1>2 DEF Create, Services
<1>5. v.group = [s.group EXCEPT ![g] = q]
  BY <1>1, <1>2 DEF Create, Services, Added
<1>6. Create(s, g, size, b, take) = IF take THEN IncRef(v, b) ELSE v
  BY <1>2 DEF Create
<1>7. r \in BufType /\ r.group = g /\ ~r.used
  BY <1>1 DEF NoBuffer, BufType
<1>8. q \in GroupType
  BY <1>1, AddedFields DEF Services
<1>9. v \in Services
  BY <1>3, <1>4, <1>5, <1>7, <1>8 DEF Services
<1>10. SameSizes(s, v, b)
  BY <1>4 DEF SameSizes, Services
<1>11. v.buf[b] = r /\ v.group[g] = q
  BY <1>4, <1>5 DEF Services
<1>12. /\ IncRef(v, b).group = [v.group EXCEPT ![g] = Taken(q, b)]
       /\ \A c \in Buffers : IncRef(v, b).buf[c].size = v.buf[c].size
  BY <1>7, <1>9, <1>11, IncRefEffect
<1>13. IncRef(v, b).group = [s.group EXCEPT ![g] = Taken(q, b)]
  BY <1>5, <1>12 DEF Services
<1> QED BY <1>1, <1>5, <1>6, <1>10, <1>12, <1>13 DEF SameSizes

SameUse(p, q) == q.callback = p.callback /\ q.mode = p.mode

(* A reference is put: nothing but the group and the buffer can change,    *)
(* and only with the last one; then the group counts no more buffers than  *)
(* before, and keeps callback and mode if it is not destroyed.             *)
LEMMA RefDecEffect ==
    ASSUME NEW s \in Services, NEW b \in Buffers, NEW g \in Groups, g = s.buf[b].group
    PROVE  /\ SameSizes(s, RefDec(s, b), b)
           /\ \A k \in Groups \ {g} : RefDec(s, b).group[k] = s.group[k]
           /\ s.buf[b].ref_count > 1 =>
                 RefDec(s, b).group = s.group /\ RefDec(s, b).buf[b].size = s.buf[b].size
           /\ RefDec(s, b).group[g].buffer_count \in {0, s.group[g].buffer_count,
                                                       s.group[g].buffer_count - 1}
           /\ Listed(RefDec(s, b), g) =>
                 /\ RefDec(s, b).group[g].callback = s.group[g].callback
                 /\ RefDec(s, b).group[g].mode = s.group[g].mode
<1>1. PICK p, t : p = s.group[g] /\ t = RefDec(s, b)
  OBVIOUS
<1>2. s.group \in [Groups -> GroupType] /\ s.buf \in [Buffers -> BufType] /\ p \in GroupType
  BY <1>1 DEF Services
<1>3. CASE s.buf[b].ref_count > 1
  <2>1. PICK r : r = [s.buf[b] EXCEPT !.ref_count = s.buf[b].ref_count - 1]
    OBVIOUS
  <2>2. r.size = s.buf[b].size
    BY <1>2, <2>1 DEF BufType
  <2>3. t = [s EXCEPT !.buf = [s.buf EXCEPT ![b] = r]]
    BY <1>1, <1>3, <2>1 DEF RefDec, Services
  <2>4. t.group = s.group /\ t.buf = [s.buf EXCEPT ![b] = r]
    BY <2>3 DEF Services
  <2> QED BY <1>1, <1>2, <2>2, <2>4 DEF SameSizes
<1>4. CASE ~(s.buf[b].ref_count > 1)
  <2>1. PICK p0, r0, last :
           /\ p0 = [p EXCEPT !.list_used = p.list_used \ {b}]
           /\ r0 = [s.buf[b] EXCEPT !.ref_count = 0, !.used = FALSE]
           /\ last = [s EXCEPT !.buf[b].ref_count = 0, !.buf[b].used = FALSE,
                               !.group[g].list_used = @ \ {b}]
    OBVIOUS
  <2>2. /\ last.buf = [s.buf EXCEPT ![b] = r0]
        /\ last.group = [s.group EXCEPT ![g] = p0]
        /\ last = [group |-> last.group, buf |-> last.buf]
    <3>1. last.buf = [s.buf EXCEPT ![b] = r0]
      BY <2>1 DEF Services
    <3>2. last.group = [s.group EXCEPT ![g] = p0]
      BY <1>1, <2>1 DEF Services
    <3>3. last = [group |-> last.group, buf |-> last.buf]
      BY <2>1 DEF Services
    <3> QED BY <3>1, <3>2, <3>3
  <2>3. last.buf[b] = r0 /\ last.group[g] = p0 /\ r0.group = g
    <3>1. s.buf[b] \in BufType
      BY <1>2
    <3>2. r0.group = g
      BY <2>1, <3>1 DEF BufType
    <3> QED BY <1>2, <2>2, <3>2
  <2>4. /\ p0.buffer_count = p.buffer_count /\ SameUse(p, p0)
        /\ p0 \in GroupType
    <3>1. p.list_used \ {b} \in SUBSET Buffers
      BY <1>2 DEF GroupType
    <3>2. p0 \in GroupType
      BY <1>2, <2>1, <3>1, GroupEdit
    <3> QED BY <1>2, <2>1, <3>2 DEF GroupType, SameUse
  <2>5. PICK v : v = Retire(last, b)
    OBVIOUS
  <2>6. t = IF Listed(v, g) THEN [v EXCEPT !.group[g].count_used = @ - 1] ELSE v
    <3> DEFINE l == [s EXCEPT !.buf[b].ref_count = 0, !.buf[b].used = FALSE,
                              !.group[s.buf[b].group].list_used = @ \ {b}]
    <3>1. t = IF Listed(Retire(l, b), s.buf[b].group)
              THEN [Retire(l, b) EXCEPT !.group[s.buf[b].group].count_used = @ - 1]
              ELSE Retire(l, b)
      BY <1>1, <1>4 DEF RefDec
    <3>2. l = last
      BY <2>1
    <3> HIDE DEF l
    <3> QED BY <2>5, <3>1, <3>2
  <2>7. \E q, r :
           /\ q \in GroupType
           /\ v = With(s, g, q, b, r)
           /\ q.buffer_count \in {0, p.buffer_count, p.buffer_count - 1}
           /\ SameUse(p, q) \/ q.state \in {"freed", "misfreed"}
    <3>1. CASE ~(last.group[g].misc \/ last.buf[b].discard)
      <4>1. PICK p1 : p1 = [p0 EXCEPT !.list_unused = p0.list_unused \cup {b},
                                      !.count_unused = p0.count_unused + 1]
        OBVIOUS
      <4>2. v = [last EXCEPT !.group[g].list_unused = @ \cup {b},
                             !.group[g].count_unused = @ + 1]
        BY <2>3, <2>5, <3>1 DEF Retire
      <4>3. v = [group |-> v.group, buf |-> v.buf] /\ v.buf = last.buf
        BY <2>2, <4>2
      <4>4. v.group = [last.group EXCEPT ![g] = p1]
        BY <2>2, <2>3, <4>1, <4>2
      <4>5. v.group = [s.group EXCEPT ![g] = p1]
        BY <1>2, <2>2, <4>4
      <4>6. v = With(s, g, p1, b, r0)
        BY <2>2, <4>3, <4>5 DEF With
      <4>7. p1 \in GroupType
        <5>1. p0.list_unused \cup {b} \in SUBSET Buffers /\ p0.count_unused + 1 \in Int
          BY <2>4 DEF GroupType
        <5>2. [p0 EXCEPT !.list_unused = p0.list_unused \cup {b}] \in GroupType
          BY <2>4, <5>1, GroupEdit
        <5> QED BY <4>1, <5>1, <5>2, GroupEdit
      <4>8. p1.buffer_count = p.buffer_count /\ SameUse(p, p1)
        BY <2>4, <4>1 DEF GroupType, SameUse
      <4> QED BY <4>6, <4>7, <4>8
    <3>2. CASE last.group[g].misc \/ last.buf[b].discard
      <4>1. PICK o, x : /\ o = [p0 EXCEPT !.buffer_count = p0.buffer_count - 1]
                        /\ x = [last EXCEPT !.buf[b] = NoBuffer,
                                            !.group[g].buffer_count = @ - 1]
        OBVIOUS
      <4>2. v = IF x.group[g].state = "orphan" /\ x.group[g].buffer_count = 0
                THEN DestroyGroup(x, g) ELSE x
        <5>1. v = DeinitBuffer(last, b)
          BY <2>3, <2>5, <3>2 DEF Retire
        <5>2. last.buf[b].group = g
          BY <2>3
        <5> QED BY <4>1, <5>1, <5>2 DEF DeinitBuffer
      <4>3. x = With(s, g, o, b, NoBuffer)
        <5>1. x = [group |-> x.group, buf |-> x.buf]
          BY <2>2, <4>1
        <5>2. x.buf = [last.buf EXCEPT ![b] = NoBuffer]
          BY <2>2, <4>1
        <5>3. x.group = [last.group EXCEPT ![g] = o]
          BY <2>2, <2>3, <4>1
        <5>4. x.buf = [s.buf EXCEPT ![b] = NoBuffer] /\ x.group = [s.group EXCEPT ![g] = o]
          BY <1>2, <2>2, <5>2, <5>3
        <5> QED BY <5>1, <5>4 DEF With
      <4>4. o \in GroupType
        <5>1. p0.buffer_count - 1 \in Int
          BY <2>4 DEF GroupType
        <5> QED BY <2>4, <4>1, <5>1, GroupEdit
      <4>5. o.buffer_count = p.buffer_count - 1 /\ SameUse(p, o)
        BY <2>4, <4>1 DEF GroupType, SameUse
      <4>6. PICK z : z = [NoGroup EXCEPT !.state =
                  IF x.group[g].count_used = 0 /\ x.group[g].count_unused = 0
                  THEN "freed" ELSE "misfreed"]
        OBVIOUS
      <4>7. z \in GroupType /\ z.buffer_count = 0 /\ z.state \in {"freed", "misfreed"}
        <5>1. NoGroup \in GroupType
          BY DEF NoGroup, GroupType, States, Modes
        <5>2. z.state \in {"freed", "misfreed"} /\ z.buffer_count = 0
          BY <4>6 DEF NoGroup
        <5> QED BY <4>6, <5>1, <5>2, GroupEdit DEF States
      <4>8. DestroyGroup(x, g) = With(s, g, z, b, NoBuffer)
        <5>1. DestroyGroup(x, g) = [x EXCEPT !.group[g] = z]
          BY <4>6 DEF DestroyGroup
        <5> QED BY <1>2, <4>3, <5>1 DEF With
      <4> QED BY <4>2, <4>3, <4>4, <4>5, <4>7, <4>8
    <3> QED BY <3>1, <3>2
  <2>8. PICK q, r :
           /\ q \in GroupType
           /\ v = With(s, g, q, b, r)
           /\ q.buffer_count \in {0, p.buffer_count, p.buffer_count - 1}
           /\ SameUse(p, q) \/ q.state \in {"freed", "misfreed"}
    BY <2>7
  <2>9. PICK q2 : q2 = [q EXCEPT !.count_used = q.count_used - 1]
    OBVIOUS
  <2>10. q2.buffer_count = q.buffer_count /\ SameUse(q, q2) /\ q2.state = q.state
    BY <2>8, <2>9 DEF GroupType, SameUse
  <2>11. /\ v = [group |-> v.group, buf |-> v.buf] /\ v.buf = [s.buf EXCEPT ![b] = r]
         /\ v.group = [s.group EXCEPT ![g] = q] /\ v.group[g] = q
    BY <1>2, <2>8 DEF With
  <2>12. CASE Listed(v, g)
    <3>1. t = [v EXCEPT !.group[g].count_used = @ - 1]
      BY <2>6, <2>12
    <3>2. t.buf = v.buf
      BY <2>11, <3>1
    <3>3. t.group = [v.group EXCEPT ![g] = q2]
      BY <2>9, <2>11, <3>1
    <3>4. t.group[g] = q2 /\ \A k \in Groups \ {g} : t.group[k] = s.group[k]
      BY <1>2, <2>11, <3>3
    <3>5. SameSizes(s, t, b)
      BY <1>2, <2>11, <3>2 DEF SameSizes
    <3>6. SameUse(p, q)
      BY <2>8, <2>11, <2>12 DEF Listed
    <3> QED BY <1>1, <1>4, <2>8, <2>10, <3>4, <3>5, <3>6 DEF SameUse
  <2>13. CASE ~Listed(v, g)
    <3>1. t = v
      BY <2>6, <2>13
    <3>2. \A k \in Groups \ {g} : t.group[k] = s.group[k]
      BY <1>2, <2>11, <3>1
    <3>3. SameSizes(s, t, b)
      BY <1>2, <2>11, <3>1 DEF SameSizes
    <3> QED BY <1>1, <1>4, <2>8, <2>11, <2>13, <3>1, <3>2, <3>3
  <2> QED BY <2>12, <2>13
<1> QED BY <1>3, <1>4

(* Buffers that are given up leave their group. *)
LEMMA DroppedFields ==
    ASSUME NEW p \in GroupType, NEW D \in SUBSET p.list_unused
    PROVE  /\ Cardinality(D) \in Nat
           /\ D # {} => Cardinality(D) > 0
           /\ Dropped(p, D).list_unused = p.list_unused \ D
           /\ Dropped(p, D).list_used = p.list_used
           /\ Dropped(p, D).buffer_count = p.buffer_count - Cardinality(D)
           /\ Dropped(p, D).count_unused = p.count_unused - Cardinality(D)
           /\ Dropped(p, D).count_used = p.count_used
           /\ Dropped(p, D).callback = p.callback /\ Dropped(p, D).mode = p.mode
           /\ Dropped(p, D).state = p.state
           /\ Dropped(p, D).limit_count = p.limit_count
           /\ Dropped(p, D).limit_size = p.limit_size
<1>1. D \in SUBSET Buffers
  BY DEF GroupType
<1>2. Cardinality(D) \in Nat /\ (D # {} => Cardinality(D) > 0)
  BY <1>1, CardOfBuffers
<1> QED BY <1>2 DEF GroupType, Dropped

(* A group that is cleared gives up its unused buffers. *)
LEMMA GroupResetEffect ==
    ASSUME NEW s, NEW refs, ServiceOK(s, refs), NEW g \in Groups, Listed(s, g)
    PROVE  /\ GroupReset(s, g).group =
                 [s.group EXCEPT ![g] = Dropped(s.group[g], s.group[g].list_unused)]
           /\ \A c \in Buffers : c \notin s.group[g].list_unused =>
                 GroupReset(s, g).buf[c].size = s.buf[c].size
<1>1. PICK D, t, u :
         /\ D = s.group[g].list_unused
         /\ t = [s EXCEPT !.buf = [b \in DOMAIN @ |->
                    IF b \in s.group[g].list_used
                    THEN [@[b] EXCEPT !.discard = TRUE] ELSE @[b]]]
         /\ u = GroupReset(s, g)
  OBVIOUS
<1>2. s \in Services /\ D \in SUBSET Buffers
  BY <1>1 DEF ServiceOK, Services, GroupType
<1>3. /\ t.group = s.group
      /\ t.buf = [b \in Buffers |-> IF b \in s.group[g].list_used
                                    THEN [s.buf[b] EXCEPT !.discard = TRUE] ELSE s.buf[b]]
      /\ t = [group |-> t.group, buf |-> t.buf]
  BY <1>1, <1>2 DEF Services
<1>4. u = DropUnused(t, g, D)
  BY <1>1 DEF GroupReset
<1>5. u.buf = [b \in Buffers |-> IF b \in D THEN NoBuffer ELSE t.buf[b]]
  BY <1>3, <1>4 DEF DropUnused
<1>6. u.group = [t.group EXCEPT ![g] = Dropped(t.group[g], D)]
  BY <1>3, <1>4 DEF DropUnused, Dropped
<1>7. \A c \in Buffers : t.buf[c].size = s.buf[c].size
  <2> TAKE c \in Buffers
  <2>1. s.buf[c] \in BufType
    BY <1>2 DEF Services
  <2> QED BY <1>3, <2>1 DEF BufType
<1> QED BY <1>1, <1>3, <1>5, <1>6, <1>7

(* A group that is put is destroyed, or waits for its buffers in use. *)
LEMMA PutGroupEffect ==
    ASSUME NEW s, NEW refs, ServiceOK(s, refs), NEW g \in Groups, Listed(s, g)
    PROVE  /\ PutGroup(s, g).group[g].buffer_count \in Int
           /\ \/ PutGroup(s, g).group[g].buffer_count = 0
              \/ PutGroup(s, g).group[g].buffer_count <= s.group[g].buffer_count
           /\ \A c \in Buffers : c \notin s.group[g].list_unused =>
                 PutGroup(s, g).buf[c] = s.buf[c]
<1>1. PICK p, t, u : /\ p = s.group[g] /\ t = DropUnused(s, g, p.list_unused)
                     /\ u = PutGroup(s, g)
  OBVIOUS
<1>2. s \in Services /\ p \in GroupType
  BY <1>1 DEF ServiceOK, Services
<1>3. t.group = [s.group EXCEPT ![g] = Dropped(p, p.list_unused)]
      /\ SameBuffers(s, t, p.list_unused) /\ t \in Services
  <2>1. p.list_unused \in SUBSET s.group[g].list_unused
    BY <1>1
  <2> QED BY <1>1, <2>1, DropUnusedOK DEF ServiceOK
<1>4. u = IF t.group[g].list_used = {} THEN DestroyGroup(t, g)
          ELSE [t EXCEPT !.group[g].state = "orphan"]
  BY <1>1 DEF PutGroup
<1>5. u.buf = t.buf
  BY <1>3, <1>4 DEF Services, DestroyGroup
<1>6. u.group[g].buffer_count \in {0, t.group[g].buffer_count}
  <2>1. CASE t.group[g].list_used = {}
    BY <1>3, <1>4, <2>1 DEF DestroyGroup, NoGroup, Services
  <2>2. CASE t.group[g].list_used # {}
    BY <1>3, <1>4, <2>2 DEF Services, GroupType
  <2> QED BY <2>1, <2>2
<1>7. t.group[g].buffer_count <= p.buffer_count /\ t.group[g].buffer_count \in Int
  <2>1. t.group[g] = Dropped(p, p.list_unused)
    BY <1>2, <1>3 DEF Services
  <2>2. p.list_unused \in SUBSET p.list_unused /\ p.buffer_count \in Int
    BY <1>2 DEF GroupType
  <2> QED BY <1>2, <2>1, <2>2, DroppedFields
<1> QED BY <1>1, <1>3, <1>5, <1>6, <1>7 DEF SameBuffers

-----------------------------------------------------------------------------
(* Limits *)

(* What LimitKept says of the step from one service to another. *)
WithinLimits(s, t) ==
    \A k \in Groups :
        t.group[k].buffer_count > s.group[k].buffer_count /\ s.group[k].limit_count > 0
        => t.group[k].buffer_count <= s.group[k].limit_count

(* A step that counts no group up is within the limits, and so is one that *)
(* leaves a group empty.                                                   *)
LEMMA NotUp ==
    ASSUME NEW s \in Services, NEW t, NEW g,
           \A k \in Groups \ {g} : t.group[k] = s.group[k],
           t.group[g].buffer_count \in Int,
           \/ t.group[g].buffer_count <= s.group[g].buffer_count
           \/ t.group[g].buffer_count = 0
    PROVE  WithinLimits(s, t)
<1> SUFFICES ASSUME NEW k \in Groups,
                    t.group[k].buffer_count > s.group[k].buffer_count,
                    s.group[k].limit_count > 0
             PROVE  t.group[k].buffer_count <= s.group[k].limit_count
  BY DEF WithinLimits
<1>1. s.group[k].buffer_count \in Int /\ s.group[k].limit_count \in Nat
  BY DEF Services, GroupType
<1>2. CASE k = g
  BY <1>1, <1>2
<1>3. CASE k # g
  BY <1>1, <1>3
<1> QED BY <1>2, <1>3

(* A creation that the limits allow keeps within them. *)
LEMMA CreateWithin ==
    ASSUME NEW s \in Services, NEW g \in Groups, NEW size \in Nat, NEW b \in Buffers,
           NEW take \in BOOLEAN, MayCreate(s, g, size)
    PROVE  WithinLimits(s, Create(s, g, size, b, take))
<1>1. PICK p, t : p = s.group[g] /\ t = Create(s, g, size, b, take)
  OBVIOUS
<1>2. p \in GroupType /\ s.group \in [Groups -> GroupType]
  BY <1>1 DEF Services
<1>3. Added(p, b) \in GroupType /\ Added(p, b).buffer_count = p.buffer_count + 1
  BY <1>2, AddedFields
<1>4. Taken(Added(p, b), b).buffer_count = p.buffer_count + 1
  BY <1>3, TakenFields
<1>5. /\ t.group[g].buffer_count = p.buffer_count + 1
      /\ \A k \in Groups \ {g} : t.group[k] = s.group[k]
  <2>3. /\ ~take => Create(s, g, size, b, take).group =
                       [s.group EXCEPT ![g] = Added(s.group[g], b)]
        /\ take  => Create(s, g, size, b, take).group =
                       [s.group EXCEPT ![g] = Taken(Added(s.group[g], b), b)]
    BY CreateEffect
  <2>1. CASE take
    <3>1. t.group = [s.group EXCEPT ![g] = Taken(Added(p, b), b)]
      <4>1. Create(s, g, size, b, take).group =
               [s.group EXCEPT ![g] = Taken(Added(s.group[g], b), b)]
        BY <2>3, <2>1
      <4> QED BY <1>1, <4>1
    <3> QED BY <1>2, <1>4, <3>1
  <2>2. CASE ~take
    <3>1. t.group = [s.group EXCEPT ![g] = Added(p, b)]
      <4>1. Create(s, g, size, b, take).group = [s.group EXCEPT ![g] = Added(s.group[g], b)]
        BY <2>3, <2>2
      <4> QED BY <1>1, <4>1
    <3> QED BY <1>2, <1>3, <3>1
  <2> QED BY <2>1, <2>2
<1>6. p.buffer_count \in Int /\ p.limit_count \in Nat
  BY <1>2 DEF GroupType
<1>7. p.limit_count = 0 \/ p.buffer_count < p.limit_count
  BY <1>1 DEF MayCreate
<1> SUFFICES ASSUME NEW k \in Groups,
                    t.group[k].buffer_count > s.group[k].buffer_count,
                    s.group[k].limit_count > 0
             PROVE  t.group[k].buffer_count <= s.group[k].limit_count
  BY <1>1 DEF WithinLimits
<1>8. CASE k = g
  BY <1>1, <1>5, <1>6, <1>7, <1>8
<1>9. CASE k # g
  <2>1. s.group[k].buffer_count \in Int
    BY <1>2 DEF GroupType
  <2> QED BY <1>5, <1>9, <2>1
<1> QED BY <1>8, <1>9

(* The search of a get, and the reference to what it has found. *)
LEMMA SearchWithin ==
    ASSUME NEW s, NEW refs, ServiceOK(s, refs), NEW g \in Groups, Listed(s, g),
           NEW size, NEW D \in Passed(s, g, size)
    PROVE  /\ WithinLimits(s, DropUnused(s, g, D))
           /\ \A b \in Fitting(s, g, size) : WithinLimits(s, IncRef(DropUnused(s, g, D), b))
<1>1. PICK p, t : p = s.group[g] /\ t = DropUnused(s, g, D)
  OBVIOUS
<1>2. s \in Services /\ p \in GroupType /\ s.group \in [Groups -> GroupType]
  BY <1>1 DEF ServiceOK, Services
<1>3. D \in SUBSET p.list_unused
  BY <1>1, <1>2, PassedUnused
<1>4. /\ t.group = [s.group EXCEPT ![g] = Dropped(p, D)] /\ t \in Services
      /\ SameBuffers(s, t, D)
  <2>1. D \in SUBSET s.group[g].list_unused
    BY <1>1, <1>3
  <2> QED BY <1>1, <2>1, DropUnusedOK DEF ServiceOK
<1>5. /\ \A k \in Groups \ {g} : t.group[k] = s.group[k]
      /\ t.group[g].buffer_count <= s.group[g].buffer_count
      /\ t.group[g].buffer_count \in Int
  <2>1. t.group[g] = Dropped(p, D)
    BY <1>2, <1>4
  <2>2. p.buffer_count \in Int
    BY <1>2 DEF GroupType
  <2> QED BY <1>1, <1>2, <1>3, <1>4, <2>1, <2>2, DroppedFields
<1>6. ASSUME NEW b \in Fitting(s, g, size)
      PROVE  WithinLimits(s, IncRef(t, b))
  <2>1. b \in Buffers /\ b \in p.list_unused /\ b \notin D
    BY <1>1, <1>2, PassedUnused DEF Fitting, GroupType
  <2>2. t.buf[b] = s.buf[b] /\ s.buf[b].group = g
    <3>1. ListsOK(s, g)
      BY DEF ServiceOK, GroupOK
    <3> QED BY <1>1, <1>4, <2>1, <3>1 DEF SameBuffers, ListsOK
  <2>3. /\ \A k \in Groups \ {g} : IncRef(t, b).group[k] = s.group[k]
        /\ IncRef(t, b).group[g].buffer_count = t.group[g].buffer_count
    <3>1. \/ IncRef(t, b).group = t.group
          \/ IncRef(t, b).group = [t.group EXCEPT ![g] = Taken(t.group[g], b)]
      BY <1>4, <2>1, <2>2, IncRefEffect
    <3>2. Taken(t.group[g], b).buffer_count = t.group[g].buffer_count
      BY <1>4, <2>1, TakenFields DEF Services
    <3> QED BY <1>4, <1>5, <3>1, <3>2 DEF Services
  <2> QED BY <1>2, <1>5, <2>3, NotUp
<1> QED BY <1>1, <1>2, <1>5, <1>6, NotUp

(* Every step keeps within the limits, whatever happened since the search. *)
LEMMA NextWithin ==
    ASSUME IInv, [Next]_vars
    PROVE  WithinLimits(svc, svc')
<1>1. ServiceOK(svc, held) /\ svc \in Services /\ svc.group \in [Groups -> GroupType]
  BY DEF IInv, ServiceOK, Services
<1>2. ASSUME svc'.group = svc.group
      PROVE  WithinLimits(svc, svc')
  <2>1. \A k \in Groups : svc.group[k].buffer_count \in Int
    BY <1>1 DEF GroupType
  <2> QED BY <1>2, <2>1 DEF WithinLimits
<1>3. ASSUME NEW g \in Groups, GroupGet(g)
      PROVE  WithinLimits(svc, svc')
  <2>1. PICK mode \in Modes, misc \in BOOLEAN :
           svc' = [svc EXCEPT !.group[g] =
                      [NoGroup EXCEPT !.state = "normal", !.mode = mode,
                                      !.misc = misc, !.callback = (g = Frames)]]
    BY <1>3 DEF GroupGet
  <2>2. svc'.group[g].buffer_count = 0 /\ \A k \in Groups \ {g} : svc'.group[k] = svc.group[k]
    BY <1>1, <2>1 DEF Services, NoGroup
  <2> QED BY <1>1, <2>2, NotUp
<1>4. ASSUME NEW g \in Groups, GroupClear(g) \/ GroupPut(g)
      PROVE  WithinLimits(svc, svc')
  <2>1. Listed(svc, g)
    BY <1>4, NormalListed DEF GroupClear, GroupPut, Quiet
  <2>2. CASE GroupClear(g)
    <3>1. PICK p : p = svc.group[g]
      OBVIOUS
    <3>2. svc'.group = [svc.group EXCEPT ![g] = Dropped(p, p.list_unused)]
      BY <1>1, <2>1, <2>2, <3>1, GroupResetEffect DEF GroupClear
    <3>3. p \in GroupType /\ p.list_unused \in SUBSET p.list_unused /\ p.buffer_count \in Int
      BY <1>1, <3>1 DEF GroupType
    <3>4. /\ Dropped(p, p.list_unused).buffer_count <= p.buffer_count
          /\ Dropped(p, p.list_unused).buffer_count \in Int
      BY <3>3, DroppedFields
    <3>5. /\ \A k \in Groups \ {g} : svc'.group[k] = svc.group[k]
          /\ svc'.group[g].buffer_count <= svc.group[g].buffer_count
          /\ svc'.group[g].buffer_count \in Int
      BY <1>1, <3>1, <3>2, <3>4
    <3> QED BY <1>1, <3>5, NotUp
  <2>3. CASE GroupPut(g)
    <3>1. svc' = PutGroup(svc, g)
      BY <2>3 DEF GroupPut
    <3>2. \A k \in Groups : k # g => PutGroup(svc, g).group[k] = svc.group[k]
      BY <1>1, <2>1, PutGroupOK
    <3>3. /\ PutGroup(svc, g).group[g].buffer_count \in Int
          /\ \/ PutGroup(svc, g).group[g].buffer_count = 0
             \/ PutGroup(svc, g).group[g].buffer_count <= svc.group[g].buffer_count
      BY <1>1, <2>1, PutGroupEffect
    <3> QED BY <1>1, <3>1, <3>2, <3>3, NotUp
  <2> QED BY <1>4, <2>2, <2>3
<1>5. ASSUME NEW g \in Groups, Commit(g)
      PROVE  WithinLimits(svc, svc')
  <2>1. PICK b \in Free, size \in Sizes, take \in BOOLEAN :
           MayCreate(svc, g, size) /\ svc' = Create(svc, g, size, b, take)
    BY <1>5 DEF Commit
  <2>2. b \in Buffers /\ size \in Nat
    BY SizesAssumption DEF Free
  <2> QED BY <1>1, <2>1, <2>2, CreateWithin
<1>6. ASSUME NEW g \in Groups, GetSearch(g)
      PROVE  WithinLimits(svc, svc')
  <2>1. Listed(svc, g)
    BY <1>6, NormalListed DEF GetSearch
  <2>2. PICK size \in Sizes : \E D \in Passed(svc, g, size) :
           \/ svc' = DropUnused(svc, g, D)
           \/ \E b \in Fitting(svc, g, size) : svc' = IncRef(DropUnused(svc, g, D), b)
    BY <1>6 DEF GetSearch
  <2> QED BY <1>1, <2>1, <2>2, SearchWithin
<1>7. CASE LimitConfig
  <2>1. PICK limit \in Limits :
           svc' = [svc EXCEPT !.group[Frames].limit_size = limit[1],
                              !.group[Frames].limit_count = limit[2]]
    BY <1>7 DEF LimitConfig
  <2>2. /\ \A k \in Groups \ {Frames} : svc'.group[k] = svc.group[k]
        /\ svc'.group[Frames].buffer_count = svc.group[Frames].buffer_count
    BY <1>1, <2>1, GroupsAssumption DEF Services, GroupType
  <2>3. svc.group[Frames].buffer_count \in Int
    BY <1>1, GroupsAssumption DEF GroupType
  <2> QED BY <1>1, <2>2, <2>3, NotUp
<1>8. ASSUME NEW b \in Buffers, Share(b)
      PROVE  WithinLimits(svc, svc')
  <2>1. held[b] > 0 /\ svc' = IncRef(svc, b)
    BY <1>1, <1>8, MaxRefAssumption DEF Share, ServiceOK
  <2>2. svc.buf[b].alive
    BY <1>1, <2>1 DEF ServiceOK, BufferOK
  <2>3. svc.buf[b].used /\ svc.buf[b].group \in Groups
    BY <1>1, <2>1, <2>2, OfBuffer
  <2>4. svc'.group = svc.group
    BY <1>1, <2>1, <2>3, IncRefEffect
  <2> QED BY <1>2, <2>4
<1>9. ASSUME NEW b \in Buffers, BufferPut(b)
      PROVE  WithinLimits(svc, svc')
  <2>1. held[b] > 0 /\ svc' = RefDec(svc, b)
    BY <1>9 DEF BufferPut
  <2>2. svc.buf[b].alive
    BY <1>1, <2>1 DEF ServiceOK, BufferOK
  <2>3. PICK g \in Groups : g = svc.buf[b].group
    BY <1>1, <2>2, OfBuffer
  <2>4. /\ \A k \in Groups \ {g} : svc'.group[k] = svc.group[k]
        /\ svc'.group[g].buffer_count \in {0, svc.group[g].buffer_count,
                                           svc.group[g].buffer_count - 1}
    BY <1>1, <2>1, <2>3, RefDecEffect
  <2>5. svc.group[g].buffer_count \in Int
    BY <1>1 DEF GroupType
  <2> QED BY <1>1, <2>4, <2>5, NotUp
<1>10. CASE GetCreate
  <2>1. getting.group \in Groups /\ getting.size \in Nat
    BY <1>10 DEF GetCreate, IInv, UsersOK, GettingOK
  <2>2. \/ svc' = svc
        \/ /\ MayCreate(svc, getting.group, getting.size)
           /\ \E b \in Free : svc' = Create(svc, getting.group, getting.size, b, TRUE)
    BY <1>10 DEF GetCreate
  <2>3. Free \in SUBSET Buffers
    BY DEF Free
  <2> QED BY <1>1, <1>2, <2>1, <2>2, <2>3, CreateWithin
<1>11. CASE DecResume \/ DecPause \/ DecCheck \/ DecTry \/ UNCHANGED vars
  BY <1>2, <1>11 DEF DecResume, DecPause, DecCheck, DecTry, vars
<1>12. CASE DecSearch
  <2>1. Frames \in Groups /\ Listed(svc, Frames)
    BY <1>12, NormalListed, GroupsAssumption DEF DecSearch, IInv, UsersOK, DecOK
  <2>2. \E D \in Passed(svc, Frames, dec.size) :
           \/ svc' = DropUnused(svc, Frames, D)
           \/ \E b \in Fitting(svc, Frames, dec.size) :
                 svc' = IncRef(DropUnused(svc, Frames, D), b)
    BY <1>12 DEF DecSearch
  <2> QED BY <1>1, <2>1, <2>2, SearchWithin
<1>13. CASE DecCreate
  <2>1. Frames \in Groups /\ dec.size \in Nat
    BY GroupsAssumption DEF IInv, UsersOK, DecOK, Decoders
  <2>2. \/ svc' = svc
        \/ /\ MayCreate(svc, Frames, dec.size)
           /\ \E b \in Free : svc' = Create(svc, Frames, dec.size, b, TRUE)
    BY <1>13 DEF DecCreate
  <2>3. Free \in SUBSET Buffers
    BY DEF Free
  <2> QED BY <1>1, <1>2, <2>1, <2>2, <2>3, CreateWithin
<1>14. CASE DecStop
  <2>1. svc' = [svc EXCEPT !.group[Frames].callback = FALSE]
    BY <1>14 DEF DecStop
  <2>2. /\ \A k \in Groups \ {Frames} : svc'.group[k] = svc.group[k]
        /\ svc'.group[Frames].buffer_count = svc.group[Frames].buffer_count
    BY <1>1, <2>1, GroupsAssumption DEF Services, GroupType
  <2>3. svc.group[Frames].buffer_count \in Int
    BY <1>1, GroupsAssumption DEF GroupType
  <2> QED BY <1>1, <2>2, <2>3, NotUp
<1> QED
  BY <1>3, <1>4, <1>5, <1>6, <1>7, <1>8, <1>9, <1>10, <1>11, <1>12, <1>13, <1>14 DEF Next

(* No interleaving of searches, creations and changes of the limit lets a  *)
(* get take a group beyond its limit, for any groups, sizes and limits.    *)
THEOREM LimitNeverPassed == Spec => LimitKept
<1>1. IInv /\ [Next]_vars => [\A g \in Groups :
          LET p == svc.group[g]
          IN  svc'.group[g].buffer_count > p.buffer_count /\ p.limit_count > 0
              => svc'.group[g].buffer_count <= p.limit_count]_vars
  BY NextWithin DEF WithinLimits
<1> QED BY <1>1, Invariant, PTL DEF Spec, LimitKept

-----------------------------------------------------------------------------
(* The sleep of the decoder                                                *)

(* Nothing the decoder could have: by the count of its group, or because   *)
(* none fits and none may be created.  A get that failed in an internal    *)
(* group has given up all unused buffers: this is what keeps the limit     *)
(* reached, since another get has none to give up.                         *)
NothingThere ==
    \/ Unused(svc, Frames) < 1
    \/ /\ svc.group[Frames].mode = "INTERNAL"
       /\ svc.group[Frames].list_unused = {} /\ ~MayCreate(svc, Frames, dec.size)
    \/ /\ svc.group[Frames].mode # "INTERNAL"
       /\ Fitting(svc, Frames, dec.size) = {}

(* While the decoder runs it is called back; until it is, what it has seen *)
(* on its way to sleep is still so.                                        *)
WaitOK ==
    /\ dec.pc # "stopped" => svc.group[Frames].callback
    /\ dec.pc \in {"search", "create"} => ~dec.wait
    /\ dec.pc = "create" => svc.group[Frames].mode = "INTERNAL"
    /\ dec.pc = "create" /\ ~dec.notify => svc.group[Frames].list_unused = {}
    /\ dec.pc = "check" /\ dec.wait /\ ~dec.notify => NothingThere

(* The group of the decoder stays what it is. *)
SameKind(s, t) ==
    /\ t.group[Frames].callback = s.group[Frames].callback
    /\ t.group[Frames].mode = s.group[Frames].mode

(* ... and offers no more than before. *)
Shrinks(s, t) ==
    LET p == s.group[Frames]
        q == t.group[Frames]
    IN  /\ SameKind(s, t)
        /\ q.limit_count = p.limit_count /\ q.limit_size = p.limit_size
        /\ q.list_unused \subseteq p.list_unused
        /\ q.count_unused <= p.count_unused /\ q.count_used >= p.count_used
        /\ p.list_unused = {} => q.buffer_count >= p.buffer_count
        /\ \A b \in q.list_unused : t.buf[b].size = s.buf[b].size

(* One step after another. *)
LEMMA ShrinksTwice ==
    ASSUME NEW s \in Services, NEW t \in Services, NEW u \in Services,
           Shrinks(s, t), Shrinks(t, u)
    PROVE  Shrinks(s, u)
<1>1. \A x \in Services : /\ x.group[Frames].count_unused \in Int
                          /\ x.group[Frames].count_used \in Int
                          /\ x.group[Frames].buffer_count \in Int
  BY GroupsAssumption DEF Services, GroupType
<1>2. /\ u.group[Frames].count_unused <= s.group[Frames].count_unused
      /\ u.group[Frames].count_used >= s.group[Frames].count_used
  BY <1>1 DEF Shrinks
<1>3. s.group[Frames].list_unused = {} =>
         u.group[Frames].buffer_count >= s.group[Frames].buffer_count
  BY <1>1 DEF Shrinks
<1> QED BY <1>2, <1>3 DEF Shrinks, SameKind

(* A change of another group, which leaves the decoder's buffers alone. *)
LEMMA ElsewhereShrinks ==
    ASSUME NEW s \in Services, NEW t, t.group[Frames] = s.group[Frames],
           \A b \in s.group[Frames].list_unused : t.buf[b].size = s.buf[b].size
    PROVE  Shrinks(s, t)
<1>1. /\ s.group[Frames].count_unused \in Int /\ s.group[Frames].count_used \in Int
      /\ s.group[Frames].buffer_count \in Int
  BY GroupsAssumption DEF Services, GroupType
<1> QED BY <1>1 DEF Shrinks, SameKind

(* If nothing was there, and the group offers no more, nothing is there. *)
LEMMA StillNothing ==
    ASSUME svc \in Services, svc' \in Services, Shrinks(svc, svc'), dec'.size = dec.size,
           NothingThere
    PROVE  NothingThere'
<1>1. PICK p, q : p = svc.group[Frames] /\ q = svc'.group[Frames]
  OBVIOUS
<1>2. p \in GroupType /\ q \in GroupType
  BY <1>1, GroupsAssumption DEF Services
<1>3. /\ q.mode = p.mode /\ q.limit_count = p.limit_count /\ q.limit_size = p.limit_size
      /\ q.list_unused \subseteq p.list_unused
      /\ q.count_unused <= p.count_unused /\ q.count_used >= p.count_used
      /\ p.list_unused = {} => q.buffer_count >= p.buffer_count
      /\ \A b \in q.list_unused : svc'.buf[b].size = svc.buf[b].size
  BY <1>1 DEF Shrinks, SameKind
<1>4. /\ p.count_unused \in Int /\ p.count_used \in Int /\ p.buffer_count \in Int
      /\ q.count_unused \in Int /\ q.count_used \in Int /\ q.buffer_count \in Int
      /\ p.limit_count \in Nat
  BY <1>2 DEF GroupType
<1>5. CASE Unused(svc, Frames) < 1
  <2>1. Unused(svc', Frames) < 1
    BY <1>1, <1>3, <1>4, <1>5 DEF Unused
  <2> QED BY <2>1 DEF NothingThere
<1>6. CASE p.mode = "INTERNAL" /\ p.list_unused = {} /\ ~MayCreate(svc, Frames, dec.size)
  <2>1. q.mode = "INTERNAL" /\ q.list_unused = {}
    BY <1>3, <1>6
  <2>2. q.buffer_count >= p.buffer_count
    BY <1>3, <1>6
  <2>3. ~MayCreate(svc', Frames, dec'.size)
    BY <1>1, <1>3, <1>4, <1>6, <2>2 DEF MayCreate
  <2> QED BY <1>1, <2>1, <2>3 DEF NothingThere
<1>7. CASE p.mode # "INTERNAL" /\ Fitting(svc, Frames, dec.size) = {}
  <2>1. Fitting(svc', Frames, dec'.size) = {}
    BY <1>1, <1>3, <1>7 DEF Fitting
  <2> QED BY <1>1, <1>3, <1>7, <2>1 DEF NothingThere
<1> QED BY <1>1, <1>5, <1>6, <1>7 DEF NothingThere

(* The rule for steps of others: a group that offers more is reported. *)
LEMMA OthersStep ==
    ASSUME WaitOK, svc \in Services, svc' \in Services,
           dec'.pc = dec.pc, dec'.wait = dec.wait, dec'.size = dec.size,
           ~dec'.notify => ~dec.notify,
           dec.pc # "stopped" => SameKind(svc, svc'),
           dec.pc \in {"create", "check"} /\ ~dec'.notify => Shrinks(svc, svc')
    PROVE  WaitOK'
<1>1. CASE dec.pc = "stopped"
  BY <1>1 DEF WaitOK
<1>2. CASE dec.pc # "stopped"
  <2>1. /\ svc'.group[Frames].callback
        /\ dec'.pc \in {"search", "create"} => ~dec'.wait
        /\ dec'.pc = "create" => svc'.group[Frames].mode = "INTERNAL"
    BY <1>2 DEF WaitOK, SameKind
  <2>2. dec'.pc = "create" /\ ~dec'.notify => svc'.group[Frames].list_unused = {}
    BY DEF WaitOK, Shrinks
  <2>3. dec'.pc = "check" /\ dec'.wait /\ ~dec'.notify => NothingThere'
    BY StillNothing DEF WaitOK
  <2> QED BY <2>1, <2>2, <2>3 DEF WaitOK
<1> QED BY <1>1, <1>2

(* The buffers a listed group has unused are its own. *)
LEMMA UnusedOwn ==
    ASSUME NEW s, NEW refs, ServiceOK(s, refs), NEW g \in Groups, Listed(s, g),
           NEW b \in s.group[g].list_unused
    PROVE  b \in Buffers /\ s.buf[b].alive /\ s.buf[b].group = g /\ ~s.buf[b].used
<1>1. b \in Buffers
  BY DEF ServiceOK, Services, GroupType
<1>2. ListsOK(s, g)
  BY DEF ServiceOK, GroupOK
<1> QED BY <1>1, <1>2 DEF ListsOK

(* Giving up buffers, of this group or another. *)
LEMMA DropShrinks ==
    ASSUME NEW s, NEW refs, ServiceOK(s, refs), Listed(s, Frames),
           NEW g \in Groups, Listed(s, g), NEW D \in SUBSET s.group[g].list_unused
    PROVE  Shrinks(s, DropUnused(s, g, D))
<1>1. PICK p, t : p = s.group[g] /\ t = DropUnused(s, g, D)
  OBVIOUS
<1>2. s \in Services /\ p \in GroupType /\ s.group \in [Groups -> GroupType]
      /\ Frames \in Groups
  BY <1>1, GroupsAssumption DEF ServiceOK, Services
<1>3. t.group = [s.group EXCEPT ![g] = Dropped(p, D)] /\ SameBuffers(s, t, D)
  BY <1>1, DropUnusedOK
<1>4. \A b \in s.group[Frames].list_unused \ D : t.buf[b].size = s.buf[b].size
  BY <1>2, <1>3 DEF SameBuffers, GroupType
<1>5. CASE g = Frames
  <2>1. t.group[Frames] = Dropped(p, D) /\ D \in SUBSET p.list_unused
    BY <1>1, <1>2, <1>3, <1>5
  <2>2. p.count_unused \in Int /\ p.count_used \in Int /\ p.buffer_count \in Int
    BY <1>2 DEF GroupType
  <2>3. p.list_unused = {} => Cardinality(D) = 0
    BY <2>1, FS_EmptySet
  <2> QED BY <1>1, <1>2, <1>4, <1>5, <2>1, <2>2, <2>3, DroppedFields DEF Shrinks, SameKind
<1>6. CASE g # Frames
  <2>1. t.group[Frames] = s.group[Frames]
    BY <1>2, <1>3, <1>6
  <2>2. ASSUME NEW b \in s.group[Frames].list_unused, b \in D
        PROVE  FALSE
    <3>1. s.buf[b].group = Frames
      BY <1>2, UnusedOwn
    <3>2. b \in s.group[g].list_unused
      BY <2>2
    <3>3. s.buf[b].group = g
      BY <3>2, UnusedOwn
    <3> QED BY <1>6, <3>1, <3>3
  <2> QED BY <1>1, <1>2, <1>4, <2>1, <2>2, ElsewhereShrinks
<1> QED BY <1>5, <1>6

(* A reference to a buffer, of this group or another. *)
LEMMA IncRefShrinks ==
    ASSUME NEW s, NEW refs, ServiceOK(s, refs), NEW b \in Buffers, s.buf[b].alive
    PROVE  Shrinks(s, IncRef(s, b))
<1>1. PICK g, p, t : g = s.buf[b].group /\ p = s.group[g] /\ t = IncRef(s, b)
  OBVIOUS
<1>2. s \in Services /\ s.group \in [Groups -> GroupType] /\ Frames \in Groups
  BY GroupsAssumption DEF ServiceOK, Services
<1>3. g \in Groups /\ p \in GroupType
  BY <1>1, <1>2, OfBuffer
<1>4. /\ s.buf[b].used => t.group = s.group
      /\ ~s.buf[b].used => t.group = [s.group EXCEPT ![g] = Taken(p, b)]
      /\ \A c \in Buffers : t.buf[c].size = s.buf[c].size
  BY <1>1, <1>2, <1>3, IncRefEffect
<1>5. s.group[Frames].list_unused \in SUBSET Buffers
  BY <1>2 DEF GroupType
<1>6. CASE t.group[Frames] = s.group[Frames]
  BY <1>1, <1>2, <1>4, <1>5, <1>6, ElsewhereShrinks
<1>7. CASE t.group[Frames] = Taken(p, b) /\ g = Frames
  <2>1. p.count_unused \in Int /\ p.count_used \in Int /\ p.buffer_count \in Int
    BY <1>3 DEF GroupType
  <2>2. /\ Taken(p, b).list_unused = p.list_unused \ {b}
        /\ Taken(p, b).buffer_count = p.buffer_count
        /\ Taken(p, b).count_unused = p.count_unused - 1
        /\ Taken(p, b).count_used = p.count_used + 1
        /\ Taken(p, b).callback = p.callback /\ Taken(p, b).mode = p.mode
        /\ Taken(p, b).limit_count = p.limit_count
        /\ Taken(p, b).limit_size = p.limit_size
    BY <1>3, TakenFields
  <2> QED BY <1>1, <1>4, <1>5, <1>7, <2>1, <2>2 DEF Shrinks, SameKind
<1>8. t.group[Frames] = s.group[Frames] \/ (t.group[Frames] = Taken(p, b) /\ g = Frames)
  BY <1>2, <1>3, <1>4
<1> QED BY <1>6, <1>7, <1>8

(* A creation keeps the kind of a group, and does not touch another.       *)
LEMMA CreateShrinks ==
    ASSUME NEW s, NEW refs, ServiceOK(s, refs), Listed(s, Frames),
           NEW g \in Groups, NEW size \in Nat, NEW b \in Buffers, ~s.buf[b].alive,
           NEW take \in BOOLEAN
    PROVE  /\ SameKind(s, Create(s, g, size, b, take))
           /\ g # Frames => Shrinks(s, Create(s, g, size, b, take))
<1>1. PICK p, t : p = s.group[g] /\ t = Create(s, g, size, b, take)
  OBVIOUS
<1>2. s \in Services /\ s.group \in [Groups -> GroupType] /\ Frames \in Groups
      /\ p \in GroupType
  BY <1>1, GroupsAssumption DEF ServiceOK, Services
<1>3. /\ ~take => t.group = [s.group EXCEPT ![g] = Added(p, b)]
      /\ take  => t.group = [s.group EXCEPT ![g] = Taken(Added(p, b), b)]
      /\ SameSizes(s, t, b)
  <2>1. /\ ~take => Create(s, g, size, b, take).group =
                       [s.group EXCEPT ![g] = Added(s.group[g], b)]
        /\ take  => Create(s, g, size, b, take).group =
                       [s.group EXCEPT ![g] = Taken(Added(s.group[g], b), b)]
        /\ SameSizes(s, Create(s, g, size, b, take), b)
    BY <1>2, CreateEffect
  <2> QED BY <1>1, <2>1
<1>4. PICK q : t.group = [s.group EXCEPT ![g] = q] /\ q \in {Added(p, b), Taken(Added(p, b), b)}
  BY <1>3
<1>5. q.callback = p.callback /\ q.mode = p.mode
  <2>1. /\ Added(p, b) \in GroupType
        /\ Added(p, b).callback = p.callback /\ Added(p, b).mode = p.mode
    BY <1>2, AddedFields
  <2>2. /\ Taken(Added(p, b), b).callback = p.callback
        /\ Taken(Added(p, b), b).mode = p.mode
    BY <2>1, TakenFields
  <2> QED BY <1>4, <2>1, <2>2
<1>6. SameKind(s, t)
  BY <1>1, <1>2, <1>4, <1>5 DEF SameKind
<1>7. ASSUME g # Frames
      PROVE  Shrinks(s, t)
  <2>1. t.group[Frames] = s.group[Frames]
    BY <1>2, <1>4, <1>7
  <2>2. \A c \in s.group[Frames].list_unused : c \in Buffers \ {b}
    BY <1>2, UnusedOwn
  <2>3. \A c \in s.group[Frames].list_unused : t.buf[c].size = s.buf[c].size
    BY <1>3, <2>2 DEF SameSizes
  <2> QED BY <1>2, <2>1, <2>3, ElsewhereShrinks
<1> QED BY <1>1, <1>6, <1>7

(* The search of a get, in any group. *)
LEMMA SearchShrinks ==
    ASSUME NEW s, NEW refs, ServiceOK(s, refs), Listed(s, Frames),
           NEW g \in Groups, Listed(s, g), NEW size, NEW D \in Passed(s, g, size)
    PROVE  /\ Shrinks(s, DropUnused(s, g, D))
           /\ \A b \in Fitting(s, g, size) : Shrinks(s, IncRef(DropUnused(s, g, D), b))
<1>1. PICK t : t = DropUnused(s, g, D)
  OBVIOUS
<1>2. s \in Services /\ D \in SUBSET s.group[g].list_unused
  <2>1. s \in Services
    BY DEF ServiceOK
  <2> QED BY <2>1, PassedUnused
<1>3. ServiceOK(t, refs) /\ SameBuffers(s, t, D) /\ Shrinks(s, t)
  BY <1>1, <1>2, DropUnusedOK, DropShrinks
<1>4. ASSUME NEW b \in Fitting(s, g, size)
      PROVE  Shrinks(s, IncRef(t, b))
  <2>1. b \in s.group[g].list_unused /\ b \notin D
    BY <1>2, PassedUnused DEF Fitting
  <2>2. b \in Buffers /\ s.buf[b].alive /\ t.buf[b] = s.buf[b]
    BY <1>3, <2>1, UnusedOwn DEF SameBuffers
  <2>3. Shrinks(t, IncRef(t, b)) /\ ServiceOK(IncRef(t, b), AddRef(refs, b))
    BY <1>3, <2>2, IncRefShrinks, IncRefOK
  <2>4. t \in Services /\ IncRef(t, b) \in Services
    BY <1>3, <2>3 DEF ServiceOK
  <2> QED BY <1>2, <1>3, <2>3, <2>4, ShrinksTwice
<1> QED BY <1>1, <1>3, <1>4

(* No step lets the decoder sleep over something it could have. *)
LEMMA WaitGroups ==
    ASSUME IInv, IInv', WaitOK, NEW g \in Groups, GroupGet(g) \/ GroupClear(g) \/ GroupPut(g)
    PROVE  WaitOK'
<1>1. /\ ServiceOK(svc, held) /\ svc \in Services /\ svc' \in Services
      /\ svc.group \in [Groups -> GroupType]
      /\ Frames \in Groups /\ dec \in Decoders /\ (dec.pc # "stopped" => Normal(Frames))
  BY GroupsAssumption DEF IInv, ServiceOK, Services, UsersOK, DecOK
<1>2. CASE GroupGet(g) /\ g = Frames
  <2>1. dec.pc = "stopped"
    BY <1>1, <1>2 DEF GroupGet, Normal
  <2>2. dec'.pc = "paused"
    BY <1>1, <1>2 DEF GroupGet, Decoders
  <2>3. PICK mode \in Modes, misc \in BOOLEAN :
           svc' = [svc EXCEPT !.group[g] =
                      [NoGroup EXCEPT !.state = "normal", !.mode = mode,
                                      !.misc = misc, !.callback = (g = Frames)]]
    BY <1>2 DEF GroupGet
  <2>4. svc'.group[Frames] = [NoGroup EXCEPT !.state = "normal", !.mode = mode,
                                             !.misc = misc, !.callback = (g = Frames)]
    BY <1>1, <1>2, <2>3 DEF Services
  <2>5. svc'.group[Frames].callback
    BY <1>2, <2>4 DEF NoGroup
  <2> QED BY <2>2, <2>5 DEF WaitOK
<1>3. CASE GroupGet(g) /\ g # Frames
  <2>1. svc'.group[Frames] = svc.group[Frames] /\ svc'.buf = svc.buf /\ dec' = dec
    BY <1>1, <1>3 DEF GroupGet, Services
  <2>2. Shrinks(svc, svc')
    BY <1>1, <2>1, ElsewhereShrinks
  <2> QED BY <1>1, <2>1, <2>2, OthersStep DEF Shrinks
<1>4. CASE GroupClear(g)
  <2>1. Listed(svc, g) /\ dec' = dec
    BY <1>4, NormalListed DEF GroupClear, Quiet
  <2>2. /\ svc'.group = [svc.group EXCEPT ![g] =
                            Dropped(svc.group[g], svc.group[g].list_unused)]
        /\ \A c \in Buffers : c \notin svc.group[g].list_unused =>
              svc'.buf[c].size = svc.buf[c].size
    BY <1>1, <1>4, <2>1, GroupResetEffect DEF GroupClear
  <2>3. CASE g = Frames
    <3>1. dec.pc \in {"paused", "stopped"}
      BY <1>4, <2>3 DEF GroupClear, Quiet
    <3>2. PICK p : p = svc.group[g] /\ p \in GroupType /\ p.list_unused \in SUBSET p.list_unused
      BY <1>1
    <3>3. svc'.group[Frames] = Dropped(p, p.list_unused)
      BY <1>1, <2>2, <2>3, <3>2
    <3>4. SameKind(svc, svc')
      BY <2>3, <3>2, <3>3, DroppedFields DEF SameKind
    <3> QED BY <1>1, <2>1, <3>1, <3>4, OthersStep
  <2>4. CASE g # Frames
    <3>1. svc'.group[Frames] = svc.group[Frames]
      BY <1>1, <2>2, <2>4
    <3>2. ASSUME Normal(Frames)
          PROVE  Shrinks(svc, svc')
      <4>1. ASSUME NEW c \in svc.group[Frames].list_unused
            PROVE  c \in Buffers /\ c \notin svc.group[g].list_unused
        <5>1. c \in Buffers /\ svc.buf[c].group = Frames
          BY <1>1, <3>2, NormalListed, UnusedOwn
        <5>2. ASSUME c \in svc.group[g].list_unused PROVE FALSE
          <6>1. svc.buf[c].group = g
            BY <1>1, <2>1, <5>2, UnusedOwn
          <6> QED BY <2>4, <5>1, <6>1
        <5> QED BY <5>1, <5>2
      <4> QED BY <1>1, <2>2, <3>1, <4>1, ElsewhereShrinks
    <3> QED BY <1>1, <2>1, <3>2, OthersStep DEF Shrinks
  <2> QED BY <2>3, <2>4
<1>5. CASE GroupPut(g)
  <2>1. Listed(svc, g) /\ dec' = dec /\ svc' = PutGroup(svc, g)
    BY <1>5, NormalListed DEF GroupPut, Quiet
  <2>2. CASE g = Frames
    <3>1. dec.pc = "stopped"
      BY <1>5, <2>2 DEF GroupPut
    <3> QED BY <2>1, <3>1 DEF WaitOK
  <2>3. CASE g # Frames
    <3>1. \A k \in Groups : k # g => PutGroup(svc, g).group[k] = svc.group[k]
      BY <1>1, <2>1, PutGroupOK
    <3>2. \A c \in Buffers : c \notin svc.group[g].list_unused =>
             PutGroup(svc, g).buf[c] = svc.buf[c]
      BY <1>1, <2>1, PutGroupEffect
    <3>3. ASSUME Normal(Frames)
          PROVE  Shrinks(svc, svc')
      <4>1. ASSUME NEW c \in svc.group[Frames].list_unused
            PROVE  c \in Buffers /\ c \notin svc.group[g].list_unused
        <5>1. c \in Buffers /\ svc.buf[c].group = Frames
          BY <1>1, <3>3, NormalListed, UnusedOwn
        <5>2. ASSUME c \in svc.group[g].list_unused PROVE FALSE
          <6>1. svc.buf[c].group = g
            BY <1>1, <2>1, <5>2, UnusedOwn
          <6> QED BY <2>3, <5>1, <6>1
        <5> QED BY <5>1, <5>2
      <4>2. svc'.group[Frames] = svc.group[Frames]
        BY <1>1, <2>1, <2>3, <3>1
      <4> QED BY <1>1, <2>1, <3>2, <4>1, <4>2, ElsewhereShrinks
    <3> QED BY <1>1, <2>1, <3>3, OthersStep DEF Shrinks
  <2> QED BY <2>2, <2>3
<1> QED BY <1>2, <1>3, <1>4, <1>5

(* A group with a callback reports to the decoder. *)
LEMMA NotifiedFields ==
    ASSUME NEW d \in Decoders, NEW g
    PROVE  /\ Notified(d, g).pc = d.pc /\ Notified(d, g).wait = d.wait
           /\ Notified(d, g).size = d.size
           /\ ~Notified(d, g).notify => ~d.notify
           /\ svc.group[g].callback => Notified(d, g).notify
BY DEF Notified, Decoders

(* Buffers that come into a group are reported, if the group is the        *)
(* decoder's.                                                              *)
LEMMA WaitCreate ==
    ASSUME IInv, IInv', WaitOK, NEW g \in Groups, NEW size \in Nat, NEW b \in Free,
           NEW take \in BOOLEAN, svc' = Create(svc, g, size, b, take),
           dec' = Notified(dec, g)
    PROVE  WaitOK'
<1>1. /\ ServiceOK(svc, held) /\ svc \in Services /\ svc' \in Services
      /\ dec \in Decoders /\ (dec.pc # "stopped" => Normal(Frames))
      /\ b \in Buffers /\ ~svc.buf[b].alive /\ Frames \in Groups
  BY GroupsAssumption DEF IInv, ServiceOK, UsersOK, DecOK, Free
<1>2. /\ dec'.pc = dec.pc /\ dec'.wait = dec.wait /\ dec'.size = dec.size
      /\ ~dec'.notify => ~dec.notify
      /\ svc.group[g].callback => dec'.notify
  BY <1>1, NotifiedFields
<1>3. ASSUME Normal(Frames)
      PROVE  SameKind(svc, svc') /\ (g # Frames => Shrinks(svc, svc'))
  BY <1>1, <1>3, NormalListed, CreateShrinks
<1>4. dec.pc # "stopped" /\ g = Frames => dec'.notify
  BY <1>2 DEF WaitOK
<1> QED BY <1>1, <1>2, <1>3, <1>4, OthersStep

(* The same of steps on buffers. *)
LEMMA WaitBuffers ==
    ASSUME IInv, IInv', WaitOK,
           \/ GetCreate
           \/ \E g \in Groups : Commit(g) \/ GetSearch(g)
           \/ \E b \in Buffers : Share(b) \/ BufferPut(b)
    PROVE  WaitOK'
<1>1. /\ ServiceOK(svc, held) /\ svc \in Services /\ svc' \in Services
      /\ dec \in Decoders /\ (dec.pc # "stopped" => Normal(Frames))
      /\ Frames \in Groups /\ held \in [Buffers -> Nat]
  BY GroupsAssumption DEF IInv, ServiceOK, UsersOK, DecOK
<1>2. CASE GetCreate
  <2>1. getting.group \in Groups /\ getting.size \in Nat
    BY <1>2 DEF GetCreate, IInv, UsersOK, GettingOK
  <2>2. CASE svc' = svc /\ dec' = dec
    BY <2>2 DEF WaitOK, NothingThere
  <2>3. ASSUME NEW b \in Free, dec' = Notified(dec, getting.group),
               svc' = Create(svc, getting.group, getting.size, b, TRUE)
        PROVE  WaitOK'
    <3>1. TRUE \in BOOLEAN
      OBVIOUS
    <3> QED BY <2>1, <2>3, <3>1, WaitCreate
  <2> QED BY <1>2, <2>2, <2>3 DEF GetCreate
<1>3. ASSUME NEW g \in Groups, Commit(g)
      PROVE  WaitOK'
  <2>1. PICK b \in Free, size \in Sizes, take \in BOOLEAN :
           svc' = Create(svc, g, size, b, take)
    BY <1>3 DEF Commit
  <2>2. size \in Nat /\ dec' = Notified(dec, g)
    BY <1>3, SizesAssumption DEF Commit
  <2> QED BY <2>1, <2>2, WaitCreate
<1>4. ASSUME NEW g \in Groups, GetSearch(g)
      PROVE  WaitOK'
  <2>1. Listed(svc, g) /\ dec' = dec
    BY <1>4, NormalListed DEF GetSearch
  <2>2. PICK size \in Sizes : \E D \in Passed(svc, g, size) :
           \/ svc' = DropUnused(svc, g, D)
           \/ \E b \in Fitting(svc, g, size) : svc' = IncRef(DropUnused(svc, g, D), b)
    BY <1>4 DEF GetSearch
  <2>3. Normal(Frames) => Shrinks(svc, svc')
    BY <1>1, <2>1, <2>2, NormalListed, SearchShrinks
  <2> QED BY <1>1, <2>1, <2>3, OthersStep DEF Shrinks
<1>5. ASSUME NEW b \in Buffers, Share(b)
      PROVE  WaitOK'
  <2>1. held[b] > 0 /\ svc' = IncRef(svc, b) /\ dec' = dec
    BY <1>1, <1>5, MaxRefAssumption DEF Share
  <2>2. svc.buf[b].alive
    BY <1>1, <2>1 DEF ServiceOK, BufferOK
  <2>3. Shrinks(svc, svc')
    BY <1>1, <2>1, <2>2, IncRefShrinks
  <2> QED BY <1>1, <2>1, <2>3, OthersStep DEF Shrinks
<1>6. ASSUME NEW b \in Buffers, BufferPut(b)
      PROVE  WaitOK'
  <2>1. /\ held[b] > 0 /\ svc' = RefDec(svc, b)
        /\ dec' = IF svc.buf[b].ref_count = 1 THEN Notified(dec, svc.buf[b].group) ELSE dec
    BY <1>6 DEF BufferPut
  <2>2. svc.buf[b].alive
    BY <1>1, <2>1 DEF ServiceOK, BufferOK
  <2>3. PICK g \in Groups : g = svc.buf[b].group
    BY <1>1, <2>2, OfBuffer
  <2>4. svc.buf[b].ref_count = held[b] /\ held[b] \in Nat /\ svc.buf[b].used
    BY <1>1, <2>1, <2>2, OfBuffer
  <2>5. /\ SameSizes(svc, svc', b)
        /\ \A k \in Groups \ {g} : svc'.group[k] = svc.group[k]
        /\ svc.buf[b].ref_count > 1 =>
              svc'.group = svc.group /\ svc'.buf[b].size = svc.buf[b].size
        /\ Listed(svc', g) => /\ svc'.group[g].callback = svc.group[g].callback
                               /\ svc'.group[g].mode = svc.group[g].mode
    BY <1>1, <2>1, <2>3, RefDecEffect
  <2>6. svc.group[Frames].list_unused \in SUBSET Buffers
    BY <1>1 DEF Services, GroupType
  <2>7. CASE held[b] > 1
    <3>1. dec' = dec /\ svc'.group[Frames] = svc.group[Frames]
      BY <2>1, <2>4, <2>5, <2>7
    <3>2. \A c \in svc.group[Frames].list_unused : svc'.buf[c].size = svc.buf[c].size
      BY <2>4, <2>5, <2>6, <2>7 DEF SameSizes
    <3>3. Shrinks(svc, svc')
      BY <1>1, <3>1, <3>2, ElsewhereShrinks
    <3> QED BY <1>1, <3>1, <3>3, OthersStep DEF Shrinks
  <2>8. CASE ~(held[b] > 1)
    <3>1. dec' = Notified(dec, g)
      BY <2>1, <2>3, <2>4, <2>8
    <3>2. /\ dec'.pc = dec.pc /\ dec'.wait = dec.wait /\ dec'.size = dec.size
          /\ ~dec'.notify => ~dec.notify
          /\ svc.group[g].callback => dec'.notify
      BY <1>1, <3>1, NotifiedFields
    <3>3. CASE g = Frames
      <4>1. dec.pc # "stopped" => dec'.notify
        BY <3>2, <3>3 DEF WaitOK
      <4>2. dec'.pc # "stopped" => Normal(Frames)'
        BY DEF IInv, UsersOK, DecOK
      <4>3. dec.pc # "stopped" => SameKind(svc, svc')
        BY <2>5, <3>2, <3>3, <4>2 DEF SameKind, Normal, Listed
      <4> QED BY <1>1, <3>2, <4>1, <4>3, OthersStep
    <3>4. CASE g # Frames
      <4>1. svc'.group[Frames] = svc.group[Frames]
        BY <1>1, <2>5, <3>4
      <4>2. ASSUME Normal(Frames)
            PROVE  Shrinks(svc, svc')
        <5>1. \A c \in svc.group[Frames].list_unused : c \in Buffers \ {b}
          BY <1>1, <2>4, <4>2, NormalListed, UnusedOwn
        <5>2. \A c \in svc.group[Frames].list_unused : svc'.buf[c].size = svc.buf[c].size
          BY <2>5, <5>1 DEF SameSizes
        <5> QED BY <1>1, <4>1, <5>2, ElsewhereShrinks
      <4> QED BY <1>1, <3>2, <4>2, OthersStep DEF Shrinks
    <3> QED BY <3>3, <3>4
  <2> QED BY <2>7, <2>8
<1> QED BY <1>2, <1>3, <1>4, <1>5, <1>6

(* A new limit comes while the decoder is paused; its callback is taken    *)
(* away when it stops.                                                     *)
LEMMA WaitConfig ==
    ASSUME IInv, IInv', WaitOK, LimitConfig \/ DecStop
    PROVE  WaitOK'
<1>1. /\ svc \in Services /\ svc' \in Services /\ dec \in Decoders
      /\ svc.group[Frames] \in GroupType /\ Frames \in Groups
      /\ svc.group \in [Groups -> GroupType]
  BY GroupsAssumption DEF IInv, ServiceOK, UsersOK, DecOK, Services
<1>2. CASE LimitConfig
  <2>1. dec' = dec /\ dec.pc \in {"paused", "stopped"}
    BY <1>2 DEF LimitConfig, Quiet
  <2>2. PICK limit \in Limits :
           svc' = [svc EXCEPT !.group[Frames].limit_size = limit[1],
                              !.group[Frames].limit_count = limit[2]]
    BY <1>2 DEF LimitConfig
  <2>3. SameKind(svc, svc')
    BY <1>1, <2>2 DEF SameKind, Services, GroupType
  <2> QED BY <1>1, <2>1, <2>3, OthersStep
<1>3. CASE DecStop
  <2>1. dec'.pc = "stopped"
    BY <1>1, <1>3 DEF DecStop, Decoders
  <2> QED BY <2>1 DEF WaitOK
<1> QED BY <1>2, <1>3

(* A get that finds none that fits gives up all. *)
LEMMA DropAll ==
    ASSUME NEW s, NEW refs, ServiceOK(s, refs), NEW g \in Groups, Listed(s, g)
    PROVE  DropUnused(s, g, s.group[g].list_unused).group[g].list_unused = {}
<1>1. PICK p, t : p = s.group[g] /\ t = DropUnused(s, g, p.list_unused)
  OBVIOUS
<1>2. p.list_unused \in SUBSET s.group[g].list_unused
  BY <1>1
<1>3. t.group = [s.group EXCEPT ![g] = Dropped(p, p.list_unused)] /\ t \in Services
  BY <1>1, <1>2, DropUnusedOK DEF ServiceOK
<1>4. s.group \in [Groups -> GroupType] /\ p \in GroupType
  BY <1>1 DEF ServiceOK, Services
<1>5. p.list_unused \in SUBSET p.list_unused
  OBVIOUS
<1>6. Dropped(p, p.list_unused).list_unused = {}
  BY <1>4, <1>5, DroppedFields
<1> QED BY <1>1, <1>3, <1>4, <1>6

(* The decoder itself goes to sleep only after it has looked.              *)
LEMMA WaitDecoder ==
    ASSUME IInv, IInv', WaitOK,
           DecResume \/ DecPause \/ DecCheck \/ DecTry \/ DecSearch \/ DecCreate
    PROVE  WaitOK'
<1>1. /\ ServiceOK(svc, held) /\ svc \in Services /\ svc' \in Services
      /\ dec \in Decoders /\ (dec.pc # "stopped" => Normal(Frames))
      /\ svc.group[Frames] \in GroupType /\ Frames \in Groups
  BY GroupsAssumption DEF IInv, ServiceOK, UsersOK, DecOK, Services
<1>2. CASE DecResume \/ DecPause \/ DecCheck
  <2>1. svc' = svc /\ dec.pc # "stopped" /\ dec'.pc \in {"paused", "try"}
    BY <1>1, <1>2 DEF DecResume, DecPause, DecCheck, Decoders
  <2> QED BY <2>1 DEF WaitOK
<1>3. CASE DecTry
  <2>1. svc' = svc /\ dec.pc # "stopped"
    BY <1>3 DEF DecTry
  <2>2. CASE Unused(svc, Frames) < 1
    <3>1. dec'.pc = "check"
      BY <1>1, <1>3, <2>2 DEF DecTry, Decoders
    <3>2. NothingThere'
      BY <2>1, <2>2 DEF NothingThere
    <3> QED BY <2>1, <3>1, <3>2 DEF WaitOK
  <2>3. CASE ~(Unused(svc, Frames) < 1)
    <3>1. dec'.pc = "search" /\ ~dec'.wait
      BY <1>1, <1>3, <2>3 DEF DecTry, Decoders
    <3> QED BY <2>1, <3>1 DEF WaitOK
  <2> QED BY <2>2, <2>3
<1>4. CASE DecSearch
  <2>1. dec.pc = "search" /\ ~dec.wait /\ Listed(svc, Frames) /\ svc.group[Frames].callback
    BY <1>1, <1>4, NormalListed DEF DecSearch, WaitOK
  <2>2. ASSUME NEW D \in Passed(svc, Frames, dec.size), NEW b \in Fitting(svc, Frames, dec.size),
               svc' = IncRef(DropUnused(svc, Frames, D), b),
               dec' = [dec EXCEPT !.pc = "check"]
        PROVE  WaitOK'
    <3>1. Shrinks(svc, svc')
      BY <1>1, <2>1, <2>2, SearchShrinks
    <3>2. svc'.group[Frames].callback
      BY <2>1, <3>1 DEF Shrinks, SameKind
    <3>3. dec'.pc = "check" /\ ~dec'.wait
      BY <1>1, <2>1, <2>2 DEF Decoders
    <3> QED BY <3>2, <3>3 DEF WaitOK
  <2>3. ASSUME NEW D \in Passed(svc, Frames, dec.size), Fitting(svc, Frames, dec.size) = {},
               svc' = DropUnused(svc, Frames, D),
               dec' = IF svc.group[Frames].mode = "INTERNAL"
                      THEN [dec EXCEPT !.pc = "create"]
                      ELSE [dec EXCEPT !.pc = "check", !.wait = TRUE]
        PROVE  WaitOK'
    <3>1. Shrinks(svc, svc')
      BY <1>1, <2>1, <2>3, SearchShrinks
    <3>2. svc'.group[Frames].callback /\ svc'.group[Frames].mode = svc.group[Frames].mode
      BY <2>1, <3>1 DEF Shrinks, SameKind
    <3>3. dec'.size = dec.size
      BY <1>1, <2>3 DEF Decoders
    <3>4. CASE svc.group[Frames].mode = "INTERNAL"
      <4>1. dec'.pc = "create" /\ ~dec'.wait
        BY <1>1, <2>1, <2>3, <3>4 DEF Decoders
      <4>2. D = svc.group[Frames].list_unused
        BY <2>3, <3>4 DEF Passed
      <4>3. DropUnused(svc, Frames, svc.group[Frames].list_unused)
               .group[Frames].list_unused = {}
        BY <1>1, <2>1, DropAll
      <4>4. svc'.group[Frames].list_unused = {}
        BY <2>3, <4>2, <4>3
      <4> QED BY <3>2, <3>4, <4>1, <4>4 DEF WaitOK
    <3>5. CASE svc.group[Frames].mode # "INTERNAL"
      <4>1. dec'.pc = "check"
        BY <1>1, <2>3, <3>5 DEF Decoders
      <4>2. NothingThere
        BY <2>3, <3>5 DEF NothingThere
      <4>3. NothingThere'
        BY <1>1, <3>1, <3>3, <4>2, StillNothing
      <4> QED BY <3>2, <4>1, <4>3 DEF WaitOK
    <3> QED BY <3>4, <3>5
  <2> QED BY <1>4, <2>2, <2>3 DEF DecSearch
<1>5. CASE DecCreate
  <2>1. /\ dec.pc = "create" /\ ~dec.wait /\ Listed(svc, Frames)
        /\ svc.group[Frames].callback /\ svc.group[Frames].mode = "INTERNAL"
        /\ ~dec.notify => svc.group[Frames].list_unused = {}
    BY <1>1, <1>5, NormalListed DEF DecCreate, WaitOK
  <2>2. ASSUME ~MayCreate(svc, Frames, dec.size), svc' = svc,
               dec' = [dec EXCEPT !.pc = "check", !.wait = TRUE]
        PROVE  WaitOK'
    <3>1. dec'.pc = "check" /\ dec'.notify = dec.notify /\ dec'.size = dec.size
      BY <1>1, <2>2 DEF Decoders
    <3>2. ~dec'.notify => NothingThere'
      BY <2>1, <2>2, <3>1 DEF NothingThere
    <3> QED BY <2>1, <2>2, <3>1, <3>2 DEF WaitOK
  <2>3. ASSUME NEW b \in Free, svc' = Create(svc, Frames, dec.size, b, TRUE),
               dec' = Notified([dec EXCEPT !.pc = "check"], Frames)
        PROVE  WaitOK'
    <3>1. b \in Buffers /\ ~svc.buf[b].alive /\ dec.size \in Nat /\ TRUE \in BOOLEAN
      BY <1>1 DEF Free, Decoders
    <3>2. SameKind(svc, Create(svc, Frames, dec.size, b, TRUE))
      BY <1>1, <2>1, <3>1, CreateShrinks
    <3>3. svc'.group[Frames].callback
      BY <2>1, <2>3, <3>2 DEF SameKind
    <3>4. [dec EXCEPT !.pc = "check"] \in Decoders
      BY <1>1 DEF Decoders
    <3>5. dec'.pc = "check" /\ ~dec'.wait
      BY <1>1, <2>1, <2>3, <3>4, NotifiedFields DEF Decoders
    <3> QED BY <3>3, <3>5 DEF WaitOK
  <2> QED BY <1>5, <2>2, <2>3 DEF DecCreate
<1> QED BY <1>2, <1>3, <1>4, <1>5

(* The steps together. *)
LEMMA WaitStep ==
    ASSUME IInv, IInv', WaitOK, [Next]_vars
    PROVE  WaitOK'
<1>1. ASSUME NEW g \in Groups,
             GroupGet(g) \/ GroupClear(g) \/ GroupPut(g) \/ Commit(g) \/ GetSearch(g)
      PROVE  WaitOK'
  BY <1>1, WaitGroups, WaitBuffers
<1>2. ASSUME NEW b \in Buffers, Share(b) \/ BufferPut(b)
      PROVE  WaitOK'
  BY <1>2, WaitBuffers
<1>3. CASE GetCreate
  BY <1>3, WaitBuffers
<1>4. CASE LimitConfig \/ DecStop
  BY <1>4, WaitConfig
<1>5. CASE DecResume \/ DecPause \/ DecCheck \/ DecTry \/ DecSearch \/ DecCreate
  BY <1>5, WaitDecoder
<1>6. CASE UNCHANGED vars
  BY <1>6 DEF vars, WaitOK, NothingThere
<1> QED BY <1>1, <1>2, <1>3, <1>4, <1>5, <1>6 DEF Next

(* The decoder never sleeps over a buffer it could have, nor over room for *)
(* one, without a notification: no call of any thread, at any point, takes *)
(* away the reason to sleep in silence.                                    *)
THEOREM NoSleepOverBuffers == Spec => []SleepJustified
<1>1. Init => WaitOK
  BY DEF Init, WaitOK
<1>2. IInv /\ IInv' /\ WaitOK /\ [Next]_vars => WaitOK'
  BY WaitStep
<1>3. IInv /\ WaitOK => SleepJustified
  <2> SUFFICES ASSUME NothingThere
               PROVE  \/ Unused(svc, Frames) < 1
                      \/ /\ Fitting(svc, Frames, dec.size) = {}
                         /\ svc.group[Frames].mode = "INTERNAL"
                               => ~MayCreate(svc, Frames, dec.size)
    BY DEF WaitOK, SleepJustified
  <2> QED BY DEF NothingThere, Fitting
<1> QED BY <1>1, <1>2, <1>3, Invariant, PTL DEF Spec
=============================================================================
