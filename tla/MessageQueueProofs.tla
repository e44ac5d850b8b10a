------------------------- MODULE MessageQueueProofs -------------------------
(***************************************************************************)
(* Proofs about MessageQueue, for any number of threads and messages: the  *)
(* mutex makes each list operation one step of a Mailbox, every block has  *)
(* one owner, and the signal after the unlock loses no wake-up.            *)
(***************************************************************************)
EXTENDS MessageQueue, TLAPS, FiniteSetTheorems, SequenceTheorems

\* The places of put and get between a lock and its unlock.
Locked == {"put_add", "put_link", "put_unlock", "get_look", "get_del", "got",
           "empty", "woken"}

\* Only the holder of the mutex is between a lock and its unlock.
MutexHeld == \A t \in Threads : pc[t] \in Locked => mutex = t

\* What a thread read of the list is still the list when it writes the links.
SeenIsList ==
    \A t \in Threads :
        /\ pc[t] \in {"put_link", "get_del"} => seen[t] = mblist
        /\ pc[t] = "get_del" => mblist # <<>>

\* Where a get is, it is there for its timeout, and a timed one has looks left.
GetMode ==
    \A c \in Consumers :
        /\ pc[c] \in {"wait", "relock", "woken"} => mode[c] = "forever"
        /\ pc[c] = "empty" => mode[c] # "forever"
        /\ pc[c] = "sleep" => mode[c] = "timed"
        /\ pc[c] \in {"get_lock", "get_look", "empty", "sleep"}
                /\ mode[c] = "timed" => polls[c] >= 1

\* A block is in the hands of one thread or in the list once.
Putting(p) == pc[p] \in {"put_lock", "put_add", "put_link"}
Listed(m) == \E i \in 1 .. Len(mblist) : mblist[i] = m

ListOnce ==
    \A i, j \in 1 .. Len(mblist) : mblist[i] = mblist[j] => i = j

PutOnce ==
    \A p \in Producers : Putting(p) =>
        /\ hand[p] \in Messages \ unsent
        /\ ~ Listed(hand[p])
        /\ \A q \in Producers : Putting(q) /\ hand[q] = hand[p] => q = p
        /\ \A c \in Consumers : hand[c] # hand[p]

GotOnce ==
    \A c \in Consumers : hand[c] # NoMessage =>
        /\ hand[c] \notin unsent
        /\ ~ Listed(hand[c])
        /\ \A d \in Consumers : hand[d] = hand[c] => d = c

UnsentUnlisted == \A m \in unsent : ~ Listed(m)

OneOwner == ListOnce /\ PutOnce /\ GotOnce /\ UnsentUnlisted

\* Types and the lock; the inductive invariant.
LockInv == TypeOK /\ MutexHeld /\ SeenIsList /\ GetMode
IInv == LockInv /\ OneOwner /\ NoLostWakeup

-----------------------------------------------------------------------------
(* The steps of the queue, and what they do to it                          *)

\* Every step is one action of one thread.
LEMMA NextCases ==
    ASSUME [Next]_vars
    PROVE  \/ \E p \in Producers :
                \/ \E m \in Messages : Put(p, m)
                \/ PutLock(p) \/ PutAdd(p) \/ PutLink(p) \/ PutUnlock(p)
                \/ Signal(p)
           \/ \E c \in Consumers :
                \/ Get(c) \/ GetLock(c) \/ GetLook(c) \/ GetDel(c)
                \/ GetReturn(c) \/ GetEmpty(c) \/ EmptyUnlock(c)
                \/ SleepOver(c) \/ CondWait(c) \/ SpuriousWakeup(c)
                \/ Relock(c) \/ Again(c)
           \/ UNCHANGED vars
  BY Zenon DEF Next, PutStep, GetStep

\* What list_add writes: one block more, in front.
LEMMA AddProperties ==
    ASSUME TypeOK, NEW m \in Messages
    PROVE  /\ <<m>> \o mblist \in Seq(Messages)
           /\ Len(<<m>> \o mblist) = Len(mblist) + 1
           /\ (<<m>> \o mblist)[1] = m
           /\ \A i \in 2 .. Len(mblist) + 1 : (<<m>> \o mblist)[i] = mblist[i - 1]
<1>1. /\ <<m>> \in Seq(Messages)
      /\ Len(<<m>>) = 1
      /\ <<m>>[1] = m
  OBVIOUS
<1>2. mblist \in Seq(Messages) /\ Len(mblist) \in Nat
  BY LenProperties DEF TypeOK
<1> QED
  BY <1>1, <1>2, ConcatProperties

\* What list_del leaves: the list without its head.
LEMMA DelProperties ==
    ASSUME TypeOK, mblist # <<>>
    PROVE  /\ Head(mblist) \in Messages
           /\ Head(mblist) = mblist[1]
           /\ Tail(mblist) \in Seq(Messages)
           /\ Len(mblist) \in Nat \ {0}
           /\ Len(Tail(mblist)) = Len(mblist) - 1
           /\ \A i \in 1 .. Len(Tail(mblist)) : Tail(mblist)[i] = mblist[i + 1]
<1>1. mblist \in Seq(Messages)
  BY DEF TypeOK
<1>2. Head(mblist) = mblist[1]
  BY <1>1
<1> QED
  BY <1>1, <1>2, HeadTailProperties, EmptySeq

-----------------------------------------------------------------------------
(* Types and mutual exclusion                                              *)

\* Every step keeps the types, the lock and what is read under it.
LEMMA LockStep == ASSUME LockInv, PutOnce, [Next]_vars PROVE LockInv'
<1> USE MessageQueueAssumption
    DEF LockInv, TypeOK, MutexHeld, SeenIsList, GetMode, Locked, Threads, Goto
<1>1. ASSUME NEW p \in Producers, NEW m \in Messages, Put(p, m) PROVE LockInv'
  BY <1>1 DEF Put
<1>2. ASSUME NEW p \in Producers, PutLock(p) PROVE LockInv'
  BY <1>2 DEF PutLock, Lock
<1>3. ASSUME NEW p \in Producers, PutAdd(p) PROVE LockInv'
  BY <1>3 DEF PutAdd
<1>4. ASSUME NEW p \in Producers, PutLink(p) PROVE LockInv'
  <2>1. seen[p] = mblist /\ hand[p] \in Messages
    BY <1>4 DEF PutLink, PutOnce, Putting
  <2>2. mblist' \in Seq(Messages)
    BY <1>4, <2>1, AddProperties DEF PutLink
  <2>3. QED
    BY <1>4, <2>2 DEF PutLink
<1>5. ASSUME NEW p \in Producers, PutUnlock(p) PROVE LockInv'
  BY <1>5 DEF PutUnlock, Unlock
<1>6. ASSUME NEW p \in Producers, Signal(p) PROVE LockInv'
  <2>1. CASE Waiting = {}
    BY <1>6, <2>1, ZenonT(60) DEF Signal
  <2>2. ASSUME NEW c \in Waiting,
               pc' = [pc EXCEPT ![p] = "idle", ![c] = "relock"]
        PROVE  LockInv'
    <3>1. c \in Consumers /\ c # p /\ pc[c] = "wait"
      BY DEF Waiting
    <3>2. \A t \in Threads : pc'[t] = IF t = c THEN "relock"
                                      ELSE IF t = p THEN "idle" ELSE pc[t]
      BY <2>2, <3>1
    <3>3. TypeOK'
      BY <1>6, <2>2, <3>1 DEF Signal
    <3>4. MutexHeld' /\ SeenIsList'
      BY <1>6, <3>2 DEF Signal
    <3>5. GetMode'
      BY <1>6, <3>1, <3>2 DEF Signal
    <3>6. QED
      BY <3>3, <3>4, <3>5
  <2>3. QED
    BY <1>6, <2>1, <2>2 DEF Signal
<1>7. ASSUME NEW c \in Consumers, Get(c) PROVE LockInv'
  BY <1>7 DEF Get
<1>8. ASSUME NEW c \in Consumers, GetLock(c) PROVE LockInv'
  BY <1>8 DEF GetLock, Lock
<1>9. ASSUME NEW c \in Consumers, GetLook(c) PROVE LockInv'
  BY <1>9 DEF GetLook
<1>10. ASSUME NEW c \in Consumers, GetDel(c) PROVE LockInv'
  <2>1. /\ mblist # <<>>
        /\ mblist' = Tail(mblist)
        /\ Head(seen[c]) = Head(mblist)
    BY <1>10 DEF GetDel
  <2>2. mblist' \in Seq(Messages) /\ Head(seen[c]) \in Messages
    BY <2>1, DelProperties
  <2>3. QED
    BY <1>10, <2>2 DEF GetDel
<1>11. ASSUME NEW c \in Consumers, GetReturn(c) PROVE LockInv'
  BY <1>11 DEF GetReturn, Unlock
<1>12. ASSUME NEW c \in Consumers, GetEmpty(c) PROVE LockInv'
  BY <1>12 DEF GetEmpty
<1>13. ASSUME NEW c \in Consumers, EmptyUnlock(c) PROVE LockInv'
  BY <1>13 DEF EmptyUnlock, Unlock
<1>14. ASSUME NEW c \in Consumers, SleepOver(c) PROVE LockInv'
  BY <1>14 DEF SleepOver
<1>15. ASSUME NEW c \in Consumers, CondWait(c) PROVE LockInv'
  BY <1>15 DEF CondWait, Unlock
<1>16. ASSUME NEW c \in Consumers, SpuriousWakeup(c) PROVE LockInv'
  BY <1>16 DEF SpuriousWakeup
<1>17. ASSUME NEW c \in Consumers, Relock(c) PROVE LockInv'
  BY <1>17 DEF Relock, Lock
<1>18. ASSUME NEW c \in Consumers, Again(c) PROVE LockInv'
  BY <1>18 DEF Again, Unlock
<1>19. CASE UNCHANGED vars
  BY <1>19 DEF vars
<1>20. QED
  BY <1>1, <1>2, <1>3, <1>4, <1>5, <1>6, <1>7, <1>8, <1>9, <1>10, <1>11,
     <1>12, <1>13, <1>14, <1>15, <1>16, <1>17, <1>18, <1>19, NextCases, Zenon

-----------------------------------------------------------------------------
(* Every block has one owner                                               *)

\* A step that moves no block and starts no put keeps the owners.
LEMMA OwnersKept ==
    ASSUME OneOwner, UNCHANGED <<mblist, hand, unsent>>,
           \A p \in Producers : Putting(p)' => Putting(p)
    PROVE  OneOwner'
  BY DEF OneOwner, ListOnce, PutOnce, GotOnce, UnsentUnlisted, Listed

\* Blocks change owner at Put, PutLink, GetDel and where they are released.
LEMMA OwnerStep == ASSUME LockInv, OneOwner, [Next]_vars PROVE OneOwner'
<1> USE MessageQueueAssumption DEF LockInv, TypeOK, Threads, Goto
<1>1. ASSUME NEW p \in Producers, NEW m \in Messages, Put(p, m) PROVE OneOwner'
  <2>1. /\ m \in unsent /\ unsent' = unsent \ {m} /\ mblist' = mblist
        /\ \A t \in Threads : hand'[t] = IF t = p THEN m ELSE hand[t]
        /\ \A q \in Producers : Putting(q)' => Putting(q) \/ q = p
    BY <1>1 DEF Put, Putting
  <2>2. \A x : Listed(x)' <=> Listed(x)
    BY <2>1 DEF Listed
  <2>3. ListOnce' /\ UnsentUnlisted'
    BY <2>1, <2>2 DEF OneOwner, ListOnce, UnsentUnlisted
  <2>4. PutOnce'
    <3>1. /\ ~ Listed(m)
          /\ \A q \in Producers : Putting(q) => hand[q] # m
          /\ \A c \in Consumers : hand[c] # m
      BY <2>1 DEF OneOwner, PutOnce, GotOnce, UnsentUnlisted
    <3> SUFFICES ASSUME NEW q \in Producers, Putting(q)'
                 PROVE  /\ hand'[q] \in Messages \ unsent'
                        /\ ~ Listed(hand'[q])
                        /\ \A r \in Producers :
                                Putting(r)' /\ hand'[r] = hand'[q] => r = q
                        /\ \A c \in Consumers : hand'[c] # hand'[q]
      BY <2>2 DEF PutOnce
    <3>2. CASE q = p
      BY <2>1, <3>1, <3>2
    <3>3. CASE q # p
      BY <2>1, <3>1, <3>3 DEF OneOwner, PutOnce
    <3>4. QED
      BY <3>2, <3>3
  <2>5. GotOnce'
    BY <2>1, <2>2 DEF OneOwner, GotOnce
  <2>6. QED
    BY <2>3, <2>4, <2>5 DEF OneOwner
<1>2. ASSUME NEW p \in Producers, PutLink(p) PROVE OneOwner'
  <2>1. /\ seen[p] = mblist /\ hand[p] \in Messages
        /\ Putting(p) /\ UNCHANGED <<hand, unsent>>
        /\ mblist' = <<hand[p]>> \o mblist
    BY <1>2 DEF PutLink, SeenIsList, OneOwner, PutOnce, Putting
  <2>2. /\ Len(mblist) \in Nat
        /\ Len(mblist') = Len(mblist) + 1 /\ mblist'[1] = hand[p]
        /\ \A i \in 2 .. Len(mblist') : mblist'[i] = mblist[i - 1]
    BY <2>1, AddProperties, LenProperties
  <2>3. \A q \in Producers : Putting(q)' <=> Putting(q) /\ q # p
    BY <1>2 DEF PutLink, Putting
  <2>4. \A x : Listed(x)' => Listed(x) \/ x = hand[p]
    <3> SUFFICES ASSUME NEW i \in 1 .. Len(mblist'), mblist'[i] # hand[p]
                 PROVE  \E j \in 1 .. Len(mblist) : mblist[j] = mblist'[i]
      BY DEF Listed
    <3>1. i - 1 \in 1 .. Len(mblist) /\ mblist[i - 1] = mblist'[i]
      BY <2>2
    <3>2. QED
      BY <3>1
  <2>5. ListOnce'
    <3> SUFFICES ASSUME NEW i \in 1 .. Len(mblist'), NEW j \in 1 .. Len(mblist'),
                        mblist'[i] = mblist'[j]
                 PROVE  i = j
      BY DEF ListOnce
    <3>1. \A k \in 1 .. Len(mblist) : mblist[k] # hand[p]
      BY <2>1 DEF OneOwner, PutOnce, Listed
    <3>2. \A k \in 1 .. Len(mblist') : k # 1 =>
                k - 1 \in 1 .. Len(mblist) /\ mblist'[k] = mblist[k - 1]
      BY <2>2
    <3>3. CASE i # 1 /\ j # 1
      <4>1. /\ i - 1 \in 1 .. Len(mblist) /\ j - 1 \in 1 .. Len(mblist)
            /\ mblist[i - 1] = mblist[j - 1]
        BY <3>2, <3>3
      <4>2. i - 1 = j - 1
        BY <4>1 DEF OneOwner, ListOnce
      <4>3. QED
        BY <4>2
    <3>4. CASE i = 1 \/ j = 1
      BY <2>2, <3>1, <3>2, <3>4, ZenonT(60)
    <3>5. QED
      BY <3>3, <3>4
  <2>6. PutOnce'
    BY <2>1, <2>3, <2>4 DEF OneOwner, PutOnce
  <2>7. GotOnce' /\ UnsentUnlisted'
    BY <2>1, <2>4 DEF OneOwner, PutOnce, GotOnce, UnsentUnlisted
  <2>8. QED
    BY <2>5, <2>6, <2>7 DEF OneOwner
<1>3. ASSUME NEW p \in Producers, Signal(p) PROVE OneOwner'
  <2>1. /\ UNCHANGED <<mblist, unsent>>
        /\ \A c \in Consumers : hand'[c] = hand[c]
        /\ \A q \in Producers : q # p => hand'[q] = hand[q]
    BY <1>3 DEF Signal
  <2>2. \A q \in Producers : Putting(q)' => Putting(q) /\ q # p
    BY <1>3 DEF Signal, Putting, Waiting
  <2>3. QED
    BY <2>1, <2>2 DEF OneOwner, ListOnce, PutOnce, GotOnce, UnsentUnlisted, Listed
<1>4. ASSUME NEW c \in Consumers, GetDel(c) PROVE OneOwner'
  <2>1. /\ mblist # <<>> /\ mblist' = Tail(mblist) /\ unsent' = unsent
        /\ \A t \in Threads : hand'[t] = IF t = c THEN Head(mblist) ELSE hand[t]
        /\ \A q \in Producers : Putting(q)' <=> Putting(q)
    BY <1>4 DEF GetDel, SeenIsList, Putting
  <2>2. /\ Len(mblist) \in Nat \ {0} /\ Len(mblist') = Len(mblist) - 1
        /\ Head(mblist) = mblist[1] /\ Head(mblist) \in Messages
        /\ \A i \in 1 .. Len(mblist') : mblist'[i] = mblist[i + 1]
    BY <2>1, DelProperties
  <2>3. \A x : Listed(x)' => Listed(x) /\ x # Head(mblist)
    <3> SUFFICES ASSUME NEW i \in 1 .. Len(mblist')
                 PROVE  Listed(mblist'[i]) /\ mblist'[i] # Head(mblist)
      BY DEF Listed
    <3>1. i + 1 \in 1 .. Len(mblist) /\ 1 \in 1 .. Len(mblist)
                /\ mblist[i + 1] = mblist'[i] /\ i + 1 # 1
      BY <2>2
    <3>2. QED
      BY <2>2, <3>1 DEF OneOwner, ListOnce, Listed
  <2>4. Listed(Head(mblist))
    BY <2>2 DEF Listed
  <2>5. ListOnce'
    <3> SUFFICES ASSUME NEW i \in 1 .. Len(mblist'), NEW j \in 1 .. Len(mblist'),
                        mblist'[i] = mblist'[j]
                 PROVE  i = j
      BY DEF ListOnce
    <3>1. /\ i + 1 \in 1 .. Len(mblist) /\ j + 1 \in 1 .. Len(mblist)
          /\ mblist[i + 1] = mblist[j + 1]
      BY <2>2
    <3>2. i + 1 = j + 1
      BY <3>1 DEF OneOwner, ListOnce
    <3>3. QED
      BY <3>2
  <2>6. PutOnce'
    BY <2>1, <2>3, <2>4, ZenonT(60) DEF OneOwner, PutOnce
  <2>7. GotOnce'
    <3>1. /\ Head(mblist) \notin unsent
          /\ \A d \in Consumers : hand[d] # Head(mblist)
      BY <2>2, <2>4 DEF OneOwner, GotOnce, UnsentUnlisted
    <3> SUFFICES ASSUME NEW d \in Consumers, hand'[d] # NoMessage
                 PROVE  /\ hand'[d] \notin unsent
                        /\ ~ Listed(hand[d])'
                        /\ \A e \in Consumers : hand'[e] = hand'[d] => e = d
      BY <2>1 DEF GotOnce
    <3>2. CASE d = c
      BY <2>1, <2>3, <3>1, <3>2
    <3>3. CASE d # c
      BY <2>1, <2>3, <3>1, <3>3 DEF OneOwner, GotOnce
    <3>4. QED
      BY <3>2, <3>3
  <2>8. UnsentUnlisted'
    BY <2>1, <2>3 DEF OneOwner, UnsentUnlisted
  <2>9. QED
    BY <2>5, <2>6, <2>7, <2>8 DEF OneOwner
<1>5. ASSUME NEW c \in Consumers, GetReturn(c) PROVE OneOwner'
  <2>1. /\ UNCHANGED <<mblist, unsent>>
        /\ \A t \in Threads : hand'[t] = IF t = c THEN NoMessage ELSE hand[t]
        /\ \A q \in Producers : Putting(q)' => Putting(q)
    BY <1>5 DEF GetReturn, Unlock, Putting
  <2>2. \A x : Listed(x)' <=> Listed(x)
    BY <2>1 DEF Listed
  <2>3. PutOnce'
    <3> SUFFICES ASSUME NEW q \in Producers, Putting(q)'
                 PROVE  /\ hand'[q] \in Messages \ unsent
                        /\ ~ Listed(hand'[q])
                        /\ \A r \in Producers :
                                Putting(r)' /\ hand'[r] = hand'[q] => r = q
                        /\ \A d \in Consumers : hand'[d] # hand'[q]
      BY <2>1, <2>2 DEF PutOnce
    <3>1. /\ Putting(q) /\ hand'[q] = hand[q]
          /\ \A r \in Producers : hand'[r] = hand[r]
      BY <2>1
    <3>2. /\ hand[q] \in Messages \ unsent
          /\ ~ Listed(hand[q])
          /\ \A r \in Producers : Putting(r) /\ hand[r] = hand[q] => r = q
          /\ \A d \in Consumers : hand[d] # hand[q]
      BY <3>1 DEF OneOwner, PutOnce
    <3>3. \A d \in Consumers : hand'[d] # hand[q]
      BY <2>1, <3>2
    <3>4. QED
      BY <2>1, <3>1, <3>2, <3>3
  <2>4. ListOnce' /\ GotOnce' /\ UnsentUnlisted'
    BY <2>1, <2>2 DEF OneOwner, ListOnce, GotOnce, UnsentUnlisted
  <2>5. QED
    BY <2>3, <2>4 DEF OneOwner
<1>6. ASSUME NEW p \in Producers, PutLock(p) \/ PutAdd(p) \/ PutUnlock(p)
      PROVE  OneOwner'
  BY <1>6, OwnersKept DEF PutLock, Lock, PutAdd, PutUnlock, Unlock, Putting
<1>7. ASSUME NEW c \in Consumers,
             \/ Get(c) \/ GetLock(c) \/ GetLook(c) \/ GetEmpty(c)
             \/ EmptyUnlock(c) \/ SleepOver(c) \/ CondWait(c)
             \/ SpuriousWakeup(c) \/ Relock(c) \/ Again(c)
      PROVE  OneOwner'
  <2>1. /\ UNCHANGED <<mblist, hand, unsent>>
        /\ \A t \in Threads \ {c} : pc'[t] = pc[t]
    BY <1>7 DEF Get, GetLock, Lock, GetLook, GetEmpty, EmptyUnlock, Unlock,
                SleepOver, CondWait, SpuriousWakeup, Relock, Again
  <2>2. QED
    BY <2>1, OwnersKept DEF Putting
<1>8. CASE UNCHANGED vars
  BY <1>8, OwnersKept DEF vars, Putting
<1>9. QED
  BY <1>1, <1>2, <1>3, <1>4, <1>5, <1>6, <1>7, <1>8, NextCases, Zenon

-----------------------------------------------------------------------------
(* No wake-up is lost                                                      *)

\* The threads that answer for the blocks of the list can be counted.
LEMMA CountsAreNat ==
    /\ IsFiniteSet(Signalling) /\ Cardinality(Signalling) \in Nat
    /\ IsFiniteSet(Awake) /\ Cardinality(Awake) \in Nat
<1>1. Signalling \in SUBSET Producers /\ Awake \in SUBSET Consumers
  BY DEF Signalling, Awake
<1>2. IsFiniteSet(Signalling) /\ IsFiniteSet(Awake)
  BY <1>1, MessageQueueAssumption, FS_Subset
<1>3. QED
  BY <1>2, FS_CardinalityType

\* A step that adds no block and no sleeper, and takes no thread off its way
\* to a signal or to the list, keeps the count.
LEMMA WakeupKept ==
    ASSUME NoLostWakeup, mblist' = mblist, Waiting' \subseteq Waiting,
           Signalling \subseteq Signalling', Awake \subseteq Awake',
           IsFiniteSet(Signalling'), IsFiniteSet(Awake'), Len(mblist) \in Nat
    PROVE  NoLostWakeup'
<1>1. /\ Cardinality(Signalling) <= Cardinality(Signalling')
      /\ Cardinality(Awake) <= Cardinality(Awake')
  BY FS_Subset
<1>2. /\ Cardinality(Signalling') \in Nat
      /\ Cardinality(Awake') \in Nat
  BY FS_CardinalityType
<1>3. CASE Waiting' = {}
  BY <1>3 DEF NoLostWakeup
<1>4. CASE Waiting' # {}
  <2>1. Len(mblist') <= Cardinality(Signalling') + Cardinality(Awake')
    BY <1>1, <1>2, <1>4, CountsAreNat DEF NoLostWakeup
  <2>2. QED
    BY <2>1 DEF NoLostWakeup
<1>5. QED
  BY <1>3, <1>4

\* PutLink adds a block and a thread that will signal, the signal hands its
\* duty to the consumer it wakes, GetDel takes a block with the consumer that
\* was on its way to it, and a consumer starts to wait on an empty list only.
LEMMA WakeupStep ==
    ASSUME LockInv, LockInv', NoLostWakeup, PutOnce, [Next]_vars
    PROVE  NoLostWakeup'
<1> USE MessageQueueAssumption DEF LockInv, TypeOK, Threads, Goto
<1>a. Len(mblist) \in Nat /\ Len(mblist') \in Nat
  BY LenProperties
<1>b. /\ IsFiniteSet(Signalling') /\ Cardinality(Signalling') \in Nat
      /\ IsFiniteSet(Awake') /\ Cardinality(Awake') \in Nat
  <2>1. Signalling' \in SUBSET Producers /\ Awake' \in SUBSET Consumers
    BY DEF Signalling, Awake
  <2>2. IsFiniteSet(Signalling') /\ IsFiniteSet(Awake')
    BY <2>1, FS_Subset
  <2>3. QED
    BY <2>2, FS_CardinalityType
<1>1. ASSUME NEW p \in Producers, PutLink(p) PROVE NoLostWakeup'
  <2>1. /\ seen[p] = mblist /\ hand[p] \in Messages
        /\ mblist' = <<hand[p]>> \o mblist
    BY <1>1 DEF PutLink, SeenIsList, PutOnce, Putting
  <2>2. Len(mblist') = Len(mblist) + 1
    BY <2>1, AddProperties
  <2>3. /\ Waiting' = Waiting /\ Awake' = Awake
        /\ Signalling' = Signalling \cup {p} /\ p \notin Signalling
    BY <1>1 DEF PutLink, Waiting, Awake, Signalling
  <2>4. Cardinality(Signalling') = Cardinality(Signalling) + 1
    BY <2>3, CountsAreNat, FS_AddElement
  <2>5. QED
    BY <1>a, <2>2, <2>3, <2>4, CountsAreNat DEF NoLostWakeup
<1>2. ASSUME NEW p \in Producers, Signal(p) PROVE NoLostWakeup'
  <2>1. CASE Waiting = {}
    <3>1. Waiting' = {}
      BY <1>2, <2>1 DEF Signal, Waiting
    <3>2. QED
      BY <3>1 DEF NoLostWakeup
  <2>2. ASSUME NEW c \in Waiting,
               pc' = [pc EXCEPT ![p] = "idle", ![c] = "relock"]
        PROVE  NoLostWakeup'
    <3>1. c \in Consumers /\ c # p /\ pc[c] = "wait" /\ mode[c] = "forever"
      BY DEF Waiting, GetMode
    <3>2. \A t \in Threads : pc'[t] = IF t = c THEN "relock"
                                      ELSE IF t = p THEN "idle" ELSE pc[t]
      BY <2>2, <3>1
    <3>3. mblist' = mblist /\ mode' = mode /\ pc[p] = "signal"
      BY <1>2 DEF Signal
    <3>4. Signalling' = Signalling \ {p} /\ p \in Signalling
      BY <3>1, <3>2, <3>3 DEF Signalling
    <3>5. Awake' = Awake \cup {c} /\ c \notin Awake
      <4>1. \A d \in Consumers : pc'[d] = IF d = c THEN "relock" ELSE pc[d]
        BY <3>2
      <4>2. \A d \in Consumers : d \in Awake' <=> d \in Awake \/ d = c
        BY <3>1, <3>3, <4>1 DEF Awake
      <4>3. QED
        BY <3>1, <4>2 DEF Awake
    <3>6. /\ Cardinality(Signalling') = Cardinality(Signalling) - 1
          /\ Cardinality(Awake') = Cardinality(Awake) + 1
      BY <3>4, <3>5, CountsAreNat, FS_AddElement, FS_RemoveElement
    <3>7. Waiting # {}
      OBVIOUS
    <3>8. QED
      BY <1>a, <3>3, <3>6, <3>7, CountsAreNat DEF NoLostWakeup
  <2>3. QED
    BY <1>2, <2>1, <2>2 DEF Signal
<1>3. ASSUME NEW c \in Consumers, GetDel(c) PROVE NoLostWakeup'
  <2>1. mblist # <<>> /\ mblist' = Tail(mblist)
    BY <1>3 DEF GetDel, SeenIsList
  <2>2. Len(mblist') = Len(mblist) - 1
    BY <2>1, DelProperties
  <2>3. Waiting' = Waiting /\ Signalling' = Signalling /\ Awake' = Awake \ {c}
    BY <1>3 DEF GetDel, Waiting, Awake, Signalling
  <2>4. Cardinality(Awake') = IF c \in Awake THEN Cardinality(Awake) - 1
                                             ELSE Cardinality(Awake)
    BY <2>3, CountsAreNat, FS_RemoveElement
  <2>5. QED
    BY <1>a, <1>b, <2>2, <2>3, <2>4, CountsAreNat, SMTT(60) DEF NoLostWakeup
<1>4. ASSUME NEW c \in Consumers, CondWait(c) PROVE NoLostWakeup'
  <2>1. Len(mblist') = 0
    BY <1>4 DEF CondWait
  <2>2. QED
    BY <1>b, <2>1 DEF NoLostWakeup
<1>5. ASSUME NEW p \in Producers,
             \/ \E m \in Messages : Put(p, m)
             \/ PutLock(p) \/ PutAdd(p) \/ PutUnlock(p)
      PROVE  NoLostWakeup'
  <2>1. /\ mblist' = mblist /\ mode' = mode
        /\ \A t \in Threads \ {p} : pc'[t] = pc[t]
        /\ pc[p] \in {"put_unlock", "signal"} =>
                pc'[p] \in {"put_unlock", "signal"}
    BY <1>5 DEF Put, PutLock, Lock, PutAdd, PutUnlock, Unlock
  <2>2. Waiting' \subseteq Waiting /\ Signalling \subseteq Signalling'
            /\ Awake \subseteq Awake'
    BY <2>1 DEF Waiting, Awake, Signalling
  <2>3. QED
    BY <1>a, <1>b, <2>1, <2>2, WakeupKept
<1>6. ASSUME NEW c \in Consumers,
             \/ Get(c) \/ GetLock(c) \/ GetLook(c) \/ GetReturn(c)
             \/ GetEmpty(c) \/ EmptyUnlock(c) \/ SleepOver(c)
             \/ SpuriousWakeup(c) \/ Relock(c) \/ Again(c)
      PROVE  NoLostWakeup'
  <2>1. /\ mblist' = mblist
        /\ \A t \in Threads \ {c} : pc'[t] = pc[t]
        /\ \A d \in Consumers \ {c} : mode'[d] = mode[d]
        /\ pc'[c] # "wait"
        /\ c \in Awake => c \in Awake'
    BY <1>6 DEF Get, GetLock, Lock, GetLook, GetReturn, GetEmpty, EmptyUnlock,
                Unlock, SleepOver, SpuriousWakeup, Relock, Again, Awake
  <2>2. Waiting' \subseteq Waiting /\ Signalling \subseteq Signalling'
    BY <2>1 DEF Waiting, Signalling
  <2>3. Awake \subseteq Awake'
    BY <2>1 DEF Awake
  <2>4. QED
    BY <1>a, <1>b, <2>1, <2>2, <2>3, WakeupKept
<1>7. CASE UNCHANGED vars
  <2>1. mblist' = mblist /\ Waiting' = Waiting /\ Signalling' = Signalling
            /\ Awake' = Awake
    BY <1>7 DEF vars, Waiting, Signalling, Awake
  <2>2. QED
    BY <2>1 DEF NoLostWakeup
<1>8. QED
  BY <1>1, <1>2, <1>3, <1>4, <1>5, <1>6, <1>7, NextCases, Zenon

-----------------------------------------------------------------------------
(* The theorems                                                            *)

\* The initial state of the queue.
LEMMA InitInv == Init => IInv
<1> SUFFICES ASSUME Init PROVE IInv
  OBVIOUS
<1>1. LockInv
  BY MessageQueueAssumption DEF Init, LockInv, TypeOK, MutexHeld, SeenIsList,
     GetMode, Locked, Threads
<1>2. OneOwner
  BY DEF Init, OneOwner, ListOnce, PutOnce, GotOnce, UnsentUnlisted, Listed,
     Putting, Threads
<1>3. NoLostWakeup
  BY DEF Init, NoLostWakeup, Waiting, Threads
<1>4. QED
  BY <1>1, <1>2, <1>3 DEF IInv

\* The invariant of the message queue.
THEOREM Inductive == Spec => []IInv
<1>1. IInv /\ [Next]_vars => IInv'
  <2> SUFFICES ASSUME IInv, [Next]_vars PROVE IInv'
    OBVIOUS
  <2>1. LockInv'
    BY LockStep DEF IInv, OneOwner
  <2>2. OneOwner'
    BY OwnerStep DEF IInv
  <2>3. NoLostWakeup'
    BY <2>1, WakeupStep DEF IInv, OneOwner
  <2>4. QED
    BY <2>1, <2>2, <2>3 DEF IInv
<1>2. QED
  BY <1>1, InitInv, PTL DEF Spec

\* One owner per block, counted as BlocksOwnedOnce counts it.
LEMMA OwnersCount == ASSUME IInv PROVE BlocksOwnedOnce
<1> SUFFICES ASSUME NEW m \in Messages
             PROVE
        LET inList  == {i \in 1 .. Len(mblist) : mblist[i] = m}
            putting == {p \in Producers : hand[p] = m /\
                            pc[p] \in {"put_lock", "put_add", "put_link"}}
            getting == {c \in Consumers : hand[c] = m}
        IN  /\ Cardinality(inList) + Cardinality(putting)
                    + Cardinality(getting) <= 1
            /\ m \in unsent => inList = {} /\ putting = {} /\ getting = {}
  BY DEF BlocksOwnedOnce
<1> DEFINE inList  == {i \in 1 .. Len(mblist) : mblist[i] = m}
           putting == {p \in Producers : hand[p] = m /\
                            pc[p] \in {"put_lock", "put_add", "put_link"}}
           getting == {c \in Consumers : hand[c] = m}
<1>1. /\ \A i, j \in inList : i = j
      /\ \A p, q \in putting : p = q
      /\ \A c, d \in getting : c = d
  BY MessageQueueAssumption
  DEF IInv, OneOwner, ListOnce, PutOnce, GotOnce, Putting
<1>2. /\ inList = {} \/ (putting = {} /\ getting = {})
      /\ putting = {} \/ getting = {}
      /\ m \in unsent => inList = {} /\ putting = {} /\ getting = {}
  BY MessageQueueAssumption
  DEF IInv, OneOwner, PutOnce, GotOnce, UnsentUnlisted, Putting, Listed
<1>3. /\ inList = {} \/ \E i : inList = {i}
      /\ putting = {} \/ \E p : putting = {p}
      /\ getting = {} \/ \E c : getting = {c}
  <2> HIDE DEF inList, putting, getting
  <2>1. QED
    BY <1>1
<1>4. /\ Cardinality(inList) = IF inList = {} THEN 0 ELSE 1
      /\ Cardinality(putting) = IF putting = {} THEN 0 ELSE 1
      /\ Cardinality(getting) = IF getting = {} THEN 0 ELSE 1
  <2> HIDE DEF inList, putting, getting
  <2>1. QED
    BY <1>3, FS_EmptySet, FS_Singleton
<1>5. Cardinality(inList) + Cardinality(putting) + Cardinality(getting) <= 1
  <2> HIDE DEF inList, putting, getting
  <2>1. QED
    BY <1>2, <1>4
<1>6. QED
  BY <1>2, <1>5

\* No block of the queue is in two places, so none is released twice, for any
\* number of producers, consumers and messages.
THEOREM QueueBlocksKept == Spec => []BlocksKept
<1>1. IInv => BlocksKept
  BY OwnersCount DEF BlocksKept, IInv, LockInv
<1>2. QED
  BY <1>1, Inductive, PTL

\* No wake-up is lost although put signals after it released the mutex.
THEOREM QueueNoLostWakeup == Spec => []NoLostWakeup
<1>1. IInv => NoLostWakeup
  BY DEF IInv
<1>2. QED
  BY <1>1, Inductive, PTL

\* A step of the queue is a step of the Mailbox or leaves it alone: PutLink is
\* its put, GetDel its take, GetEmpty its miss.
LEMMA MailboxStep ==
    ASSUME IInv, [Next]_vars
    PROVE  [Mbx!Next]_<<mblist, result>>
<1> USE MessageQueueAssumption DEF IInv, LockInv, TypeOK, Threads, Goto
<1>1. ASSUME NEW p \in Producers, PutLink(p) PROVE Mbx!Next
  <2>1. hand[p] \in Messages /\ Mbx!Put(hand[p])
    BY <1>1 DEF PutLink, Mbx!Put, SeenIsList, OneOwner, PutOnce, Putting
  <2>2. QED
    BY <2>1 DEF Mbx!Next
<1>2. ASSUME NEW c \in Consumers, GetDel(c) PROVE Mbx!Next
  <2>1. Mbx!Take(c)
    BY <1>2 DEF GetDel, Mbx!Take, SeenIsList
  <2>2. QED
    BY <2>1 DEF Mbx!Next
<1>3. ASSUME NEW c \in Consumers, GetEmpty(c) PROVE Mbx!Next
  <2>1. Mbx!Miss(c)
    BY <1>3 DEF GetEmpty, Mbx!Miss
  <2>2. QED
    BY <2>1 DEF Mbx!Next
<1>4. ASSUME NEW p \in Producers,
             \/ \E m \in Messages : Put(p, m)
             \/ PutLock(p) \/ PutAdd(p) \/ PutUnlock(p) \/ Signal(p)
      PROVE  UNCHANGED <<mblist, result>>
  BY <1>4 DEF Put, PutLock, Lock, PutAdd, PutUnlock, Signal
<1>5. ASSUME NEW c \in Consumers,
             \/ Get(c) \/ GetLock(c) \/ GetLook(c) \/ GetReturn(c)
             \/ EmptyUnlock(c) \/ SleepOver(c) \/ CondWait(c)
             \/ SpuriousWakeup(c) \/ Relock(c) \/ Again(c)
      PROVE  UNCHANGED <<mblist, result>>
  BY <1>5 DEF Get, GetLock, Lock, GetLook, GetReturn, EmptyUnlock, SleepOver,
              CondWait, SpuriousWakeup, Relock, Again
<1>6. CASE UNCHANGED vars
  BY <1>6 DEF vars
<1>7. QED
  BY <1>1, <1>2, <1>3, <1>4, <1>5, <1>6, NextCases, Zenon

\* The queue implements the Mailbox: with the mutex, list_add and list_del are
\* single steps whatever its threads interleave, and a get that comes back
\* without a block has seen the list empty.
THEOREM QueueIsMailbox == Spec => IsMailbox
<1>1. Init => Mbx!Init
  BY DEF Init, Mbx!Init
<1>2. IInv /\ [Next]_vars => [Mbx!Next]_<<mblist, result>>
  BY MailboxStep
<1>3. QED
  BY <1>1, <1>2, Inductive, PTL DEF Spec, IsMailbox, Mbx!Spec
=============================================================================
