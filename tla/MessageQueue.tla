---------------------------- MODULE MessageQueue ----------------------------
(***************************************************************************)
(* libwu/message_queue.c: a list of message blocks under a mutex, with a   *)
(* condition variable.  The list operations are two steps each (a read of  *)
(* the head, a write of the links), so that it is the mutex, and nothing   *)
(* else, that makes them atomic.  cond_wait, cond_signal and the mutex are *)
(* the POSIX ones: a wait may end without a signal, and a signal wakes     *)
(* one waiter, if there is one.                                            *)
(***************************************************************************)
EXTENDS Naturals, Sequences, FiniteSets

CONSTANTS
    Producers, Consumers,   \* threads
    Messages,               \* message blocks, each of them put once
    NoMessage, Nobody,      \* NULL; the holder of a free mutex
    Modes,                  \* timeouts of a get: "poll", "forever", "timed"
    MaxPolls                \* bound: timeout / 100 of a timed get

ASSUME MessageQueueAssumption ==
    /\ IsFiniteSet(Producers) /\ IsFiniteSet(Consumers)
    /\ Producers \cap Consumers = {}
    /\ Nobody \notin Producers \cup Consumers
    /\ NoMessage \notin Messages
    /\ Modes \subseteq {"poll", "forever", "timed"}
    /\ MaxPolls \in Nat

Threads == Producers \cup Consumers

VARIABLES
    mblist,     \* mq->mblist, head first
    mutex,      \* holder of mq->mutex
    pc,         \* of each thread
    seen,       \* the list as a thread inside a list operation read it
    hand,       \* the block a thread is putting or has got
    mode,       \* the timeout argument of a consumer's get
    polls,      \* looks left to a timed get
    unsent,     \* blocks nobody has put yet
    result      \* what a consumer's last get came to

vars == <<mblist, mutex, pc, seen, hand, mode, polls, unsent, result>>

\* Every variable has its type.
TypeOK ==
    /\ mblist \in Seq(Messages)
    /\ mutex \in Threads \cup {Nobody}
    /\ pc \in [Threads -> {"idle", "put_lock", "put_add", "put_link",
                           "put_unlock", "signal", "get_lock", "get_look",
                           "get_del", "got", "empty", "sleep", "wait",
                           "relock", "woken"}]
    /\ seen \in [Threads -> Seq(Messages)]
    /\ hand \in [Threads -> Messages \cup {NoMessage}]
    /\ mode \in [Consumers -> Modes]
    /\ polls \in [Consumers -> 0 .. MaxPolls]
    /\ unsent \subseteq Messages
    /\ result \in [Consumers -> Messages \cup {NoMessage}]

Init ==
    /\ mblist = <<>>
    /\ mutex = Nobody
    /\ pc = [t \in Threads |-> "idle"]
    /\ seen = [t \in Threads |-> <<>>]
    /\ hand = [t \in Threads |-> NoMessage]
    /\ mode \in [Consumers -> Modes]
    /\ polls = [c \in Consumers |-> 0]
    /\ unsent = Messages
    /\ result = [c \in Consumers |-> NoMessage]

-----------------------------------------------------------------------------
(* Steps of a thread                                                       *)

Goto(t, l) == pc' = [pc EXCEPT ![t] = l]

Lock(t, from, to) ==
    /\ pc[t] = from /\ mutex = Nobody
    /\ mutex' = t
    /\ Goto(t, to)
    /\ UNCHANGED <<mblist, seen, hand, mode, polls, unsent, result>>

Unlock(t, from, to) ==
    /\ pc[t] = from
    /\ mutex' = Nobody
    /\ Goto(t, to)

-----------------------------------------------------------------------------
(* message_queue_put_message_block                                         *)

Put(p, m) ==
    /\ pc[p] = "idle" /\ m \in unsent
    /\ unsent' = unsent \ {m}
    /\ hand' = [hand EXCEPT ![p] = m]
    /\ Goto(p, "put_lock")
    /\ UNCHANGED <<mblist, mutex, seen, mode, polls, result>>

\* Mutant: the put takes no lock.
PutLockNot(p) ==
    /\ pc[p] = "put_lock"
    /\ Goto(p, "put_add")
    /\ UNCHANGED <<mblist, mutex, seen, hand, mode, polls, unsent, result>>

PutLock(p) == Lock(p, "put_lock", "put_add")

PutAdd(p) ==
    /\ pc[p] = "put_add"
    /\ seen' = [seen EXCEPT ![p] = mblist]
    /\ Goto(p, "put_link")
    /\ UNCHANGED <<mblist, mutex, hand, mode, polls, unsent, result>>

\* list_add links the block in front of the ones the list holds.
PutLink(p) ==
    /\ pc[p] = "put_link"
    /\ mblist' = <<hand[p]>> \o seen[p]
    /\ Goto(p, "put_unlock")
    /\ UNCHANGED <<mutex, seen, hand, mode, polls, unsent, result>>

PutUnlock(p) ==
    /\ Unlock(p, "put_unlock", "signal")
    /\ UNCHANGED <<mblist, seen, hand, mode, polls, unsent, result>>

\* pthread_cond_signal, after the mutex is released.
Waiting == {c \in Consumers : pc[c] = "wait"}

\* Mutants: a signal only when the list was empty; no signal at all.
SignalWhenEmpty(p) ==
    /\ pc[p] = "signal"
    /\ hand' = [hand EXCEPT ![p] = NoMessage]
    /\ IF Waiting = {} \/ seen[p] # <<>>
       THEN Goto(p, "idle")
       ELSE \E c \in Waiting :
                pc' = [pc EXCEPT ![p] = "idle", ![c] = "relock"]
    /\ UNCHANGED <<mblist, mutex, seen, mode, polls, unsent, result>>

SignalNobody(p) ==
    /\ pc[p] = "signal"
    /\ hand' = [hand EXCEPT ![p] = NoMessage]
    /\ Goto(p, "idle")
    /\ UNCHANGED <<mblist, mutex, seen, mode, polls, unsent, result>>

Signal(p) ==
    /\ pc[p] = "signal"
    /\ hand' = [hand EXCEPT ![p] = NoMessage]
    /\ IF Waiting = {}
       THEN Goto(p, "idle")
       ELSE \E c \in Waiting :
                pc' = [pc EXCEPT ![p] = "idle", ![c] = "relock"]
    /\ UNCHANGED <<mblist, mutex, seen, mode, polls, unsent, result>>

-----------------------------------------------------------------------------
(* message_queue_get_message_block                                         *)

\* A timed get looks timeout / 100 times; the other two start with a look.
Get(c) ==
    /\ pc[c] = "idle"
    /\ \E md \in Modes :
        /\ mode' = [mode EXCEPT ![c] = md]
        /\ polls' = [polls EXCEPT ![c] = IF md = "timed" THEN MaxPolls ELSE 0]
        /\ Goto(c, IF md = "timed" /\ MaxPolls = 0 THEN "idle" ELSE "get_lock")
    /\ UNCHANGED <<mblist, mutex, seen, hand, unsent, result>>

\* Mutant: the get takes no lock.
GetLockNot(c) ==
    /\ pc[c] = "get_lock"
    /\ Goto(c, "get_look")
    /\ UNCHANGED <<mblist, mutex, seen, hand, mode, polls, unsent, result>>

GetLock(c) == Lock(c, "get_lock", "get_look")

\* list_empty and, when there is a block, list_del of the first.
GetLook(c) ==
    /\ pc[c] = "get_look" /\ mblist # <<>>
    /\ seen' = [seen EXCEPT ![c] = mblist]
    /\ Goto(c, "get_del")
    /\ UNCHANGED <<mblist, mutex, hand, mode, polls, unsent, result>>

GetDel(c) ==
    /\ pc[c] = "get_del"
    /\ hand' = [hand EXCEPT ![c] = Head(seen[c])]
    /\ result' = [result EXCEPT ![c] = Head(seen[c])]
    /\ mblist' = Tail(seen[c])
    /\ Goto(c, "got")
    /\ UNCHANGED <<mutex, seen, mode, polls, unsent>>

\* The caller releases the block it got.
GetReturn(c) ==
    /\ Unlock(c, "got", "idle")
    /\ hand' = [hand EXCEPT ![c] = NoMessage]
    /\ UNCHANGED <<mblist, seen, mode, polls, unsent, result>>

GetEmpty(c) ==
    /\ pc[c] = "get_look" /\ mblist = <<>> /\ mode[c] # "forever"
    /\ result' = [result EXCEPT ![c] = NoMessage]
    /\ Goto(c, "empty")
    /\ UNCHANGED <<mblist, mutex, seen, hand, mode, polls, unsent>>

\* A poll returns, a timed get sleeps 100 ms.
EmptyUnlock(c) ==
    /\ Unlock(c, "empty", IF mode[c] = "poll" THEN "idle" ELSE "sleep")
    /\ UNCHANGED <<mblist, seen, hand, mode, polls, unsent, result>>

\* The loop's counter is tested after the sleep, before the next look.
SleepOver(c) ==
    /\ pc[c] = "sleep"
    /\ polls' = [polls EXCEPT ![c] = @ - 1]
    /\ Goto(c, IF polls[c] = 1 THEN "idle" ELSE "get_lock")
    /\ UNCHANGED <<mblist, mutex, seen, hand, mode, unsent, result>>

\* pthread_cond_wait releases the mutex and waits in one step.
CondWait(c) ==
    /\ mblist = <<>> /\ mode[c] = "forever"
    /\ Unlock(c, "get_look", "wait")
    /\ UNCHANGED <<mblist, seen, hand, mode, polls, unsent, result>>

SpuriousWakeup(c) ==
    /\ pc[c] = "wait"
    /\ Goto(c, "relock")
    /\ UNCHANGED <<mblist, mutex, seen, hand, mode, polls, unsent, result>>

Relock(c) == Lock(c, "relock", "woken")

\* "goto again" starts with the lock, so the mutex is released first.
Again(c) ==
    /\ Unlock(c, "woken", "get_lock")
    /\ UNCHANGED <<mblist, seen, hand, mode, polls, unsent, result>>

-----------------------------------------------------------------------------
PutStep(p) == PutLock(p) \/ PutAdd(p) \/ PutLink(p) \/ PutUnlock(p) \/ Signal(p)

GetStep(c) ==
    \/ GetLock(c) \/ GetLook(c) \/ GetDel(c) \/ GetReturn(c)
    \/ GetEmpty(c) \/ EmptyUnlock(c) \/ SleepOver(c)
    \/ CondWait(c) \/ Relock(c) \/ Again(c)

Next ==
    \/ \E p \in Producers : PutStep(p) \/ \E m \in Messages : Put(p, m)
    \/ \E c \in Consumers : Get(c) \/ GetStep(c) \/ SpuriousWakeup(c)

Spec == Init /\ [][Next]_vars

\* Threads inside a call run, and get the mutex when it keeps being released;
\* the consumer calls get in a loop, as psi_worker_thread does.  Nothing
\* forces a spurious wake-up.
Fairness ==
    /\ \A p \in Producers : SF_vars(PutStep(p))
    /\ \A c \in Consumers : SF_vars(GetStep(c)) /\ WF_vars(Get(c))

FairSpec == Spec /\ Fairness

-----------------------------------------------------------------------------
(* Properties                                                              *)

\* Each list operation and each return without a block takes effect at one
\* step: the queue is the Mailbox, whatever its threads interleave.
Mbx == INSTANCE Mailbox WITH box <- mblist
IsMailbox == Mbx!Spec

\* Threads that will signal, and consumers on their way to look at the list.
Signalling == {p \in Producers : pc[p] \in {"put_unlock", "signal"}}
Awake == {c \in Consumers : mode[c] = "forever" /\
            pc[c] \in {"relock", "woken", "get_lock", "get_look", "get_del"}}

\* No wake-up is lost: while a consumer sleeps in pthread_cond_wait, every
\* block of the list has a thread of its own that is about to signal, or a
\* consumer on its way to it, although put signals after it released the
\* mutex and a wake-up may find the list emptied by another consumer.
NoLostWakeup ==
    Waiting # {} =>
        Len(mblist) <= Cardinality(Signalling) + Cardinality(Awake)

\* No block is in two places: it is in the hands of one thread or in the list
\* once, so that no two threads ever release the same block.
BlocksOwnedOnce ==
    \A m \in Messages :
        LET inList  == {i \in 1 .. Len(mblist) : mblist[i] = m}
            putting == {p \in Producers : hand[p] = m /\
                            pc[p] \in {"put_lock", "put_add", "put_link"}}
            getting == {c \in Consumers : hand[c] = m}
        IN  /\ Cardinality(inList) + Cardinality(putting)
                    + Cardinality(getting) <= 1
            /\ m \in unsent => inList = {} /\ putting = {} /\ getting = {}

\* Every block that is put is got, although the list is last in, first out:
\* a bounded number of puts cannot starve a block for ever.
EveryBlockGot ==
    \A m \in Messages :
        (\E p \in Producers : pc[p] = "put_lock" /\ hand[p] = m)
            ~> (\E c \in Consumers : result[c] = m)

\* Types, and every block of the queue in one place.
BlocksKept == TypeOK /\ BlocksOwnedOnce
=============================================================================
