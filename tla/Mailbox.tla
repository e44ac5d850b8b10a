------------------------------- MODULE Mailbox -------------------------------
(***************************************************************************)
(* What a MessageQueue promises its threads: a shared stack of message     *)
(* blocks.  A put is one step, a get is one step that takes the block put  *)
(* last, and a get that returns without a block has seen the stack empty.  *)
(***************************************************************************)
EXTENDS Sequences

CONSTANTS Consumers, Messages, NoMessage

VARIABLES box, result

Init ==
    /\ box = <<>>
    /\ result = [c \in Consumers |-> NoMessage]

Put(m) ==
    /\ box' = <<m>> \o box
    /\ UNCHANGED result

Take(c) ==
    /\ box # <<>>
    /\ result' = [result EXCEPT ![c] = Head(box)]
    /\ box' = Tail(box)

Miss(c) ==
    /\ box = <<>>
    /\ result' = [result EXCEPT ![c] = NoMessage]
    /\ UNCHANGED box

Next ==
    \/ \E m \in Messages : Put(m)
    \/ \E c \in Consumers : Take(c) \/ Miss(c)

Spec == Init /\ [][Next]_<<box, result>>
==============================================================================
