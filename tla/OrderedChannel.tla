--------------------------- MODULE OrderedChannel ---------------------------
(***************************************************************************)
(* What a battle link promises to the two programs at its ends: a pair of  *)
(* first-in-first-out channels.  End p appends messages to sent[p]; the    *)
(* other end takes them out one at a time, in the order they were sent,    *)
(* each exactly once.                                                      *)
(*                                                                         *)
(* Nothing here is a translation of code: BattleLink is, and it is shown   *)
(* to implement this module.                                               *)
(***************************************************************************)
EXTENDS Naturals, Sequences

CONSTANT Ends

VARIABLES
  sent,      \* sent[p]: every message end p has put in, oldest first
  received   \* received[p]: every message end p has taken out, oldest first

Peer(p) == CHOOSE q \in Ends : q # p

Init ==
  /\ sent = [p \in Ends |-> <<>>]
  /\ received = [p \in Ends |-> <<>>]

(* The message may be any value: it is read off sent' itself. *)
Put(p) ==
  /\ Len(sent'[p]) = Len(sent[p]) + 1
  /\ sent' = [sent EXCEPT ![p] = Append(@, sent'[p][Len(@) + 1])]
  /\ UNCHANGED received

Take(p) ==
  /\ Len(received[p]) < Len(sent[Peer(p)])
  /\ received' = [received EXCEPT
                    ![p] = Append(@, sent[Peer(p)][Len(@) + 1])]
  /\ UNCHANGED sent

Next == \E p \in Ends : Put(p) \/ Take(p)

Spec == Init /\ [][Next]_<<sent, received>>

=============================================================================
