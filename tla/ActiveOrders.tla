---------------------------- MODULE ActiveOrders ----------------------------
(***************************************************************************)
(* What the index of a factory promises its readers: an order is listed    *)
(* when it is created, and leaves the list once, after it has ended.       *)
(***************************************************************************)
CONSTANT Orders

VARIABLES
  created,   \* orders that were ever created
  ended,     \* those that were filled, sold or cancelled
  open       \* those that are listed

activeVars == <<created, ended, open>>

OpenInit == created = {} /\ ended = {} /\ open = {}

Open(o) ==
  /\ o \in Orders \ created
  /\ created' = created \cup {o}
  /\ open' = open \cup {o}
  /\ UNCHANGED ended

End(o) ==
  /\ o \in created \ ended
  /\ ended' = ended \cup {o}
  /\ UNCHANGED <<created, open>>

Close(o) ==
  /\ o \in open \cap ended
  /\ open' = open \ {o}
  /\ UNCHANGED <<created, ended>>

(* End and Close in one transaction.                                       *)
Finish(o) ==
  /\ o \in open \ ended
  /\ ended' = ended \cup {o}
  /\ open' = open \ {o}
  /\ UNCHANGED created

OpenNext == \E o \in Orders : Open(o) \/ End(o) \/ Close(o) \/ Finish(o)

OpenSpec == OpenInit /\ [][OpenNext]_activeVars
=============================================================================
