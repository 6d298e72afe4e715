----------------------------- MODULE Lifecycle -----------------------------
(***************************************************************************)
(* What chat_message promises about one message to one receiver, seen from *)
(* outside: a row is created once, is marked delivered, and is acked after *)
(* a client of the receiver has displayed the message; it never goes back. *)
(* Module Delivery is shown to implement this.                             *)
(***************************************************************************)
CONSTANTS
    Msgs,         \* message ids
    Users,        \* account ids
    None,         \* "no receiver yet", "not logged in"
    MarkMayFail   \* may the statement that marks a row delivered be lost?

VARIABLES
    stage,        \* how far the message has come
    addressee,    \* the account a message was created for
    displayed     \* <<u, m>>: a client that is logged in to u has shown m

lifeVars == <<stage, addressee, displayed>>

Stages == {"absent", "created", "delivered", "acked"}

LifeInit ==
    /\ stage = [m \in Msgs |-> "absent"]
    /\ addressee = [m \in Msgs |-> None]
    /\ displayed = {}

Create(m) ==
    /\ stage[m] = "absent"
    /\ stage' = [stage EXCEPT ![m] = "created"]
    /\ \E u \in Users : addressee' = [addressee EXCEPT ![m] = u]
    /\ UNCHANGED displayed

Deliver(m) ==
    /\ stage[m] = "created"
    /\ stage' = [stage EXCEPT ![m] = "delivered"]
    /\ UNCHANGED <<addressee, displayed>>

Display ==
    /\ \E u \in Users \cup {None}, S \in SUBSET Msgs :
         displayed' = displayed \cup ({u} \X S)
    /\ UNCHANGED <<stage, addressee>>

Ack(m) ==
    /\ stage[m] = "delivered" \/ (MarkMayFail /\ stage[m] = "created")
    /\ <<addressee[m], m>> \in displayed
    /\ stage' = [stage EXCEPT ![m] = "acked"]
    /\ UNCHANGED <<addressee, displayed>>

LifeNext == Display \/ \E m \in Msgs : Create(m) \/ Deliver(m) \/ Ack(m)

LifeSpec == LifeInit /\ [][LifeNext]_lifeVars
=============================================================================
