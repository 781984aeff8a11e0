----------------------------- MODULE MCDelivery -----------------------------
(* Small instances of Delivery for TLC. *)
EXTENDS Delivery, TLC

CONSTANTS p1, p2,    \* plugin processes
          a, b,      \* sessions
          c1         \* the channel

\* p1 hosts the push member b; p2 hosts nobody and only prompts across.
OwnerAndOther == (p1 :> {b}) @@ (p2 :> {})

\* One conversation of a pull member and a push member.
Pair == c1 :> <<a, b>>
\* The conversation is not created yet.
EmptyProject == c1 :> << >>
PairModes == (a :> "pull") @@ (b :> "push")
SmallBudget == c1 :> 3
=============================================================================
