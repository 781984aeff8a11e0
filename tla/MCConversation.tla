--------------------------- MODULE MCConversation ---------------------------
(* A small instance of Conversation for TLC. *)
EXTENDS Conversation, TLC

CONSTANTS a, b, x, y

\* Two spellings of one role, and another role.
Roles == ("Reviewer" :> "reviewer") @@ ("reviewer" :> "reviewer")
         @@ ("Builder" :> "Builder")

Alike == Permutations({a, b}) \cup Permutations({x, y})
=============================================================================
