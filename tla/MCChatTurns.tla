---------------------------- MODULE MCChatTurns ----------------------------
(***************************************************************************)
(* Instances of ChatTurns for TLC: a private chat with Ada, alone or       *)
(* beside a group she is a member of, whose other members keep silent.     *)
(***************************************************************************)
EXTENDS ChatTurns, TLC

CONSTANTS private, group,         \* conversations
          sp, sg,                 \* Ada's session in each
          ada,
          t1, t2                  \* Turns

PrivateConversationOf == sp :> private
PrivateCharacterOf    == sp :> ada

GroupConversationOf == sp :> private @@ sg :> group
GroupCharacterOf    == sp :> ada @@ sg :> ada

\* Every request in the private chat; or the second in the group.
InPrivate == [t \in Turns |-> sp]
InBoth    == [t \in Turns |-> IF t = t1 THEN sp ELSE sg]
UserOnly  == [t \in Turns |-> "user"]

\* With every Turn in one session the Turns differ in nothing but their name.
Interchangeable == Permutations(Turns)
=============================================================================
