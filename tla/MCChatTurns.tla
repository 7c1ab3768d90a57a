---------------------------- MODULE MCChatTurns ----------------------------
(***************************************************************************)
(* Small instances of ChatTurns.                                           *)
(***************************************************************************)
EXTENDS ChatTurns

CONSTANTS t1, t2, t3, own, foreign, ann, bob

\* Every request goes to one chat of its caller.
OneChat == [t \in Turns |-> own]
AnnCalls == [t \in Turns |-> ann]
AnnOwns == [c \in Chats |-> ann]

\* t3 is posted to a chat of another user.
MixedChats == [t \in Turns |-> IF t = t3 THEN foreign ELSE own]
MixedOwners == [c \in Chats |-> IF c = foreign THEN bob ELSE ann]
=============================================================================
