--------------------------- MODULE MCChatService ---------------------------
(* Instances of ChatService: one node, messages from anywhere.             *)
EXTENDS ChatService

CONSTANTS b, big

MCMail == [n \in Nodes |-> NoId]
MCFrom == [m \in Msgs |-> b]
MCTo == [m \in Msgs |-> <<b>>]
MCGid == [m \in Msgs |-> <<>>]
MCType == [m \in Msgs |-> "NormalMsg"]
MCSentAt == [m \in Msgs |-> 1000]
MCOverPkg == {big} \cap Msgs
=============================================================================
