----------------------------- MODULE MCEntityRPC ----------------------------
(* Instances of EntityRPC for TLC.                                         *)
EXTENDS EntityRPC

CONSTANTS host, r1, r2

MCRemotes == {r1, r2}
MCRPCs == [e \in Entities |-> {"Master", "RemoteAndLocal", "All"}]
MCLacks == [c \in {host, r1, r2} |-> {}]
=============================================================================
