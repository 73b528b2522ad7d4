------------------------------ MODULE MCSdoSeq ------------------------------
(* SdoSeq between a client and a server; the .cfg files give the sizes and  *)
(* how many payloads each of them submits.                                  *)
EXTENDS SdoSeq, TLC

CONSTANTS client, server, ClientData, ServerData

MCMaxData == (client :> ClientData) @@ (server :> ServerData)
=============================================================================
