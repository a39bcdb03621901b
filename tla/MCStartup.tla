----------------------------- MODULE MCStartup -----------------------------
(* Two processes of one camera's name and clients of its queue. *)
EXTENDS Startup

CONSTANTS first, second, client, other

MCCameras == {first, second}
MCClients == {client, other}
OneClient == {client}
=============================================================================
