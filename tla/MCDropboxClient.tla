-------------------------- MODULE MCDropboxClient ---------------------------
(* Instance of DropboxClient for TLC: no data, small queues. *)
EXTENDS DropboxClient
=============================================================================
