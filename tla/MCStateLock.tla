---------------------------- MODULE MCStateLock ----------------------------
(* Three processes contending for one lock directory. *)
EXTENDS StateLock

\* Killed only while doing the work the lock protects.
InWork == {"hold"}
=============================================================================
