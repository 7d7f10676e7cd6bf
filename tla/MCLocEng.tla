-------------------------------- MODULE MCLocEng --------------------------------
(* The threads of LocEng. *)
EXTENDS LocEng, TLC

MCIoctlThreads == {"deferred", "ni", "ui", "java"}

=============================================================================
