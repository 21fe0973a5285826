------------------------------ MODULE MCClient ------------------------------
(* What the user hears and what the window shows.  The two share no state, so one of
   them runs in each behaviour and the other stays as it is.

   Remote audio: one stream at a time for two rooms of different priority, two
   publications, a setting or a resumed room, with and without a device to play on.
   Desktop: three logins or logouts, so that a late result meets a new session, and
   two events or commands. *)
EXTENDS MCRemoteAudio, Desktop

VARIABLE part   \* the component that runs

ClientInit ==
    /\ part \in {"remote", "desktop"}
    /\ RemoteInit /\ DesktopInit
    /\ part # "remote" => backend

ClientNext ==
    \/ part = "remote" /\ RemoteNext /\ UNCHANGED <<part, desktopVars>>
    \/ part = "desktop" /\ DesktopNext /\ UNCHANGED <<part, remoteVars>>

ClientSpec == ClientInit /\ [][ClientNext]_<<part, remoteVars, desktopVars>>
=============================================================================
