---------------------------- MODULE MCRemoteAudio ----------------------------
(* Two participants who speak in rooms of different priority. *)
EXTENDS RemoteAudio

MCSpeakers == {<<"team", "a">>, <<"group", "b">>}
=============================================================================
