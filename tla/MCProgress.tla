----------------------------- MODULE MCProgress -----------------------------
(* The components whose correctness is that something happens in the end: the HTTP
   server, the desktop client that follows the directory, the push-to-talk input
   and the playout of audio; and the database, which must outlive its process.  They
   share no state, so one of them runs in each behaviour; the others stay as they are.

   HTTP: two workers, a queue of two and five connections, so that a connection is
   refused while both workers are busy.  Directory: two clients of one group, a third
   member, two groups, one revision of history, two changes and a failed call.
   Input: two controllers, the first with two buttons in different reports, and lists
   of bindings with each of the errors.  Playout: two buffers and four frames.
   Database: two starts, two versions of a context, two audit events, and a clock that
   ticks twice in a millisecond. *)
EXTENDS HttpServer, DirectorySync, MCPttInput, AudioPlayout, Persistence

VARIABLE part   \* the component that runs

CONSTANTS w1, w2

MCWorkers == {w1, w2}

inputDeviceVars == <<inputVars, deviceVars>>

ProgressInit ==
    /\ part \in {"http", "sync", "input", "playout", "database"}
    /\ Init /\ SyncInit /\ InputInit /\ DevicesInit /\ PlayoutInit /\ PersistenceInit
    /\ part # "input" => platform = "evdev"
    /\ part # "playout" => backend = "xaudio2"
    /\ part # "database" => disk = Database(0, 0, {}, 0)

(* All components but the one that runs stay as they are. *)
OthersUnchanged(p) ==
    /\ UNCHANGED part
    /\ p # "http" => UNCHANGED vars
    /\ p # "sync" => UNCHANGED allSyncVars
    /\ p # "input" => UNCHANGED inputDeviceVars
    /\ p # "playout" => UNCHANGED playoutVars
    /\ p # "database" => UNCHANGED persistenceVars

ProgressNext ==
    \/ part = "http" /\ Next /\ OthersUnchanged("http")
    \/ part = "sync" /\ SyncNext /\ OthersUnchanged("sync")
    \/ part = "input" /\ DevicesNext /\ OthersUnchanged("input")
    \/ part = "playout" /\ PlayoutNext /\ OthersUnchanged("playout")
    \/ part = "database" /\ PersistenceNext /\ OthersUnchanged("database")

progressVars == <<part, vars, allSyncVars, inputDeviceVars, playoutVars, persistenceVars>>

(* The fairness of each component, of the behaviours in which it runs. *)
ProgressFairness ==
    /\ WF_vars(part = "http" /\ AcceptorStep)
    /\ \A w \in Workers : WF_vars(part = "http" /\ WorkerStep(w))
    /\ WF_allSyncVars(part = "sync" /\ Len(syncEvents) < MaxQueued /\ RefreshStep)
    /\ SF_allSyncVars(part = "sync" /\ Len(syncEvents) < MaxQueued /\ FetchDirectory(TRUE))
    /\ WF_allSyncVars(part = "sync" /\ ViewStep)
    /\ \A t \in InputThreads :
           WF_inputDeviceVars(part = "input" /\ DeliveryStep(t) /\ UNCHANGED deviceVars)
    /\ WF_inputDeviceVars(part = "input" /\ SourceStep)
    /\ WF_playoutVars(part = "playout" /\ (ReadEnds \/ RegisterBuffer \/ SubmitBuffer \/ PushFrame))
    /\ WF_playoutVars(part = "playout" /\ PlatformStep)
    /\ WF_playoutVars(part = "playout" /\ OwnerStep)

ProgressSpec == ProgressInit /\ [][ProgressNext]_progressVars /\ ProgressFairness

\* Every variable of the five components keeps its type.
ProgressTypeOK ==
    /\ TypeOK /\ SyncTypeOK /\ InputTypeOK /\ DevicesTypeOK /\ PlayoutTypeOK
    /\ PersistenceTypeOK

\* ViewConverges of the behaviours in which the client runs: when the server's state
\* comes to rest, the refresh thread of client_session.cpp brings the client's view to
\* the server's, through errors, group changes and answers that were out of date.
ClientConverges == part = "sync" => ViewConverges
=============================================================================
