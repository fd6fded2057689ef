--------------------------- MODULE RealtimeVerify ---------------------------
(***************************************************************************)
(* voxtral-realtime-verify.py: a client that asks a vLLM server for its    *)
(* models, streams an audio file over a websocket in chunks, and ends with *)
(* exit code 0 if the server reports a transcription.  The server is       *)
(* external: what it does is what the script's description of the protocol *)
(* says, at any speed, with any failure.                                   *)
(*                                                                         *)
(* Data is abstracted.  The audio is a number of chunks, a message or an   *)
(* event is its type, and the two directions of the websocket are queues.  *)
(* The one to the server holds Capacity messages that it has not read, in  *)
(* the buffers of both sides: a send waits while they are full, without a  *)
(* time-out, and a keep-alive ping waits behind it.                        *)
(***************************************************************************)
EXTENDS Integers, Sequences

CONSTANTS
    Capacity,    \* the messages that fit between the client and the server
    MaxChunks,   \* bound: the chunks of the audio
    MaxNoise     \* bound: events that the client passes over

ASSUME VerifyAssumption ==
    Capacity \in Nat \ {0} /\ MaxChunks \in Nat /\ MaxNoise \in Nat

VARIABLES
    checkOnly,    \* --check-only
    chunks,       \* total_chunks
    pc,           \* where main or realtime_transcribe is
    sent,         \* how many chunks have been appended
    result,       \* "running"; "passed", exit code 0; "failed", exit code 1
    link,         \* the connection: "none", "open" or "closed"
    inbox,        \* messages on their way to the server
    events,       \* events on their way to the client
    server,       \* the server's state
    faults        \* history: what went wrong outside of the client

clientVars == <<pc, sent, result>>
inputVars  == <<checkOnly, chunks>>
vars == <<inputVars, clientVars, link, inbox, events, server, faults>>

\* serves: it has the model.  valid: a session.update named it.  begun, ended:
\* audio was committed, with final in the end.  transcribed: after how many
\* chunks transcription.done was sent, -1 before.
Server == [serves : BOOLEAN, greeted : BOOLEAN, valid : BOOLEAN,
           begun : BOOLEAN, ended : BOOLEAN, heard : Nat,
           transcribed : Nat \cup {-1}, noise : 0 .. MaxNoise]

Init ==
    /\ checkOnly \in BOOLEAN
    /\ chunks \in 0 .. MaxChunks
    /\ pc = "models"
    /\ sent = 0
    /\ result = "running"
    /\ link = "none"
    /\ inbox = <<>>
    /\ events = <<>>
    /\ server \in [serves : BOOLEAN, greeted : {FALSE}, valid : {FALSE},
                   begun : {FALSE}, ended : {FALSE}, heard : {0},
                   transcribed : {-1}, noise : {0}]
    /\ faults = {}

-----------------------------------------------------------------------------
(* The client.                                                             *)

Go(from, to) == pc = from /\ pc' = to /\ UNCHANGED result

End(from, ok) ==
    /\ pc = from
    /\ pc' = "end"
    /\ result' = IF ok THEN "passed" ELSE "failed"

Fault(what) == faults' = faults \cup {what}
NoFault     == UNCHANGED faults

\* check_model_registered: with --check-only, its answer is the result;
\* otherwise it is printed and the session is tried in any case.
CheckModels ==
    /\ \/ /\ NoFault
          /\ IF checkOnly THEN End("models", server.serves) ELSE Go("models", "audio")
       \/ /\ Fault("http")
          /\ IF checkOnly THEN End("models", FALSE) ELSE Go("models", "audio")
    /\ UNCHANGED <<inputVars, sent, link, inbox, events, server>>

\* A file that cannot be read ends the script.
LoadAudio ==
    /\ \/ Go("audio", "connect") /\ NoFault
       \/ End("audio", FALSE) /\ Fault("audio")
    /\ UNCHANGED <<inputVars, sent, link, inbox, events, server>>

Connect ==
    /\ \/ Go("connect", "hello") /\ link' = "open" /\ NoFault
       \/ End("connect", FALSE) /\ UNCHANGED link /\ Fault("connect")
    /\ UNCHANGED <<inputVars, sent, inbox, events, server>>

\* The first event must be session.created.
AwaitCreated ==
    /\ events # <<>>
    /\ events' = Tail(events)
    /\ IF Head(events) = "session.created"
       THEN Go("hello", "update") ELSE End("hello", FALSE)
    /\ UNCHANGED <<inputVars, sent, link, inbox, server, faults>>

\* ws.send returns when there is room for the message, and raises if the
\* connection is closed, also one that closes while it waits.
HasRoom == Len(inbox) < Capacity

Send(from, message, to) ==
    \/ /\ link = "open"
       /\ HasRoom
       /\ Go(from, to)
       /\ inbox' = Append(inbox, message)
    \/ /\ link = "closed"
       /\ End(from, FALSE)
       /\ UNCHANGED inbox

SendUpdate ==
    /\ Send("update", "session.update", "commit")
    /\ UNCHANGED <<inputVars, sent, link, events, server, faults>>

\* Mutant: the first commit says that it is final.
SendCommitFinal ==
    /\ Send("commit", "commit final", "append")
    /\ UNCHANGED <<inputVars, sent, link, events, server, faults>>

SendCommit ==
    /\ Send("commit", "commit", "append")
    /\ UNCHANGED <<inputVars, sent, link, events, server, faults>>

\* range(0, len(audio_bytes), chunk_size).  (Mutant: one too many.)
OneMoreToSend == sent <= chunks
MoreToSend    == sent < chunks

SendChunk ==
    /\ MoreToSend
    /\ Send("append", "append", "append")
    /\ sent' = sent + 1
    /\ UNCHANGED <<inputVars, link, events, server, faults>>

SendFinal ==
    /\ ~MoreToSend
    /\ Send("append", "commit final", "listen")
    /\ UNCHANGED <<inputVars, sent, link, events, server, faults>>

\* Mutant: an event of another type counts as a failure.
ListenStrictly ==
    /\ events # <<>>
    /\ events' = Tail(events)
    /\ IF Head(events) = "transcription.delta" THEN Go("listen", "listen")
       ELSE End("listen", Head(events) = "transcription.done")
    /\ UNCHANGED <<inputVars, sent, link, inbox, server, faults>>

\* transcription.done passes, error fails, and all others are passed over.
Listen ==
    /\ events # <<>>
    /\ events' = Tail(events)
    /\ IF Head(events) \in {"transcription.done", "error"}
       THEN End("listen", Head(events) = "transcription.done")
       ELSE Go("listen", "listen")
    /\ UNCHANGED <<inputVars, sent, link, inbox, server, faults>>

\* recv of a closed connection raises once what it has received is read.
RecvRaises ==
    /\ events = <<>>
    /\ link = "closed"
    /\ End("hello", FALSE) \/ End("listen", FALSE)
    /\ UNCHANGED <<inputVars, sent, link, inbox, events, server, faults>>

\* wait_for(ws.recv(), timeout).  (Mutant: recv alone.)
RecvForEver == FALSE
RecvTimesOut ==
    /\ events = <<>>
    /\ link = "open"
    /\ End("hello", FALSE) \/ End("listen", FALSE)
    /\ Fault("timeout")
    /\ UNCHANGED <<inputVars, sent, link, inbox, events, server>>

ClientStep ==
    \/ CheckModels
    \/ LoadAudio
    \/ Connect
    \/ AwaitCreated
    \/ SendUpdate
    \/ SendCommit
    \/ SendChunk
    \/ SendFinal
    \/ Listen
    \/ RecvRaises
    \/ RecvTimesOut

-----------------------------------------------------------------------------
(* The server.                                                             *)

\* The client closes the connection when it leaves the block that opened it.
Connected == link = "open" /\ pc # "end"

Emit(event) == events' = Append(events, event)

Greet ==
    /\ Connected
    /\ ~server.greeted
    /\ server' = [server EXCEPT !.greeted = TRUE]
    /\ \/ Emit("session.created") /\ NoFault
       \/ Emit("error") /\ Fault("server")
    /\ UNCHANGED <<inputVars, clientVars, link, inbox>>

\* A message is dealt with; a model that is not served is an error.
Handle ==
    LET m == Head(inbox)
        named == m = "session.update"
    IN  /\ Connected
        /\ inbox # <<>>
        /\ inbox' = Tail(inbox)
        /\ server' = [server EXCEPT
                        !.valid = @ \/ (named /\ server.serves),
                        !.begun = @ \/ (m \in {"commit", "commit final"}),
                        !.ended = @ \/ (m = "commit final"),
                        !.heard = IF m = "append" THEN @ + 1 ELSE @]
        /\ IF named /\ ~server.serves THEN Emit("error") ELSE UNCHANGED events
        /\ UNCHANGED <<inputVars, clientVars, link, faults>>

\* Events that the client passes over: pieces of text once audio has been
\* committed, and events of other types.
MakeNoise ==
    /\ Connected
    /\ server.greeted
    /\ server.noise < MaxNoise
    /\ server' = [server EXCEPT !.noise = @ + 1]
    /\ \/ Emit("transcription.delta") /\ server.valid /\ server.begun
       \/ Emit("other")
    /\ UNCHANGED <<inputVars, clientVars, link, inbox, faults>>

\* The audio has ended and is transcribed.
Transcribe ==
    /\ Connected
    /\ server.valid /\ server.ended /\ server.transcribed = -1
    /\ server' = [server EXCEPT !.transcribed = server.heard]
    /\ Emit("transcription.done")
    /\ UNCHANGED <<inputVars, clientVars, link, inbox, faults>>

\* The server reports an error, once, or closes the connection, which the
\* network may do as well.
Break ==
    /\ Connected
    /\ \/ Emit("error") /\ "server" \notin faults /\ UNCHANGED link
       \/ link' = "closed" /\ UNCHANGED events
    /\ Fault("server")
    /\ UNCHANGED <<inputVars, clientVars, inbox, server>>

ServerStep == Greet \/ Handle \/ MakeNoise \/ Transcribe \/ Break

Next == ClientStep \/ ServerStep

Spec == Init /\ [][Next]_vars

\* The event loop runs, and every recv has a time-out.  Nothing is assumed of
\* the server, not that it reads either.
FairSpec == Spec /\ WF_vars(ClientStep)

-----------------------------------------------------------------------------
(* Properties.                                                             *)

TypeOK ==
    /\ checkOnly \in BOOLEAN
    /\ chunks \in 0 .. MaxChunks
    /\ pc \in {"models", "audio", "connect", "hello", "update", "commit",
               "append", "listen", "end"}
    /\ sent \in 0 .. chunks
    /\ result \in {"running", "passed", "failed"}
    /\ link \in {"none", "open", "closed"}
    /\ inbox \in Seq({"session.update", "commit", "append", "commit final"})
    /\ events \in Seq({"session.created", "transcription.delta",
                       "transcription.done", "error", "other"})
    /\ server \in Server
    /\ faults \subseteq {"http", "audio", "connect", "timeout", "server"}

\* Exit code 0 is earned: the server has the model, and unless only the list
\* of models was asked for, it was named in the session and the whole audio
\* was transcribed.
PassedIsEarned ==
    result = "passed" =>
        /\ server.serves
        /\ checkOnly \/ (server.valid /\ server.transcribed = chunks)

\* Exit code 1 is deserved: the model is not served, or something outside of
\* the client failed or took too long.  No order of events, and no events of
\* other types, make a client fail whose server does its work.
FailedIsDeserved ==
    result = "failed" => ~server.serves \/ faults # {}

\* The client is in a send that waits for the server to read.
Blocked ==
    /\ pc \in {"update", "commit", "append"}
    /\ link = "open"
    /\ ~HasRoom

\* Every verification ends, whatever the server does or leaves undone, with
\* two exceptions: a server that sends events for ever (MaxNoise rules it
\* out), and one that stops reading while the client sends, but keeps the
\* connection open: only a recv has a time-out, so that the send of the first
\* message that does not fit blocks the script for ever.
EveryVerificationEnds == <>(result # "running") \/ <>[]Blocked
=============================================================================
