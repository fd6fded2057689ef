------------------------ MODULE RealtimeVerifyProofs ------------------------
(***************************************************************************)
(* Proofs about the realtime verification, for audio of any length, any    *)
(* speed of the server and any number of events that the client ignores.   *)
(***************************************************************************)
EXTENDS RealtimeVerify, SequenceTheorems, TLAPS

Messages == {"session.update", "commit", "append", "commit final"}
Events   == {"session.created", "transcription.delta", "transcription.done",
             "error", "other"}

-----------------------------------------------------------------------------
(* The type invariant.                                                     *)

LEMMA VerifyInitType == Init => TypeOK
<1> SUFFICES ASSUME Init PROVE TypeOK
  OBVIOUS
<1>1. server \in Server
  <2>1. 0 \in 0 .. MaxNoise /\ 0 \in Nat /\ -1 \in Nat \cup {-1}
    BY VerifyAssumption
  <2>2. PICK b \in BOOLEAN :
          server = [serves |-> b, greeted |-> FALSE, valid |-> FALSE,
                    begun |-> FALSE, ended |-> FALSE, heard |-> 0,
                    transcribed |-> -1, noise |-> 0]
    BY DEF Init
  <2>3. QED
    BY <2>1, <2>2 DEF Server
<1>2. 0 \in 0 .. chunks
  BY VerifyAssumption DEF Init
<1>3. QED
  BY <1>1, <1>2 DEF Init, TypeOK

LEMMA TypeParts ==
    ASSUME TypeOK
    PROVE  /\ inbox \in Seq(Messages) /\ events \in Seq(Events)
           /\ server \in Server /\ chunks \in Nat /\ sent \in 0 .. chunks
<1>1. inbox \in Seq(Messages)
  BY DEF TypeOK, Messages
<1>2. events \in Seq(Events)
  BY DEF TypeOK, Events
<1>3. server \in Server
  BY DEF TypeOK
<1>4. chunks \in Nat
  <2>1. chunks \in 0 .. MaxChunks
    BY DEF TypeOK
  <2>2. QED
    BY <2>1, VerifyAssumption
<1>5. sent \in 0 .. chunks
  BY DEF TypeOK
<1>6. QED
  BY <1>1, <1>2, <1>3, <1>4, <1>5

LEMMA SendType ==
    ASSUME TypeOK, NEW from, NEW message \in Messages, NEW to, Send(from, message, to)
    PROVE  inbox' \in Seq(Messages) /\ (pc' = to \/ pc' = "end")
           /\ (result' = result \/ result' = "failed")
<1>1. inbox' \in Seq(Messages)
  <2>1. inbox' = Append(inbox, message) \/ inbox' = inbox
    BY DEF Send
  <2>2. inbox \in Seq(Messages)
    BY TypeParts
  <2>3. Append(inbox, message) \in Seq(Messages)
    BY <2>2, AppendProperties
  <2>4. QED
    BY <2>1, <2>2, <2>3
<1>2. pc' = to \/ pc' = "end"
  BY DEF Send, Go, End
<1>3. result' = result \/ result' = "failed"
  BY DEF Send, Go, End
<1>4. QED
  BY <1>1, <1>2, <1>3

LEMMA ReceivedType ==
    ASSUME TypeOK, events # <<>>
    PROVE  Tail(events) \in Seq(Events) /\ Head(events) \in Events
BY TypeParts

LEMMA ClientType ==
    ASSUME TypeOK, ClientStep
    PROVE  TypeOK'
<1> USE VerifyAssumption
<1>1. CASE CheckModels
  BY <1>1 DEF CheckModels, Go, End, Fault, NoFault, inputVars, TypeOK
<1>2. CASE LoadAudio
  BY <1>2 DEF LoadAudio, Go, End, Fault, NoFault, inputVars, TypeOK
<1>3. CASE Connect
  BY <1>3 DEF Connect, Go, End, Fault, NoFault, inputVars, TypeOK
<1>4. CASE AwaitCreated
  <2>1. events' \in Seq(Events)
    BY <1>4, ReceivedType DEF AwaitCreated
  <2>2. QED
    BY <1>4, <2>1 DEF AwaitCreated, Go, End, inputVars, TypeOK, Events
<1>5. CASE SendUpdate
  <2>1. inbox' \in Seq(Messages) /\ (pc' = "commit" \/ pc' = "end")
        /\ (result' = result \/ result' = "failed")
    BY <1>5, SendType DEF SendUpdate, Messages
  <2>2. QED
    BY <1>5, <2>1 DEF SendUpdate, inputVars, TypeOK, Messages
<1>6. CASE SendCommit
  <2>1. inbox' \in Seq(Messages) /\ (pc' = "append" \/ pc' = "end")
        /\ (result' = result \/ result' = "failed")
    BY <1>6, SendType DEF SendCommit, Messages
  <2>2. QED
    BY <1>6, <2>1 DEF SendCommit, inputVars, TypeOK, Messages
<1>7. CASE SendChunk
  <2>1. inbox' \in Seq(Messages) /\ (pc' = "append" \/ pc' = "end")
        /\ (result' = result \/ result' = "failed")
    BY <1>7, SendType DEF SendChunk, Messages
  <2>2. sent' \in 0 .. chunks
    BY <1>7, TypeParts DEF SendChunk, MoreToSend
  <2>3. QED
    BY <1>7, <2>1, <2>2 DEF SendChunk, inputVars, TypeOK, Messages
<1>8. CASE SendFinal
  <2>1. inbox' \in Seq(Messages) /\ (pc' = "listen" \/ pc' = "end")
        /\ (result' = result \/ result' = "failed")
    BY <1>8, SendType DEF SendFinal, Messages
  <2>2. QED
    BY <1>8, <2>1 DEF SendFinal, inputVars, TypeOK, Messages
<1>9. CASE Listen
  <2>1. events' \in Seq(Events)
    BY <1>9, ReceivedType DEF Listen
  <2>2. QED
    BY <1>9, <2>1 DEF Listen, Go, End, inputVars, TypeOK, Events
<1>10. CASE RecvRaises
  BY <1>10 DEF RecvRaises, End, inputVars, TypeOK
<1>11. CASE RecvTimesOut
  BY <1>11 DEF RecvTimesOut, End, Fault, inputVars, TypeOK
<1>12. QED
  BY <1>1, <1>2, <1>3, <1>4, <1>5, <1>6, <1>7, <1>8, <1>9, <1>10, <1>11
     DEF ClientStep

LEMMA EmitType ==
    ASSUME TypeOK, NEW e \in Events, Emit(e)
    PROVE  events' \in Seq(Events)
BY TypeParts DEF Emit

LEMMA ServerType ==
    ASSUME TypeOK, ServerStep
    PROVE  TypeOK'
<1> USE VerifyAssumption, TypeParts
<1>1. CASE Greet
  <2>1. events' \in Seq(Events)
    BY <1>1, EmitType DEF Greet, Events
  <2>2. server' \in Server
    BY <1>1 DEF Greet, Server
  <2>3. QED
    BY <1>1, <2>1, <2>2 DEF Greet, Fault, NoFault, inputVars, clientVars, TypeOK, Events
<1>2. CASE Handle
  <2>1. events' \in Seq(Events)
    BY <1>2, EmitType DEF Handle, Events
  <2>2. inbox' \in Seq(Messages)
    BY <1>2 DEF Handle
  <2>3. server' \in Server
    <3> DEFINE m     == Head(inbox)
               valid == server.valid \/ (m = "session.update" /\ server.serves)
               begun == server.begun \/ (m \in {"commit", "commit final"})
               ended == server.ended \/ (m = "commit final")
               heard == IF m = "append" THEN server.heard + 1 ELSE server.heard
    <3>1. server' = [server EXCEPT !.valid = valid, !.begun = begun,
                                   !.ended = ended, !.heard = heard]
      BY <1>2 DEF Handle
    <3>2. valid \in BOOLEAN /\ begun \in BOOLEAN /\ ended \in BOOLEAN /\ heard \in Nat
      BY DEF Server
    <3> HIDE DEF valid, begun, ended, heard
    <3>3. QED
      BY <3>1, <3>2 DEF Server
  <2>4. QED
    BY <1>2, <2>1, <2>2, <2>3
       DEF Handle, inputVars, clientVars, TypeOK, Events, Messages
<1>3. CASE MakeNoise
  <2>1. events' \in Seq(Events)
    BY <1>3, EmitType DEF MakeNoise, Events
  <2>2. server' \in Server
    <3>1. server.noise + 1 \in 0 .. MaxNoise
      BY <1>3 DEF MakeNoise, Server
    <3>2. server' = [server EXCEPT !.noise = server.noise + 1]
      BY <1>3 DEF MakeNoise
    <3>3. QED
      BY <3>1, <3>2 DEF Server
  <2>3. QED
    BY <1>3, <2>1, <2>2 DEF MakeNoise, inputVars, clientVars, TypeOK, Events
<1>4. CASE Transcribe
  <2>1. events' \in Seq(Events)
    BY <1>4, EmitType DEF Transcribe, Events
  <2>2. server' \in Server
    BY <1>4 DEF Transcribe, Server
  <2>3. QED
    BY <1>4, <2>1, <2>2 DEF Transcribe, inputVars, clientVars, TypeOK, Events
<1>5. CASE Break
  <2>1. events' \in Seq(Events)
    BY <1>5, EmitType DEF Break, Events
  <2>2. QED
    BY <1>5, <2>1 DEF Break, Fault, inputVars, clientVars, TypeOK, Events
<1>6. QED
  BY <1>1, <1>2, <1>3, <1>4, <1>5 DEF ServerStep

LEMMA VerifyStutter ==
    ASSUME TypeOK, UNCHANGED vars
    PROVE  TypeOK'
BY DEF TypeOK, vars, inputVars, clientVars

\* The verification's state has its type, for audio of any length.
THEOREM VerifyTypeCorrect == Spec => []TypeOK
<1>1. TypeOK /\ [Next]_vars => TypeOK'
  BY ClientType, ServerType, VerifyStutter DEF Next
<1>2. QED
  BY VerifyInitType, <1>1, PTL DEF Spec

-----------------------------------------------------------------------------
(* The stream of messages: what the server has heard, what is on its way,  *)
(* and what the client has yet to write are parts of one sequence.         *)

\* The i-th message of a session.
Message(i) == IF i = 1 THEN "session.update"
              ELSE IF i = 2 THEN "commit"
              ELSE IF i <= chunks + 2 THEN "append" ELSE "commit final"

Heard(k) == IF k <= 2 THEN 0 ELSE IF k <= chunks + 2 THEN k - 2 ELSE chunks

LEMMA AppendIs ==
    ASSUME chunks \in Nat, NEW i \in Nat, 1 <= i, i <= chunks + 3
    PROVE  Message(i) = "append" <=> 3 <= i /\ i <= chunks + 2
BY DEF Message

LEMMA FinalIs ==
    ASSUME chunks \in Nat, NEW i \in Nat, 1 <= i, i <= chunks + 3
    PROVE  Message(i) = "commit final" <=> i = chunks + 3
BY DEF Message

LEMMA HeardGrows ==
    ASSUME chunks \in Nat, NEW k \in Nat, k + 1 <= chunks + 3
    PROVE  Heard(k + 1) = IF Message(k + 1) = "append" THEN Heard(k) + 1 ELSE Heard(k)
<1>1. Message(k + 1) = "append" <=> 2 <= k /\ k + 1 <= chunks + 2
  <2>1. PICK i \in Nat : i = k + 1
    OBVIOUS
  <2>2. Message(i) = "append" <=> 3 <= i /\ i <= chunks + 2
    BY <2>1, AppendIs
  <2>3. 3 <= i <=> 2 <= k
    BY <2>1
  <2>4. QED
    BY <2>1, <2>2, <2>3
<1>2. QED
  BY <1>1 DEF Heard

Early == {"models", "audio", "connect", "hello", "update"}

\* The client has written m messages.
Written(m) == /\ pc \in Early => m = 0 /\ sent = 0
              /\ pc = "commit" => m = 1 /\ sent = 0
              /\ pc = "append" => m = 2 + sent
              /\ pc = "listen" => m = 3 + chunks

\* The server has handled k of m messages, and the others are in inbox.
InStream(k, m) ==
    /\ Written(m)
    /\ k + Len(inbox) = m
    /\ \A i \in 1 .. Len(inbox) : inbox[i] = Message(k + i)
    /\ server.heard = Heard(k)
    /\ server.ended <=> k >= chunks + 3

Stream == pc # "end" => \E k, m \in Nat : InStream(k, m)

LEMMA StreamInit == Init => Stream
<1> SUFFICES ASSUME Init PROVE InStream(0, 0)
  BY DEF Stream
<1>1. server.heard = 0 /\ server.ended = FALSE
  BY DEF Init
<1>2. chunks \in Nat
  BY VerifyInitType, TypeParts
<1>3. Written(0) /\ Heard(0) = 0 /\ inbox = <<>>
  BY DEF Init, Written, Early, Heard
<1>4. Len(inbox) = 0
  BY <1>3
<1>5. QED
  BY <1>1, <1>2, <1>3, <1>4 DEF InStream

\* A step of the client that does not write.
LEMMA StreamKept ==
    ASSUME Stream, UNCHANGED <<chunks, sent, inbox, server>>,
           pc' # "end" => pc # "end" /\ \A m \in Nat : Written(m) => Written(m)'
    PROVE  Stream'
<1> SUFFICES ASSUME pc' # "end" PROVE \E k, m \in Nat : InStream(k, m)'
  BY DEF Stream
<1>1. PICK k \in Nat, m \in Nat : InStream(k, m)
  BY DEF Stream
<1>2. InStream(k, m)'
  BY <1>1 DEF InStream, Message, Heard
<1>3. QED
  BY <1>2

\* A step of the client that writes the next message.
LEMMA StreamWritten ==
    ASSUME TypeOK, Stream, NEW message, UNCHANGED <<chunks, server>>,
           pc # "end",
           pc' # "end" =>
               /\ inbox' = Append(inbox, message)
               /\ \A m \in Nat : Written(m) =>
                     Written(m + 1)' /\ message = Message(m + 1)
    PROVE  Stream'
<1> SUFFICES ASSUME pc' # "end" PROVE \E k, m \in Nat : InStream(k, m)'
  BY DEF Stream
<1>1. PICK k \in Nat, m \in Nat : InStream(k, m)
  BY DEF Stream
<1>2. inbox \in Seq(Messages)
  BY TypeParts
<1>3. /\ Len(inbox') = Len(inbox) + 1
      /\ inbox'[Len(inbox) + 1] = message
      /\ \A i \in 1 .. Len(inbox) : inbox'[i] = inbox[i]
  BY <1>2
<1>4. k + Len(inbox) = m /\ Len(inbox) \in Nat /\ message = Message(m + 1)
  BY <1>1, <1>2 DEF InStream
<1>5. \A i : Message(i)' = Message(i)
  BY DEF Message
<1>6. \A i \in 1 .. Len(inbox') : inbox'[i] = Message(k + i)
  <2> SUFFICES ASSUME NEW i \in 1 .. Len(inbox') PROVE inbox'[i] = Message(k + i)
    OBVIOUS
  <2>1. CASE i \in 1 .. Len(inbox)
    BY <1>1, <1>3, <2>1 DEF InStream
  <2>2. CASE i = Len(inbox) + 1
    BY <1>3, <1>4, <2>2
  <2>3. QED
    BY <1>3, <1>4, <2>1, <2>2
<1>7. InStream(k, m + 1)'
  BY <1>1, <1>3, <1>4, <1>5, <1>6 DEF InStream, Heard
<1>8. QED
  BY <1>7

LEMMA StreamClient ==
    ASSUME TypeOK, Stream, ClientStep
    PROVE  Stream'
<1>1. chunks \in Nat /\ sent \in Nat /\ sent <= chunks
  BY TypeParts
<1>2. CASE CheckModels \/ LoadAudio \/ Connect \/ AwaitCreated
  <2>1. /\ UNCHANGED <<chunks, sent, inbox, server>>
        /\ pc \in Early
        /\ pc' \in Early \/ pc' = "end"
    BY <1>2 DEF CheckModels, LoadAudio, Connect, AwaitCreated, Go, End, Early, inputVars
  <2>2. pc # "end" /\ (pc' # "end" => \A m \in Nat : Written(m) => Written(m)')
    BY <2>1 DEF Early, Written
  <2>3. QED
    BY <2>1, <2>2, StreamKept
<1>3. CASE SendUpdate
  <2>1. /\ UNCHANGED <<chunks, sent, server>> /\ pc = "update"
        /\ pc' # "end" => pc' = "commit" /\ inbox' = Append(inbox, "session.update")
    BY <1>3 DEF SendUpdate, Send, Go, End, inputVars
  <2>2. pc' # "end" => \A m \in Nat :
            Written(m) => Written(m + 1)' /\ "session.update" = Message(m + 1)
    BY <2>1 DEF Written, Early, Message
  <2>3. QED
    BY <2>1, <2>2, StreamWritten
<1>4. CASE SendCommit
  <2>1. /\ UNCHANGED <<chunks, sent, server>> /\ pc = "commit"
        /\ pc' # "end" => pc' = "append" /\ inbox' = Append(inbox, "commit")
    BY <1>4 DEF SendCommit, Send, Go, End, inputVars
  <2>2. pc' # "end" => \A m \in Nat :
            Written(m) => Written(m + 1)' /\ "commit" = Message(m + 1)
    BY <2>1 DEF Written, Early, Message
  <2>3. QED
    BY <2>1, <2>2, StreamWritten
<1>5. CASE SendChunk
  <2>1. /\ UNCHANGED <<chunks, server>> /\ pc = "append"
        /\ sent' = sent + 1 /\ sent < chunks
        /\ pc' # "end" => pc' = "append" /\ inbox' = Append(inbox, "append")
    BY <1>5 DEF SendChunk, MoreToSend, Send, Go, End, inputVars
  <2>2. pc' # "end" => \A m \in Nat :
            Written(m) => Written(m + 1)' /\ "append" = Message(m + 1)
    BY <1>1, <2>1 DEF Written, Early, Message
  <2>3. QED
    BY <2>1, <2>2, StreamWritten
<1>6. CASE SendFinal
  <2>1. /\ UNCHANGED <<chunks, sent, server>> /\ pc = "append"
        /\ pc' # "end" => pc' = "listen" /\ inbox' = Append(inbox, "commit final")
    BY <1>6 DEF SendFinal, Send, Go, End, inputVars
  <2>2. pc' # "end" => \A m \in Nat :
            Written(m) => Written(m + 1)' /\ "commit final" = Message(m + 1)
    <3>1. ~(sent < chunks)
      BY <1>6 DEF SendFinal, MoreToSend
    <3>2. sent = chunks
      BY <1>1, <3>1
    <3>3. \A m \in Nat : Written(m) => m = 2 + chunks
      BY <2>1, <3>2 DEF Written
    <3>4. PICK c \in Nat : c = 3 + chunks
      BY <1>1
    <3>5. pc' # "end" => Written(c)'
      BY <2>1, <3>4 DEF Written, Early
    <3>6. Message(c) = "commit final"
      <4>1. chunks \in Nat /\ 1 <= c /\ c <= chunks + 3 /\ c = chunks + 3
        BY <1>1, <3>4
      <4>2. QED
        BY <4>1, FinalIs
    <3>7. \A m \in Nat : Written(m) => m + 1 = c
      BY <1>1, <3>3, <3>4
    <3>8. QED
      BY <3>5, <3>6, <3>7
  <2>3. QED
    BY <2>1, <2>2, StreamWritten
<1>7. CASE Listen \/ RecvRaises \/ RecvTimesOut
  <2>1. /\ UNCHANGED <<chunks, sent, inbox, server>>
        /\ pc # "end" /\ (pc' = pc \/ pc' = "end")
    BY <1>7 DEF Listen, RecvRaises, RecvTimesOut, Go, End, inputVars
  <2>2. pc' # "end" => \A m \in Nat : Written(m) => Written(m)'
    BY <2>1 DEF Written
  <2>3. QED
    BY <2>1, <2>2, StreamKept
<1>8. QED
  BY <1>2, <1>3, <1>4, <1>5, <1>6, <1>7 DEF ClientStep

LEMMA StreamHandled ==
    ASSUME TypeOK, Stream, Handle
    PROVE  Stream'
<1>1. PICK k \in Nat, m \in Nat : InStream(k, m)
  BY DEF Stream, Handle, Connected
<1>2. /\ inbox # <<>> /\ inbox' = Tail(inbox)
      /\ UNCHANGED <<chunks, sent, pc>> /\ pc # "end"
  BY DEF Handle, Connected, inputVars, clientVars
<1>3. inbox \in Seq(Messages)
  BY TypeParts
<1>4. /\ Len(inbox) \in Nat /\ Len(inbox) > 0 /\ Len(inbox') = Len(inbox) - 1
      /\ Head(inbox) = inbox[1]
      /\ \A i \in 1 .. Len(inbox') : inbox'[i] = inbox[i + 1]
  BY <1>2, <1>3
<1>5. /\ server'.heard = IF Head(inbox) = "append" THEN server.heard + 1 ELSE server.heard
      /\ server'.ended <=> (server.ended \/ Head(inbox) = "commit final")
  BY TypeParts DEF Handle, Server
<1>6. /\ k + Len(inbox) = m
      /\ \A i \in 1 .. Len(inbox) : inbox[i] = Message(k + i)
      /\ server.heard = Heard(k)
      /\ server.ended <=> k >= chunks + 3
      /\ Written(m)
  BY <1>1 DEF InStream
<1>7. Head(inbox) = Message(k + 1)
  BY <1>4, <1>6
<1>8. chunks \in Nat /\ sent \in Nat /\ sent <= chunks /\ k \in Nat
  BY TypeParts
<1>9. k + 1 <= chunks + 3
  <2>1. m <= chunks + 3
    <3>1. pc \in Early \cup {"commit", "append", "listen"}
      BY <1>2 DEF TypeOK, Early
    <3>2. QED
      BY <1>6, <1>8, <3>1 DEF Written, Early
  <2>2. QED
    BY <1>4, <1>6, <1>8, <2>1
<1>10. server'.heard = Heard(k + 1)
  <2>1. Heard(k + 1) = IF Message(k + 1) = "append" THEN Heard(k) + 1 ELSE Heard(k)
    BY <1>8, <1>9, HeardGrows
  <2>2. CASE Message(k + 1) = "append"
    <3>1. Head(inbox) = "append"
      BY <1>7, <2>2, Zenon
    <3>2. QED
      BY <1>5, <1>6, <2>1, <2>2, <3>1, Zenon
  <2>3. CASE Message(k + 1) # "append"
    <3>1. Head(inbox) # "append"
      BY <1>7, <2>3, Zenon
    <3>2. QED
      BY <1>5, <1>6, <2>1, <2>3, <3>1, Zenon
  <2>4. QED
    BY <2>2, <2>3
<1>11. server'.ended <=> k + 1 >= chunks + 3
  <2>1. PICK i \in Nat : i = k + 1
    BY <1>8
  <2>2. Message(i) = "commit final" <=> i = chunks + 3
    <3>1. chunks \in Nat /\ 1 <= i /\ i <= chunks + 3
      BY <1>8, <1>9, <2>1
    <3>2. QED
      BY <3>1, FinalIs
  <2>3. ~(k >= chunks + 3) /\ (k + 1 >= chunks + 3 <=> i = chunks + 3)
    BY <1>8, <1>9, <2>1
  <2>4. Head(inbox) = "commit final" <=> i = chunks + 3
    BY <1>7, <2>1, <2>2, Zenon
  <2>5. QED
    BY <1>5, <1>6, <2>3, <2>4, Zenon
<1>12. \A i \in 1 .. Len(inbox') : inbox'[i] = Message((k + 1) + i)
  <2> SUFFICES ASSUME NEW i \in 1 .. Len(inbox')
               PROVE  inbox'[i] = Message((k + 1) + i)
    OBVIOUS
  <2>1. inbox'[i] = inbox[i + 1] /\ i + 1 \in 1 .. Len(inbox)
    BY <1>4
  <2>2. inbox[i + 1] = Message(k + (i + 1))
    BY <1>6, <2>1
  <2>3. k + (i + 1) = (k + 1) + i
    BY <1>4
  <2>4. QED
    BY <2>1, <2>2, <2>3
<1>13. /\ \A i : Message(i)' = Message(i)
       /\ Heard(k + 1)' = Heard(k + 1) /\ Written(m)'
  BY <1>2, <1>6 DEF Message, Heard, Written
<1>14. (k + 1) + Len(inbox') = m
  BY <1>4, <1>6
<1>15. InStream(k + 1, m)'
  BY <1>2, <1>10, <1>11, <1>12, <1>13, <1>14 DEF InStream
<1>16. QED
  BY <1>15 DEF Stream

LEMMA StreamServer ==
    ASSUME TypeOK, Stream, ServerStep
    PROVE  Stream'
<1>1. CASE Handle
  BY <1>1, StreamHandled
<1>2. CASE Greet \/ MakeNoise \/ Transcribe \/ Break
  <2>1. /\ UNCHANGED <<chunks, sent, inbox, pc>> /\ pc # "end"
        /\ server'.heard = server.heard /\ server'.ended = server.ended
    BY <1>2, TypeParts
       DEF Greet, MakeNoise, Transcribe, Break, Connected, inputVars,
           clientVars, Server
  <2>2. PICK k \in Nat, m \in Nat : InStream(k, m)
    BY <2>1 DEF Stream
  <2>3. InStream(k, m)'
    BY <2>1, <2>2 DEF InStream, Message, Heard, Written
  <2>4. QED
    BY <2>3 DEF Stream
<1>3. QED
  BY <1>1, <1>2 DEF ServerStep

LEMMA StreamStep == TypeOK /\ Stream /\ [Next]_vars => Stream'
<1>1. ASSUME Stream, UNCHANGED vars
      PROVE  Stream'
  <2>1. UNCHANGED <<chunks, sent, inbox, pc, server>>
    BY <1>1 DEF vars, inputVars, clientVars
  <2>2. \A m : Written(m)' = Written(m)
    BY <2>1 DEF Written
  <2>3. QED
    BY <1>1, <2>1, <2>2, StreamKept
<1>2. QED
  BY StreamClient, StreamServer, <1>1 DEF Next

-----------------------------------------------------------------------------
(* Exit code 0 is earned.                                                  *)

Has(event) == \E i \in 1 .. Len(events) : events[i] = event

LEMMA HasHead ==
    ASSUME TypeOK, events # <<>>
    PROVE  Has(Head(events))
BY TypeParts DEF Has

LEMMA HasTail ==
    ASSUME TypeOK, events # <<>>, events' = Tail(events), NEW e, Has(e)'
    PROVE  Has(e)
<1>1. PICK i \in 1 .. Len(Tail(events)) : Tail(events)[i] = e
  BY DEF Has
<1>2. i + 1 \in 1 .. Len(events) /\ events[i + 1] = e
  BY <1>1, TypeParts
<1>3. QED
  BY <1>2 DEF Has

LEMMA HasEmitted ==
    ASSUME TypeOK, NEW f, Emit(f), NEW e, Has(e)'
    PROVE  e = f \/ Has(e)
<1>1. events \in Seq(Events)
  BY TypeParts
<1>2. events' = Append(events, f)
  BY DEF Emit
<1>3. PICK i \in 1 .. Len(events') : events'[i] = e
  BY DEF Has
<1>4. Len(events') = Len(events) + 1 /\ Len(events) \in Nat
  BY <1>1, <1>2
<1>5. CASE i = Len(events) + 1
  BY <1>1, <1>2, <1>3, <1>5
<1>6. CASE i \in 1 .. Len(events)
  BY <1>1, <1>2, <1>3, <1>6 DEF Has
<1>7. QED
  BY <1>3, <1>4, <1>5, <1>6

\* PassedIsEarned is about the end: until then, the server says that it is
\* done only if it has the model and has heard all of the audio.
Earned ==
    /\ server.valid => server.serves
    /\ server.transcribed # -1 => server.valid /\ server.transcribed = chunks
    /\ Has("transcription.done") => server.transcribed # -1
    /\ PassedIsEarned

LEMMA EarnedInit == Init => Earned
<1> SUFFICES ASSUME Init PROVE Earned
  OBVIOUS
<1>1. server.valid = FALSE /\ server.transcribed = -1 /\ Len(events) = 0
  BY DEF Init
<1>2. ~Has("transcription.done")
  BY <1>1 DEF Has
<1>3. QED
  BY <1>1, <1>2 DEF Init, Earned, PassedIsEarned

LEMMA EarnedClient ==
    ASSUME TypeOK, Earned, ClientStep
    PROVE  Earned'
<1>1. UNCHANGED <<checkOnly, chunks, server>>
  BY DEF ClientStep, CheckModels, LoadAudio, Connect, AwaitCreated, SendUpdate,
         SendCommit, SendChunk, SendFinal, Listen, RecvRaises, RecvTimesOut,
         inputVars
<1>2. events' = events \/ (events # <<>> /\ events' = Tail(events))
  BY DEF ClientStep, CheckModels, LoadAudio, Connect, AwaitCreated, SendUpdate,
         SendCommit, SendChunk, SendFinal, Listen, RecvRaises, RecvTimesOut
<1>3. Has("transcription.done")' => Has("transcription.done")
  <2>1. CASE events' = events
    BY <2>1 DEF Has
  <2>2. CASE events # <<>> /\ events' = Tail(events)
    BY <2>2, HasTail
  <2>3. QED
    BY <1>2, <2>1, <2>2
<1>4. \/ result' = result
      \/ result' = "failed"
      \/ checkOnly /\ server.serves
      \/ events # <<>> /\ Head(events) = "transcription.done"
  <2>1. CASE CheckModels
    BY <2>1 DEF CheckModels, Go, End
  <2>2. CASE LoadAudio \/ Connect \/ RecvRaises \/ RecvTimesOut
    BY <2>2 DEF LoadAudio, Connect, RecvRaises, RecvTimesOut, Go, End
  <2>3. CASE AwaitCreated
    BY <2>3 DEF AwaitCreated, Go, End
  <2>4. CASE SendUpdate \/ SendCommit \/ SendChunk \/ SendFinal
    BY <2>4 DEF SendUpdate, SendCommit, SendChunk, SendFinal, Send, Go, End
  <2>5. CASE Listen
    BY <2>5 DEF Listen, Go, End
  <2>6. QED
    BY <2>1, <2>2, <2>3, <2>4, <2>5 DEF ClientStep
<1>5. PassedIsEarned'
  <2>1. CASE result' = result \/ result' = "failed" \/ (checkOnly /\ server.serves)
    BY <1>1, <2>1 DEF Earned, PassedIsEarned
  <2>2. CASE events # <<>> /\ Head(events) = "transcription.done"
    <3>1. Has("transcription.done")
      BY <2>2, HasHead
    <3>2. QED
      BY <1>1, <3>1 DEF Earned, PassedIsEarned
  <2>3. QED
    BY <1>4, <2>1, <2>2
<1>6. QED
  BY <1>1, <1>3, <1>5 DEF Earned

\* When the end of the audio has been handled, all of it has been heard.
LEMMA WholeIsHeard ==
    ASSUME TypeOK, Stream, pc # "end", server.ended
    PROVE  server.heard = chunks
<1>1. PICK k \in Nat, m \in Nat : InStream(k, m)
  BY DEF Stream
<1>2. k >= chunks + 3 /\ server.heard = Heard(k)
  BY <1>1 DEF InStream
<1>3. chunks \in Nat
  BY TypeParts
<1>4. Heard(k) = chunks
  BY <1>2, <1>3 DEF Heard
<1>5. QED
  BY <1>2, <1>4, Zenon

LEMMA EarnedServer ==
    ASSUME TypeOK, Stream, Earned, ServerStep
    PROVE  Earned'
<1>1. UNCHANGED <<checkOnly, chunks, result>>
  BY DEF ServerStep, Greet, Handle, MakeNoise, Transcribe, Break, inputVars, clientVars
<1>2. server \in Server
  BY TypeParts
<1>3. CASE Greet \/ MakeNoise \/ Break
  <2>1. /\ server'.valid = server.valid /\ server'.serves = server.serves
        /\ server'.transcribed = server.transcribed
    BY <1>2, <1>3 DEF Greet, MakeNoise, Break, Server
  <2>2. events' = events \/ \E e : e # "transcription.done" /\ Emit(e)
    BY <1>3 DEF Greet, MakeNoise, Break
  <2>3. Has("transcription.done")' => Has("transcription.done")
    <3>1. CASE events' = events
      BY <3>1 DEF Has
    <3>2. CASE \E e : e # "transcription.done" /\ Emit(e)
      BY <3>2, HasEmitted
    <3>3. QED
      BY <2>2, <3>1, <3>2
  <2>4. QED
    BY <1>1, <2>1, <2>3 DEF Earned, PassedIsEarned
<1>4. CASE Handle
  <2>1. /\ server'.valid => server.valid \/ server.serves
        /\ server.valid => server'.valid
        /\ server'.serves = server.serves
        /\ server'.transcribed = server.transcribed
    BY <1>2, <1>4 DEF Handle, Server
  <2>2. events' = events \/ Emit("error")
    BY <1>4 DEF Handle
  <2>3. Has("transcription.done")' => Has("transcription.done")
    <3>1. CASE events' = events
      BY <3>1 DEF Has
    <3>2. CASE Emit("error")
      BY <3>2, HasEmitted
    <3>3. QED
      BY <2>2, <3>1, <3>2
  <2>4. QED
    BY <1>1, <2>1, <2>3 DEF Earned, PassedIsEarned
<1>5. CASE Transcribe
  <2>1. /\ server.valid /\ server.ended /\ server.transcribed = -1 /\ pc # "end"
        /\ server' = [server EXCEPT !.transcribed = server.heard]
    BY <1>5 DEF Transcribe, Connected
  <2>2. /\ server'.valid = server.valid /\ server'.serves = server.serves
        /\ server'.transcribed = server.heard
    BY <1>2, <2>1 DEF Server
  <2>3. server.heard = chunks /\ chunks \in Nat
    BY <2>1, WholeIsHeard, TypeParts
  <2>4. chunks # -1
    BY <2>3
  <2>5. QED
    BY <1>1, <2>1, <2>2, <2>3, <2>4 DEF Earned, PassedIsEarned
<1>6. QED
  BY <1>3, <1>4, <1>5 DEF ServerStep

LEMMA EarnedStutter == Earned /\ UNCHANGED vars => Earned'
BY DEF Earned, PassedIsEarned, Has, vars, inputVars, clientVars

LEMMA VerifyInvariant == Spec => [](TypeOK /\ Stream /\ Earned)
<1>1. Init => TypeOK /\ Stream /\ Earned
  BY VerifyInitType, StreamInit, EarnedInit
<1>2. TypeOK /\ Stream /\ Earned /\ [Next]_vars => TypeOK' /\ Stream' /\ Earned'
  BY ClientType, ServerType, VerifyStutter, StreamStep, EarnedClient,
     EarnedServer, EarnedStutter DEF Next
<1>3. QED
  BY <1>1, <1>2, PTL DEF Spec

\* Exit code 0 is earned, for audio of any length: the model is served, and a
\* session that passed named it and had the whole audio transcribed.
THEOREM PassIsEarned == Spec => []PassedIsEarned
<1>1. Earned => PassedIsEarned
  BY DEF Earned
<1>2. QED
  BY VerifyInvariant, <1>1, PTL

-----------------------------------------------------------------------------
(* Exit code 1 is deserved.                                                *)

\* The server has the model, and nothing outside of the client went wrong.
Sound == server.serves /\ faults = {}

\* FailedIsDeserved is about the end: in a sound run the connection is open,
\* no error is on its way, and session.created is the first event.
Deserved ==
    /\ pc \in {"models", "audio", "connect"} => link = "none"
    /\ Sound => /\ result # "failed"
                /\ link # "closed"
                /\ ~Has("error")
                /\ pc \in Early =>
                      \/ events = <<>> /\ ~server.greeted
                      \/ pc = "update"
                      \/ events # <<>> /\ Head(events) = "session.created"

LEMMA DeservedInit == Init => Deserved
<1> SUFFICES ASSUME Init PROVE Deserved
  OBVIOUS
<1>1. server.greeted = FALSE /\ events = <<>> /\ link = "none" /\ result = "running"
  BY DEF Init
<1>2. ~Has("error")
  BY <1>1 DEF Has
<1>3. QED
  BY <1>1, <1>2 DEF Deserved

LEMMA DeservedClient ==
    ASSUME TypeOK, Deserved, ClientStep
    PROVE  Deserved'
<1>1. server' = server /\ faults \subseteq faults'
  BY DEF ClientStep, CheckModels, LoadAudio, Connect, AwaitCreated, SendUpdate,
         SendCommit, SendChunk, SendFinal, Listen, RecvRaises, RecvTimesOut,
         Fault, NoFault
<1>2. Sound' => Sound
  BY <1>1 DEF Sound
<1>3. CASE CheckModels \/ LoadAudio
  <2>1. /\ UNCHANGED <<link, events>> /\ pc \in {"models", "audio"}
        /\ pc' \in {"audio", "connect", "end"}
    BY <1>3 DEF CheckModels, LoadAudio, Go, End
  <2>2. Sound' => result' = result \/ result' = "passed"
    BY <1>1, <1>3 DEF CheckModels, LoadAudio, Go, End, Sound, Fault, NoFault
  <2>3. Has("error")' = Has("error")
    BY <2>1 DEF Has
  <2>4. QED
    BY <1>1, <1>2, <2>1, <2>2, <2>3 DEF Deserved, Early
<1>4. CASE Connect
  <2>1. events' = events /\ pc = "connect" /\ pc' \in {"hello", "end"}
    BY <1>4 DEF Connect, Go, End
  <2>2. Sound' => result' = result /\ link' = "open"
    BY <1>4 DEF Connect, Go, End, Sound, Fault
  <2>3. Has("error")' = Has("error")
    BY <2>1 DEF Has
  <2>4. QED
    BY <1>1, <1>2, <2>1, <2>2, <2>3 DEF Deserved, Early
<1>5. CASE AwaitCreated
  <2>1. /\ link' = link /\ events # <<>> /\ events' = Tail(events)
        /\ pc = "hello" /\ pc' \in {"update", "end"}
    BY <1>5 DEF AwaitCreated, Go, End
  <2>2. Head(events) = "session.created" => pc' = "update" /\ result' = result
    BY <1>5 DEF AwaitCreated, Go
  <2>3. Sound => Head(events) = "session.created"
    BY <2>1 DEF Deserved, Early
  <2>4. Has("error")' => Has("error")
    BY <2>1, HasTail
  <2>5. QED
    BY <1>1, <1>2, <2>1, <2>2, <2>3, <2>4 DEF Deserved, Early
<1>6. CASE SendUpdate \/ SendCommit \/ SendChunk \/ SendFinal
  <2>1. /\ UNCHANGED <<link, events>>
        /\ pc' \in {"commit", "append", "listen", "end"}
        /\ link # "closed" => result' = result
    BY <1>6 DEF SendUpdate, SendCommit, SendChunk, SendFinal, Send, Go, End
  <2>2. Has("error")' = Has("error")
    BY <2>1 DEF Has
  <2>3. QED
    BY <1>1, <1>2, <2>1, <2>2 DEF Deserved, Early
<1>7. CASE Listen
  <2>1. /\ link' = link /\ events # <<>> /\ events' = Tail(events)
        /\ pc' \in {"listen", "end"}
        /\ Head(events) # "error" => result' = result \/ result' = "passed"
    BY <1>7 DEF Listen, Go, End
  <2>2. Has(Head(events))
    BY <2>1, HasHead
  <2>3. Has("error")' => Has("error")
    BY <2>1, HasTail
  <2>4. QED
    BY <1>1, <1>2, <2>1, <2>2, <2>3 DEF Deserved, Early
<1>8. CASE RecvRaises
  <2>1. link' = link /\ link = "closed" /\ pc' = "end"
    BY <1>8 DEF RecvRaises, End
  <2>2. QED
    BY <1>2, <2>1 DEF Deserved
<1>9. CASE RecvTimesOut
  <2>1. faults' # {} /\ pc' = "end"
    BY <1>9 DEF RecvTimesOut, Fault, End
  <2>2. QED
    BY <2>1 DEF Deserved, Sound
<1>10. QED
  BY <1>3, <1>4, <1>5, <1>6, <1>7, <1>8, <1>9 DEF ClientStep

\* Before its first message has been written, nothing ends a session.
LEMMA EarlyIsNotEnded ==
    ASSUME TypeOK, Stream, pc \in Early
    PROVE  ~server.ended
<1>1. pc # "end"
  BY DEF Early
<1>2. PICK k \in Nat, m \in Nat : InStream(k, m)
  BY <1>1 DEF Stream
<1>3. k + Len(inbox) = 0 /\ Len(inbox) \in Nat
  BY <1>2, TypeParts DEF InStream, Written
<1>4. k = 0 /\ chunks \in Nat
  BY <1>3, TypeParts
<1>5. QED
  BY <1>2, <1>4 DEF InStream

LEMMA DeservedServer ==
    ASSUME TypeOK, Stream, Deserved, ServerStep
    PROVE  Deserved'
<1>1. /\ UNCHANGED <<pc, result>> /\ link = "open" /\ faults \subseteq faults'
  BY DEF ServerStep, Greet, Handle, MakeNoise, Transcribe, Break, Connected,
         clientVars, Fault, NoFault
<1>2. server \in Server /\ events \in Seq(Events)
  BY TypeParts
<1>3. server'.serves = server.serves
  BY <1>2 DEF ServerStep, Greet, Handle, MakeNoise, Transcribe, Break, Server
<1>4. Sound' => Sound
  BY <1>1, <1>3 DEF Sound
<1>5. pc \notin {"models", "audio", "connect"}
  BY <1>1 DEF Deserved
<1>6. ASSUME NEW e, Emit(e), events # <<>>, Head(events) = "session.created"
      PROVE  events' # <<>> /\ Head(events') = "session.created"
  BY <1>2, <1>6 DEF Emit
<1>7. CASE Greet
  <2>1. /\ ~server.greeted
        /\ Sound' => Emit("session.created") /\ link' = link
    BY <1>7 DEF Greet, Sound, Fault
  <2>2. Sound' => ~Has("error")'
    BY <1>4, <2>1, HasEmitted DEF Deserved
  <2>3. Sound' /\ events = <<>> => events' # <<>> /\ Head(events') = "session.created"
    BY <2>1 DEF Emit
  <2>4. QED
    BY <1>1, <1>4, <1>5, <1>6, <2>1, <2>2, <2>3 DEF Deserved
<1>8. CASE Handle
  <2>1. /\ server'.greeted = server.greeted /\ link' = link
        /\ Sound => events' = events
    BY <1>2, <1>8 DEF Handle, Sound, Server
  <2>2. Sound => (Has("error")' <=> Has("error"))
    BY <2>1 DEF Has
  <2>3. QED
    BY <1>1, <1>4, <1>5, <2>1, <2>2 DEF Deserved
<1>9. CASE MakeNoise
  <2>1. /\ server.greeted /\ link' = link
        /\ \E e : e # "error" /\ Emit(e)
    BY <1>9 DEF MakeNoise
  <2>2. Has("error")' => Has("error")
    BY <2>1, HasEmitted
  <2>3. QED
    BY <1>1, <1>4, <1>5, <1>6, <2>1, <2>2 DEF Deserved
<1>10. CASE Transcribe
  <2>1. server.ended /\ link' = link /\ Emit("transcription.done")
    BY <1>10 DEF Transcribe
  <2>2. pc \notin Early
    BY <2>1, EarlyIsNotEnded
  <2>3. Has("error")' => Has("error")
    BY <2>1, HasEmitted
  <2>4. QED
    BY <1>1, <1>4, <1>5, <2>1, <2>2, <2>3 DEF Deserved
<1>11. CASE Break
  <2>1. faults' # {}
    BY <1>11 DEF Break, Fault
  <2>2. QED
    BY <1>1, <1>5, <2>1 DEF Deserved, Sound
<1>12. QED
  BY <1>7, <1>8, <1>9, <1>10, <1>11 DEF ServerStep

LEMMA DeservedStutter == Deserved /\ UNCHANGED vars => Deserved'
BY DEF Deserved, Sound, Has, vars, inputVars, clientVars

\* Exit code 1 is deserved, for audio of any length: no order of events, and
\* no events of other types, make a client fail whose server does its work.
THEOREM FailureIsDeserved == Spec => []FailedIsDeserved
<1>1. Deserved => FailedIsDeserved
  BY DEF Deserved, Sound, FailedIsDeserved
<1>2. TypeOK /\ Stream /\ Deserved /\ [Next]_vars => Deserved'
  BY DeservedClient, DeservedServer, DeservedStutter DEF Next
<1>3. QED
  BY VerifyInvariant, DeservedInit, <1>1, <1>2, PTL DEF Spec
=============================================================================
