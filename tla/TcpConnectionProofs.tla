------------------------- MODULE TcpConnectionProofs -------------------------
(***************************************************************************)
(* Proofs about TcpConnection, for any set of threads, any number of sends *)
(* and any message size: the output leaves in order, the FIN after it, and *)
(* messages are delivered only while the connection is up.                 *)
(***************************************************************************)
EXTENDS TcpConnection, SequenceTheorems, TLAPS

(***************************************************************************)
(* Messages.                                                               *)
(***************************************************************************)

\* A buffer without bytes is empty.
LEMMA NoBytes == \A b \in Seq(Bytes) : b = <<>> <=> Len(b) = 0
  BY EmptySeq

\* Bytes put behind a buffer are behind what was written before it too.
LEMMA Regroup == \A p, q, r \in Seq(Bytes) : (p \o q) \o r = p \o (q \o r)
  BY ConcatAssociative

\* A message is MessageSize bytes, and a partial write cuts it in two.
LEMMA MessageCut ==
    ASSUME NEW m \in 1..MaxSends, NEW n \in 0..MessageSize
    PROVE  /\ Message(m) \in Seq(Bytes)
           /\ Len(Message(m)) = MessageSize
           /\ SubSeq(Message(m), 1, n) \in Seq(Bytes)
           /\ SubSeq(Message(m), n + 1, MessageSize) \in Seq(Bytes)
           /\ SubSeq(Message(m), 1, n) \o SubSeq(Message(m), n + 1, MessageSize) = Message(m)
           /\ (SubSeq(Message(m), n + 1, MessageSize) = <<>>) <=> (n = MessageSize)
  <1> USE SizeAssumption
  <1>1. /\ Message(m) \in Seq(Bytes)
        /\ Len(Message(m)) = MessageSize
        /\ \A i \in 1..MessageSize : Message(m)[i] \in Bytes
    BY DEF Message, Bytes
  <1>2. /\ SubSeq(Message(m), 1, n) \in Seq(Bytes)
        /\ SubSeq(Message(m), n + 1, MessageSize) \in Seq(Bytes)
        /\ Len(SubSeq(Message(m), n + 1, MessageSize)) = MessageSize - n
    BY <1>1, SubSeqProperties
  <1>3. SubSeq(Message(m), 1, n) \o SubSeq(Message(m), n + 1, MessageSize) = Message(m)
    BY <1>1, ConcatAdjacentSubSeq, SubSeqFull
  <1>4. SubSeq(Message(m), n + 1, MessageSize) = <<>> <=> MessageSize - n = 0
    BY <1>2, NoBytes, Zenon
  <1> QED
    BY <1>1, <1>2, <1>3, <1>4

\* The same for a write of the first n bytes of a buffer.
LEMMA BufferCut ==
    ASSUME NEW b \in Seq(Bytes), NEW n \in 1..Len(b)
    PROVE  /\ SubSeq(b, 1, n) \in Seq(Bytes)
           /\ SubSeq(b, n + 1, Len(b)) \in Seq(Bytes)
           /\ SubSeq(b, 1, n) \o SubSeq(b, n + 1, Len(b)) = b
           /\ (SubSeq(b, n + 1, Len(b)) = <<>>) <=> (n = Len(b))
  <1>1. /\ SubSeq(b, 1, n) \in Seq(Bytes)
        /\ SubSeq(b, n + 1, Len(b)) \in Seq(Bytes)
        /\ Len(SubSeq(b, n + 1, Len(b))) = Len(b) - n
    BY SubSeqProperties, LenProperties, ElementOfSeq
  <1>2. SubSeq(b, 1, n) \o SubSeq(b, n + 1, Len(b)) = b
    BY ConcatAdjacentSubSeq, SubSeqFull, LenProperties
  <1>3. SubSeq(b, n + 1, Len(b)) = <<>> <=> Len(b) - n = 0
    BY <1>1, NoBytes, Zenon
  <1>4. Len(b) - n = 0 <=> n = Len(b)
    OBVIOUS
  <1> QED
    BY <1>1, <1>2, <1>3, <1>4, Zenon

(***************************************************************************)
(* Type correctness, in three parts: the flags, the output and the rest.   *)
(***************************************************************************)
FlagsOK ==
    /\ addedToLoop_ \in BOOLEAN /\ inEpoll \in BOOLEAN /\ finSent \in BOOLEAN
    /\ soError \in BOOLEAN /\ stray \in BOOLEAN /\ aborted \in BOOLEAN

OutputOK ==
    /\ outputBuffer_ \in Seq(Bytes) /\ wire \in Seq(Bytes) /\ accepted \in Seq(Bytes)
    /\ events_ \in SUBSET {"IN", "OUT"}

RestOK ==
    /\ state_ \in States
    /\ peer \in {"open", "fin", "reset"}
    /\ unread \in 0..MaxArrivals
    /\ pc \in {"poll", "event", "written", "functors", "dead"}
    /\ revents \in SUBSET {"IN", "OUT", "HUP", "ERR"}
    /\ functors \in Seq(Posts) /\ pending \in Seq(Posts)
    /\ caller \in [Threads -> CallerStates]
    /\ owner \in {"holds", "gone", "destroyed"}
    /\ removals \in Nat /\ ups \in Nat /\ downs \in Nat
    /\ sends \in 0..MaxSends

\* The three parts are TypeOK.
LEMMA TypeParts == FlagsOK /\ OutputOK /\ RestOK => TypeOK
  <1> SUFFICES ASSUME FlagsOK, OutputOK, RestOK PROVE TypeOK
    OBVIOUS
  <1>1. {addedToLoop_, inEpoll, finSent, soError, stray, aborted} \subseteq BOOLEAN
    BY Zenon DEF FlagsOK
  <1> QED
    BY <1>1 DEF TypeOK, OutputOK, RestOK

\* Every flag stays a Boolean.
LEMMA FlagsStep == FlagsOK /\ [Next]_vars => FlagsOK'
  <1> SUFFICES ASSUME FlagsOK, [Next]_vars PROVE FlagsOK'
    OBVIOUS
  <1> USE DEF FlagsOK, channelVars, kernelVars, loopVars, ownerVars, ghosts
  <1>u. \A ev : Update(ev) => addedToLoop_' \in BOOLEAN /\ inEpoll' \in BOOLEAN
    BY Zenon DEF Update
  <1>c. handleClose => /\ addedToLoop_' \in BOOLEAN /\ inEpoll' \in BOOLEAN
                       /\ aborted' \in BOOLEAN
    BY <1>u, Zenon DEF handleClose, AssertFails, StopListening, disableAll
  <1>s. \A m : sendInLoop(m) => addedToLoop_' \in BOOLEAN /\ inEpoll' \in BOOLEAN
    BY <1>u, Zenon DEF sendInLoop
  <1>1. CASE Poll
    BY <1>1, Zenon DEF Poll, PollReports
  <1>2. CASE HandleHup
    BY <1>2, <1>c, Zenon DEF HandleHup
  <1>3. CASE HandleError
    BY <1>3, Zenon DEF HandleError
  <1>4. CASE HandleRead
    BY <1>4, <1>c, Zenon DEF HandleRead
  <1>5. CASE HandleWrite
    BY <1>5, <1>u, Zenon DEF HandleWrite
  <1>6. CASE WriteCompleted
    BY <1>6, Zenon DEF WriteCompleted, shutdownInLoop
  <1>7. CASE SwapPending
    BY <1>7, Zenon DEF SwapPending
  <1>8. CASE ConnectEstablished
    BY <1>8, <1>u, Zenon DEF ConnectEstablished, AssertFails
  <1>9. CASE ConnectDestroyed
    BY <1>9, Zenon DEF ConnectDestroyed, AssertFails, RemoveChannel
  <1>10. CASE ForceCloseInLoop
    BY <1>10, <1>c, Zenon DEF ForceCloseInLoop
  <1>11. CASE SendInLoop
    BY <1>11, <1>s, Zenon DEF SendInLoop
  <1>12. CASE EndFunctors
    BY <1>12, Zenon DEF EndFunctors
  <1>13. CASE Send
    BY <1>13, <1>s, Zenon DEF Send
  <1>14. CASE Shutdown
    BY <1>14, Zenon DEF Shutdown, shutdownInLoop
  <1>15. CASE ForceClose
    BY <1>15, Zenon DEF ForceClose
  <1>16. ASSUME NEW t \in Threads, ThreadStep(t) PROVE FlagsOK'
    BY <1>16, Zenon DEF ThreadStep, CallsSend, PostsSend, CallsForceClose, SetsDisconnecting,
                        PostsForceClose
  <1>17. CASE RemoveConnection
    BY <1>17, Zenon DEF RemoveConnection, AssertFails
  <1>18. CASE DestroyServer
    BY <1>18, Zenon DEF DestroyServer
  <1>19. CASE Destruct
    BY <1>19, Zenon DEF Destruct
  <1>20. CASE PeerSends \/ PeerCloses \/ PeerResets
    BY <1>20, Zenon DEF PeerSends, PeerCloses, PeerResets
  <1>21. CASE UNCHANGED vars
    BY <1>21, Zenon DEF vars
  <1> QED
    BY <1>1, <1>2, <1>3, <1>4, <1>5, <1>6, <1>7, <1>8, <1>9, <1>10, <1>11, <1>12, <1>13,
       <1>14, <1>15, <1>16, <1>17, <1>18, <1>19, <1>20, <1>21, Zenon
       DEF Next, Handlers, Functors

\* The posts, the calls of other threads and everything else that is not output.
LEMMA RestStep == RestOK /\ [Next]_vars => RestOK'
  <1> SUFFICES ASSUME RestOK, [Next]_vars PROVE RestOK'
    OBVIOUS
  <1> USE SizeAssumption DEF RestOK, States, channelVars, kernelVars, loopVars, ownerVars, ghosts
  <1>p. /\ <<"connectDestroyed">> \in Posts /\ <<"forceClose">> \in Posts
        /\ Append(pending, <<"connectDestroyed">>) \in Seq(Posts)
        /\ Append(pending, <<"forceClose">>) \in Seq(Posts)
    BY AppendProperties DEF Posts
  <1>h. \A op : Runs(op) => functors' \in Seq(Posts)
    BY HeadTailProperties DEF Runs
  <1>c. handleClose => /\ state_' \in States /\ downs' \in Nat /\ removals' \in Nat
                       /\ pc' \in {pc, "dead"}
    BY DEF handleClose, AssertFails
  <1>1. CASE Poll
    BY <1>1 DEF Poll, PollReports, Reportable, Ready
  <1>2. CASE HandleHup
    BY <1>2, <1>c DEF HandleHup
  <1>3. CASE HandleError
    BY <1>3 DEF HandleError
  <1>4. CASE HandleRead
    BY <1>4, <1>c DEF HandleRead, Finishing
  <1>5. CASE HandleWrite
    BY <1>5 DEF HandleWrite
  <1>6. CASE WriteCompleted
    BY <1>6 DEF WriteCompleted
  <1>7. CASE SwapPending
    BY <1>7, EmptySeq DEF SwapPending
  <1>8. CASE ConnectEstablished
    BY <1>8, <1>h DEF ConnectEstablished, AssertFails
  <1>9. CASE ConnectDestroyed
    BY <1>9, <1>h DEF ConnectDestroyed, AssertFails
  <1>10. CASE ForceCloseInLoop
    BY <1>10, <1>h, <1>c DEF ForceCloseInLoop
  <1>11. CASE SendInLoop
    BY <1>11, <1>h DEF SendInLoop
  <1>12. CASE EndFunctors
    BY <1>12 DEF EndFunctors
  <1>13. CASE Send
    BY <1>13 DEF Send
  <1>14. CASE Shutdown
    BY <1>14 DEF Shutdown
  <1>15. CASE ForceClose
    BY <1>15, <1>p DEF ForceClose
  <1>16. ASSUME NEW t \in Threads, ThreadStep(t) PROVE RestOK'
    <2> USE DEF CallerStates, Idle
    <2>1. CASE CallsSend(t)
      BY <2>1 DEF CallsSend, CallerMoves
    <2>2. CASE PostsSend(t)
      <3>1. caller[t] \in Posts
        BY <2>2 DEF PostsSend, Posts
      <3>2. Append(pending, caller[t]) \in Seq(Posts)
        BY <3>1, AppendProperties
      <3> QED
        BY <2>2, <3>2 DEF PostsSend
    <2>3. CASE CallsForceClose(t)
      BY <2>3 DEF CallsForceClose, CallerMoves
    <2>4. CASE SetsDisconnecting(t)
      BY <2>4 DEF SetsDisconnecting, CallerMoves
    <2>5. CASE PostsForceClose(t)
      BY <2>5, <1>p DEF PostsForceClose, CallerMoves
    <2> QED
      BY <1>16, <2>1, <2>2, <2>3, <2>4, <2>5 DEF ThreadStep
  <1>17. CASE RemoveConnection
    <2>1. removals' \in Nat
      BY <1>17 DEF RemoveConnection
    <2>2. pending' \in Seq(Posts) /\ owner' \in {"holds", "gone", "destroyed"}
      BY <1>17, <1>p, Zenon DEF RemoveConnection
    <2>3. pc' \in {pc, "dead"}
      BY <1>17 DEF RemoveConnection, AssertFails
    <2> QED
      BY <1>17, <2>1, <2>2, <2>3 DEF RemoveConnection
  <1>18. CASE DestroyServer
    BY <1>18, <1>p DEF DestroyServer
  <1>19. CASE Destruct
    BY <1>19 DEF Destruct
  <1>20. CASE PeerSends
    BY <1>20 DEF PeerSends
  <1>21. CASE PeerCloses
    BY <1>21 DEF PeerCloses
  <1>22. CASE PeerResets
    BY <1>22 DEF PeerResets
  <1>23. CASE UNCHANGED vars
    BY <1>23 DEF vars
  <1> QED
    BY <1>1, <1>2, <1>3, <1>4, <1>5, <1>6, <1>7, <1>8, <1>9, <1>10, <1>11, <1>12, <1>13,
       <1>14, <1>15, <1>16, <1>17, <1>18, <1>19, <1>20, <1>21, <1>22, <1>23, Zenon
       DEF Next, Handlers, Functors

(***************************************************************************)
(* The output.  Bytes are lost only at the end, once the connection is     *)
(* broken and nothing is buffered: from then on every message is dropped.  *)
(***************************************************************************)
NoGap ==
    \E lost \in Seq(Bytes) :
        /\ accepted = (wire \o outputBuffer_) \o lost
        /\ lost # <<>> => Broken /\ FastPath

\* The channel waits for EPOLLOUT exactly while output is buffered, until the close.
WritingMatches == downs = 0 => (isWriting <=> outputBuffer_ # <<>>)

OutInv == OutputOK /\ NoGap /\ WritingMatches /\ FinAfterOutput

\* sendInLoop() by its three cases: the connection is closed or broken, the message is
\* partly written, or it is put behind the buffer.
LEMMA SendCases ==
    ASSUME NEW m \in 1..MaxSends, OutputOK, sendInLoop(m)
    PROVE  \/ UNCHANGED <<outputBuffer_, events_, wire, accepted>>
           \/ /\ FastPath /\ Broken /\ accepted' = accepted \o Message(m)
              /\ UNCHANGED <<outputBuffer_, events_, wire>>
           \/ /\ ~(FastPath /\ Broken)
              /\ \E a, b \in Seq(Bytes) :
                     /\ a \o b = Message(m)
                     /\ a # <<>> => FastPath
                     /\ accepted' = accepted \o Message(m)
                     /\ wire' = wire \o a
                     /\ outputBuffer_' = outputBuffer_ \o b
                     /\ b # <<>> => "OUT" \in events_'
                     /\ b = <<>> => FastPath /\ events_' = events_
                     /\ events_' \in {events_, events_ \cup {"OUT"}}
  <1>1. CASE state_ = "kDisconnected"
    BY <1>1 DEF sendInLoop, channelVars
  <1>2. CASE state_ # "kDisconnected" /\ FastPath /\ Broken
    BY <1>2, Zenon DEF sendInLoop, channelVars
  <1>3. CASE state_ # "kDisconnected" /\ ~(FastPath /\ Broken)
    <2>1. PICK n \in 0..(IF FastPath THEN MessageSize ELSE 0) :
              /\ wire' = wire \o SubSeq(Message(m), 1, n)
              /\ outputBuffer_' = outputBuffer_ \o SubSeq(Message(m), n + 1, MessageSize)
              /\ IF n < MessageSize /\ ~isWriting
                 THEN Update(events_ \cup {"OUT"})
                 ELSE UNCHANGED channelVars
      BY <1>3, Zenon DEF sendInLoop
    <2> DEFINE a == SubSeq(Message(m), 1, n)
               b == SubSeq(Message(m), n + 1, MessageSize)
    <2>2. n \in 0..MessageSize /\ (n # 0 => FastPath)
      BY <2>1, SizeAssumption
    <2>3. /\ a \in Seq(Bytes) /\ b \in Seq(Bytes) /\ a \o b = Message(m)
          /\ b = <<>> <=> n = MessageSize
      BY <2>2, MessageCut, Zenon
    <2>4. a # <<>> => FastPath
      <3>1. n = 0 => a = <<>>
        BY SubSeqEmpty
      <3> QED
        BY <3>1, <2>2
    <2> HIDE DEF a, b
    <2>5. b = <<>> => FastPath /\ events_' = events_
      <3>1. b = <<>> => n # 0 /\ ~(n < MessageSize)
        BY <2>2, <2>3, SizeAssumption
      <3>2. ~(n < MessageSize) => events_' = events_
        BY <2>1, Zenon DEF channelVars
      <3> QED
        BY <2>2, <3>1, <3>2, Zenon
    <2>6. b # <<>> => "OUT" \in events_'
      BY <2>1, <2>2, <2>3, SizeAssumption DEF channelVars, isWriting, Update
    <2>7. events_' \in {events_, events_ \cup {"OUT"}}
      BY <2>1 DEF channelVars, Update
    <2>8. accepted' = accepted \o Message(m)
      BY <1>3 DEF sendInLoop
    <2> QED
      BY <1>3, <2>1, <2>3, <2>4, <2>5, <2>6, <2>7, <2>8, Zenon DEF a, b
  <1> QED
    BY <1>1, <1>2, <1>3, Zenon

\* sendInLoop() keeps the output in order, and buffers nothing behind a FIN.
LEMMA SendStep ==
    ASSUME NEW m \in 1..MaxSends, OutInv, sendInLoop(m), UNCHANGED <<finSent, peer, downs>>
    PROVE  OutInv'
  <1>0. PICK lost \in Seq(Bytes) : /\ accepted = (wire \o outputBuffer_) \o lost
                                   /\ lost # <<>> => Broken /\ FastPath
    BY DEF OutInv, NoGap
  <1>b. Broken' <=> Broken
    BY Zenon DEF Broken
  <1>e. \A q \in Seq(Bytes) : q \o <<>> = q /\ <<>> \o q = q
    BY ConcatEmptySeq
  <1>m. Message(m) \in Seq(Bytes) /\ Message(m) # <<>>
    BY MessageCut, NoBytes, SizeAssumption
  <1>1. CASE UNCHANGED <<outputBuffer_, events_, wire, accepted>>
    BY <1>1, <1>b, Zenon DEF OutInv, OutputOK, NoGap, WritingMatches, FinAfterOutput, FastPath, isWriting
  <1>2. CASE /\ FastPath /\ Broken /\ accepted' = accepted \o Message(m)
             /\ UNCHANGED <<outputBuffer_, events_, wire>>
    <2>1. /\ lost \o Message(m) \in Seq(Bytes)
          /\ accepted' = (wire \o outputBuffer_) \o (lost \o Message(m))
          /\ accepted' \in Seq(Bytes)
      BY <1>0, <1>2, <1>m, ConcatProperties, ConcatAssociative DEF OutInv, OutputOK
    <2>2. FastPath' <=> FastPath
      BY <1>2, Zenon DEF FastPath, isWriting
    <2>3. NoGap'
      BY <1>2, <1>b, <2>1, <2>2, Zenon DEF NoGap
    <2> QED
      BY <1>2, <2>1, <2>3, Zenon DEF OutInv, OutputOK, WritingMatches, FinAfterOutput, isWriting
  <1>3. CASE /\ ~(FastPath /\ Broken)
             /\ \E a, b \in Seq(Bytes) :
                    /\ a \o b = Message(m)
                    /\ a # <<>> => FastPath
                    /\ accepted' = accepted \o Message(m)
                    /\ wire' = wire \o a
                    /\ outputBuffer_' = outputBuffer_ \o b
                    /\ b # <<>> => "OUT" \in events_'
                    /\ b = <<>> => FastPath /\ events_' = events_
                    /\ events_' \in {events_, events_ \cup {"OUT"}}
    <2>1. PICK a \in Seq(Bytes), b \in Seq(Bytes) :
              /\ a \o b = Message(m)
              /\ a # <<>> => FastPath
              /\ accepted' = accepted \o Message(m)
              /\ wire' = wire \o a
              /\ outputBuffer_' = outputBuffer_ \o b
              /\ b # <<>> => "OUT" \in events_'
              /\ b = <<>> => FastPath /\ events_' = events_
              /\ events_' \in {events_, events_ \cup {"OUT"}}
      BY <1>3, Zenon
    <2>2. OutputOK'
      BY <1>m, <2>1, ConcatProperties, Zenon DEF OutInv, OutputOK
    <2>3. lost = <<>>
      BY <1>0, <1>3, Zenon
    <2>4. accepted = wire \o outputBuffer_
      BY <1>0, <2>3, ConcatEmptySeq, ConcatProperties DEF OutInv, OutputOK
    <2>5. /\ (wire \o outputBuffer_) \o b = wire \o (outputBuffer_ \o b)
          /\ (wire \o a) \o b = wire \o (a \o b)
      <3>1. wire \in Seq(Bytes) /\ outputBuffer_ \in Seq(Bytes)
        BY DEF OutInv, OutputOK
      <3>2. a \in Seq(Bytes) /\ b \in Seq(Bytes)
        OBVIOUS
      <3>3. (wire \o outputBuffer_) \o b = wire \o (outputBuffer_ \o b)
        BY <3>1, <3>2, Regroup, Zenon
      <3>4. (wire \o a) \o b = wire \o (a \o b)
        BY <3>1, <3>2, Regroup, Zenon
      <3> QED
        BY <3>3, <3>4, Zenon
    <2>6. accepted' = wire' \o outputBuffer_'
      <3> USE <1>m, <2>1, <2>4 DEF OutInv, OutputOK
      <3>1. CASE a = <<>>
        <4>1. b = Message(m) /\ wire' = wire
          BY <1>e, <3>1, Zenon
        <4> QED
          BY <2>5, <4>1, Zenon
      <3>2. CASE a # <<>>
        <4>1. outputBuffer_ = <<>>
          BY <3>2 DEF FastPath
        <4>2. accepted = wire /\ outputBuffer_' = b
          BY <1>e, <4>1, Zenon
        <4> QED
          BY <2>5, <4>2, Zenon
      <3> QED
        BY <3>1, <3>2, Zenon
    <2>7. NoGap'
      <3>1. <<>> \in Seq(Bytes) /\ accepted' = (wire' \o outputBuffer_') \o <<>>
        BY <2>2, <2>6, ConcatProperties, ConcatEmptySeq DEF OutputOK
      <3> QED
        BY <3>1, Zenon DEF NoGap
    <2>8. WritingMatches'
      <3>1. CASE b = <<>>
        <4>1. outputBuffer_' = outputBuffer_ /\ events_' = events_
          BY <2>1, <3>1, ConcatEmptySeq DEF OutInv, OutputOK
        <4> QED
          BY <4>1, Zenon DEF OutInv, WritingMatches, isWriting
      <3>2. CASE b # <<>>
        <4>1. outputBuffer_' # <<>>
          BY <2>1, <3>2, ConcatEqualIffEmpty DEF OutInv, OutputOK
        <4> QED
          BY <2>1, <3>2, <4>1, Zenon DEF WritingMatches, isWriting
      <3> QED
        BY <3>1, <3>2
    <2>9. FinAfterOutput'
      <3>1. ~(finSent /\ downs = 0)
        BY <1>3, Zenon DEF OutInv, FinAfterOutput, WritingMatches, FastPath, Broken
      <3> QED
        BY <3>1, Zenon DEF FinAfterOutput
    <2> QED
      BY <2>2, <2>7, <2>8, <2>9 DEF OutInv
  <1> QED
    BY <1>1, <1>2, <1>3, SendCases, Zenon DEF OutInv

outVars == <<outputBuffer_, wire, accepted, events_, finSent, peer, downs>>

\* handleClose() leaves the output alone and stops listening.
LEMMA CloseStep ==
    ASSUME OutInv, RestOK, handleClose, UNCHANGED <<outputBuffer_, wire, accepted, finSent, peer>>
    PROVE  OutInv'
  <1>b. Broken' <=> Broken
    BY Zenon DEF Broken
  <1>1. CASE state_ \in {"kConnected", "kDisconnecting"}
    <2>1. events_' = {} /\ downs' # 0
      BY <1>1 DEF handleClose, StopListening, disableAll, Update, RestOK
    <2>2. ~isWriting'
      BY <2>1 DEF isWriting
    <2>3. FastPath => FastPath'
      BY <2>2, Zenon DEF FastPath
    <2>4. NoGap'
      BY <1>b, <2>3, Zenon DEF OutInv, NoGap
    <2>5. OutputOK'
      BY <2>1 DEF OutInv, OutputOK
    <2> QED
      BY <2>1, <2>4, <2>5, Zenon DEF OutInv, WritingMatches, FinAfterOutput
  <1>2. CASE state_ \notin {"kConnected", "kDisconnecting"}
    <2>1. UNCHANGED <<events_, downs>>
      BY <1>2 DEF handleClose, channelVars
    <2> QED
      BY <1>b, <2>1, Zenon
         DEF OutInv, OutputOK, NoGap, WritingMatches, FinAfterOutput, FastPath, isWriting
  <1> QED
    BY <1>1, <1>2

\* A FIN is sent only when the channel does not wait for EPOLLOUT.
LEMMA FinStep ==
    ASSUME OutInv, shutdownInLoop, UNCHANGED <<outputBuffer_, wire, accepted, events_, peer, downs>>
    PROVE  OutInv'
  <1>1. finSent => finSent'
    BY Zenon DEF shutdownInLoop
  <1>2. finSent' => finSent \/ ~isWriting
    BY Zenon DEF shutdownInLoop, Drained
  <1>3. Broken => Broken'
    BY <1>1, Zenon DEF Broken
  <1>4. FastPath' <=> FastPath
    BY Zenon DEF FastPath, isWriting
  <1>5. NoGap'
    BY <1>3, <1>4, Zenon DEF OutInv, NoGap
  <1>6. FinAfterOutput'
    BY <1>2, Zenon DEF OutInv, WritingMatches, FinAfterOutput
  <1> QED
    BY <1>5, <1>6, Zenon DEF OutInv, OutputOK, WritingMatches, isWriting

\* handleWrite() moves bytes from the front of the buffer to the socket.
LEMMA WriteStep ==
    ASSUME OutInv, HandleWrite
    PROVE  OutInv'
  <1>0. UNCHANGED <<accepted, finSent, peer, downs>>
    BY DEF HandleWrite, kernelVars, ghosts
  <1>b. Broken' <=> Broken
    BY <1>0, Zenon DEF Broken
  <1>1. CASE ~(isWriting /\ ~Broken)
    <2>1. UNCHANGED <<wire, outputBuffer_, events_>>
      BY <1>1, Zenon DEF HandleWrite, channelVars
    <2> QED
      BY <1>0, <1>b, <2>1, Zenon
         DEF OutInv, OutputOK, NoGap, WritingMatches, FinAfterOutput, FastPath, isWriting
  <1>2. CASE isWriting /\ ~Broken
    <2>1. PICK n \in 1..Len(outputBuffer_) :
              /\ wire' = wire \o SubSeq(outputBuffer_, 1, n)
              /\ outputBuffer_' = SubSeq(outputBuffer_, n + 1, Len(outputBuffer_))
              /\ IF n = Len(outputBuffer_)
                 THEN Update(events_ \ {"OUT"}) /\ pc' = "written"
                 ELSE UNCHANGED <<channelVars, pc>>
      BY <1>2, Zenon DEF HandleWrite
    <2> DEFINE a == SubSeq(outputBuffer_, 1, n)
               b == SubSeq(outputBuffer_, n + 1, Len(outputBuffer_))
    <2>2. /\ a \in Seq(Bytes) /\ b \in Seq(Bytes) /\ a \o b = outputBuffer_
          /\ b = <<>> <=> n = Len(outputBuffer_)
      BY BufferCut DEF OutInv, OutputOK
    <2>3. wire' = wire \o a /\ outputBuffer_' = b
      BY <2>1
    <2> HIDE DEF a, b
    <2>4. (wire \o a) \o b = wire \o (a \o b)
      BY <2>2, Regroup, Zenon DEF OutInv, OutputOK
    <2>5. wire' \o outputBuffer_' = wire \o outputBuffer_
      BY <2>2, <2>3, <2>4, Zenon
    <2>6. NoGap'
      BY <1>0, <1>2, <2>5, Zenon DEF OutInv, NoGap
    <2>7. events_' = IF outputBuffer_' = <<>> THEN events_ \ {"OUT"} ELSE events_
      BY <2>1, <2>2, <2>3, Zenon DEF Update, channelVars
    <2>8. isWriting' <=> outputBuffer_' # <<>>
      BY <1>2, <2>7 DEF isWriting
    <2>9. OutputOK'
      BY <1>0, <2>2, <2>3, <2>7, ConcatProperties DEF OutInv, OutputOK
    <2> QED
      BY <1>0, <1>2, <2>6, <2>8, <2>9, Zenon DEF OutInv, WritingMatches, FinAfterOutput, Broken
  <1> QED
    BY <1>1, <1>2

\* No step of the loop, of a thread, of the server or of the peer disturbs the output.
LEMMA OutStep == OutInv /\ RestOK /\ [Next]_vars => OutInv'
  <1> SUFFICES ASSUME OutInv, RestOK, [Next]_vars PROVE OutInv'
    OBVIOUS
  <1> USE DEF channelVars, kernelVars, loopVars, ownerVars, ghosts
  <1>s. UNCHANGED outVars => OutInv'
    <2> SUFFICES ASSUME UNCHANGED outVars PROVE OutInv'
      OBVIOUS
    <2>1. (Broken' <=> Broken) /\ (FastPath' <=> FastPath) /\ (isWriting' <=> isWriting)
      BY Zenon DEF outVars, Broken, FastPath, isWriting
    <2> QED
      BY <2>1, Zenon DEF outVars, OutInv, OutputOK, NoGap, WritingMatches, FinAfterOutput
  <1>1. CASE Poll
    BY <1>1, <1>s, Zenon DEF Poll, PollReports, outVars
  <1>2. CASE HandleHup
    BY <1>2, <1>s, CloseStep, Zenon DEF HandleHup, outVars
  <1>3. CASE HandleError
    BY <1>3, <1>s, Zenon DEF HandleError, outVars
  <1>4. CASE HandleRead
    BY <1>4, <1>s, CloseStep, Zenon DEF HandleRead, outVars
  <1>5. CASE HandleWrite
    BY <1>5, WriteStep
  <1>6. CASE WriteCompleted
    BY <1>6, <1>s, FinStep, Zenon DEF WriteCompleted, outVars
  <1>7. CASE SwapPending
    BY <1>7, <1>s, Zenon DEF SwapPending, outVars
  <1>8. CASE ConnectEstablished
    <2>1. CASE state_ = "kConnecting"
      <3>1. events_' = events_ \cup {"IN"}
        BY <1>8, <2>1 DEF ConnectEstablished, Update
      <3>2. OutputOK' /\ (isWriting' <=> isWriting)
        BY <1>8, <3>1 DEF ConnectEstablished, OutInv, OutputOK, isWriting
      <3> QED
        BY <1>8, <3>2, Zenon DEF ConnectEstablished, OutInv, NoGap, WritingMatches,
                                 FinAfterOutput, FastPath, Broken
    <2>2. CASE state_ # "kConnecting"
      BY <1>8, <2>2, <1>s, Zenon DEF ConnectEstablished, outVars
    <2> QED
      BY <2>1, <2>2
  <1>9. CASE ConnectDestroyed
    <2>1. CASE state_ = "kConnected"
      <3>1. events_' = {} /\ downs' # 0
        BY <1>9, <2>1 DEF ConnectDestroyed, RestOK
      <3>2. OutputOK' /\ ~isWriting'
        BY <1>9, <3>1 DEF ConnectDestroyed, OutInv, OutputOK, isWriting
      <3> QED
        BY <1>9, <3>1, <3>2, Zenon DEF ConnectDestroyed, OutInv, NoGap, WritingMatches,
                                       FinAfterOutput, FastPath, Broken
    <2>2. CASE state_ # "kConnected"
      BY <1>9, <2>2, <1>s, Zenon DEF ConnectDestroyed, outVars
    <2> QED
      BY <2>1, <2>2
  <1>10. CASE ForceCloseInLoop
    BY <1>10, <1>s, CloseStep, Zenon DEF ForceCloseInLoop, outVars
  <1>11. CASE SendInLoop
    <2>1. Head(functors) \in Posts /\ Head(functors)[1] = "send"
      BY <1>11, HeadTailProperties DEF SendInLoop, Runs, RestOK
    <2>2. Head(functors)[2] \in 1..MaxSends
      BY <2>1 DEF Posts
    <2> QED
      BY <1>11, <2>2, SendStep, Zenon DEF SendInLoop
  <1>12. CASE EndFunctors
    BY <1>12, <1>s, Zenon DEF EndFunctors, outVars
  <1>13. CASE Send
    <2>1. sends + 1 \in 1..MaxSends
      BY <1>13, SizeAssumption DEF Send, RestOK
    <2> QED
      BY <1>13, <2>1, SendStep, Zenon DEF Send
  <1>14. CASE Shutdown
    BY <1>14, FinStep, Zenon DEF Shutdown
  <1>15. CASE ForceClose
    BY <1>15, <1>s, Zenon DEF ForceClose, outVars
  <1>16. ASSUME NEW t \in Threads, ThreadStep(t) PROVE OutInv'
    BY <1>16, <1>s, Zenon DEF ThreadStep, CallsSend, PostsSend, CallsForceClose,
                              SetsDisconnecting, PostsForceClose, outVars
  <1>17. CASE RemoveConnection
    BY <1>17, <1>s, Zenon DEF RemoveConnection, outVars
  <1>18. CASE DestroyServer \/ Destruct \/ PeerSends
    BY <1>18, <1>s, Zenon DEF DestroyServer, Destruct, PeerSends, outVars
  <1>19. CASE PeerCloses
    <2>1. Broken' <=> Broken
      BY <1>19, Zenon DEF PeerCloses, Broken
    <2> QED
      BY <1>19, <2>1, Zenon DEF PeerCloses, OutInv, OutputOK, NoGap, WritingMatches,
                                FinAfterOutput, FastPath, isWriting
  <1>20. CASE PeerResets
    <2>1. Broken'
      BY <1>20, Zenon DEF PeerResets, Broken
    <2> QED
      BY <1>20, <2>1, Zenon DEF PeerResets, OutInv, OutputOK, NoGap, WritingMatches,
                                FinAfterOutput, FastPath, isWriting
  <1>21. CASE UNCHANGED vars
    BY <1>21, <1>s, Zenon DEF vars, outVars
  <1> QED
    BY <1>1, <1>2, <1>3, <1>4, <1>5, <1>6, <1>7, <1>8, <1>9, <1>10, <1>11, <1>12, <1>13,
       <1>14, <1>15, <1>16, <1>17, <1>18, <1>19, <1>20, <1>21, Zenon
       DEF Next, Handlers, Functors

(***************************************************************************)
(* Messages.  The channel asks for EPOLLIN only while the connection is    *)
(* up, and no close leaves a reported EPOLLIN to be handled after it.      *)
(***************************************************************************)
Up == ups > 0 /\ downs = 0

UpInv ==
    /\ MessagesWhileUp
    /\ "IN" \in events_ => Up
    /\ "IN" \in revents => Up
    /\ pc = "functors" => revents = {}
    /\ state_ = "kConnecting" => downs = 0

upVars == <<stray, events_, revents, pc, state_, ups, downs>>

\* handleClose(), with no EPOLLIN left to handle.
LEMMA CloseWhileUp ==
    ASSUME UpInv, RestOK, handleClose, "IN" \notin revents', UNCHANGED <<stray, ups>>,
           pc = "functors" => revents' = {}, pc \in {"event", "functors"}
    PROVE  UpInv'
  <1>1. ("IN" \in events_' => Up') /\ (state_' = "kConnecting" => downs' = 0)
    BY DEF UpInv, Up, handleClose, StopListening, disableAll, Update, channelVars, AssertFails
  <1>2. pc' = "functors" => revents' = {}
    BY DEF handleClose, AssertFails
  <1> QED
    BY <1>1, <1>2, Zenon DEF UpInv, MessagesWhileUp

\* Every step keeps EPOLLIN within the life of the connection.
LEMMA UpStep == UpInv /\ OutputOK /\ RestOK /\ [Next]_vars => UpInv'
  <1> SUFFICES ASSUME UpInv, OutputOK, RestOK, [Next]_vars PROVE UpInv'
    OBVIOUS
  <1> USE DEF channelVars, kernelVars, loopVars, ownerVars, ghosts
  <1>s. ASSUME stray' => stray, UNCHANGED <<ups, downs>>, "IN" \in events_' => "IN" \in events_,
               "IN" \in revents' => "IN" \in revents \/ "IN" \in events_,
               pc' = "functors" => revents' = {}, state_' = "kConnecting" => state_ = "kConnecting"
        PROVE  UpInv'
    BY <1>s, Zenon DEF UpInv, Up, MessagesWhileUp
  <1>u. ASSUME UNCHANGED upVars PROVE UpInv'
    BY <1>u, Zenon DEF upVars, UpInv, Up, MessagesWhileUp
  <1>m. \A m \in 1..MaxSends : sendInLoop(m) => ("IN" \in events_' => "IN" \in events_)
    BY SendCases
  <1>1. CASE Poll
    <2>1. "IN" \in revents' => "IN" \in events_
      BY <1>1 DEF Poll, PollReports, Reportable
    <2>2. pc' # "functors"
      BY <1>1 DEF Poll, PollReports
    <2>3. UNCHANGED <<stray, ups, downs, events_, state_>>
      BY <1>1, Zenon DEF Poll, PollReports
    <2> QED
      BY <1>s, <2>1, <2>2, <2>3, Zenon
  <1>2. CASE HandleHup
    <2>1. revents' = revents \ {"HUP"} /\ pc = "event" /\ UNCHANGED <<stray, ups>>
      BY <1>2 DEF HandleHup
    <2>2. CASE "IN" \in revents
      BY <1>2, <1>s, <2>1, <2>2 DEF HandleHup
    <2>3. CASE "IN" \notin revents
      <3>1. handleClose /\ "IN" \notin revents'
        BY <1>2, <2>1, <2>3 DEF HandleHup
      <3> QED
        BY <2>1, <3>1, CloseWhileUp
    <2> QED
      BY <2>2, <2>3
  <1>3. CASE HandleError
    BY <1>3, <1>s DEF HandleError
  <1>4. CASE HandleRead
    <2>1. /\ pc = "event" /\ "IN" \in revents /\ revents' = revents \ {"IN"} /\ UNCHANGED ups
      BY <1>4 DEF HandleRead
    <2>2. Up /\ "IN" \notin revents'
      BY <2>1 DEF UpInv
    <2>3. stray' = (stray \/ ups = 0 \/ downs > 0) => (stray' => stray)
      <3>1. ~(ups = 0 \/ downs > 0)
        BY <2>2 DEF Up, RestOK
      <3> QED
        BY <3>1, Zenon
    <2>4. CASE handleClose /\ UNCHANGED stray
      BY <2>1, <2>2, <2>4, CloseWhileUp
    <2>5. CASE UNCHANGED <<stray, channelVars, downs, pc>> /\ state_' = "kDisconnecting"
      BY <2>1, <2>2, <2>5, <1>s, Zenon
    <2>6. CASE UNCHANGED <<stray, channelVars, downs, pc, state_>>
      BY <2>1, <2>2, <2>6, <1>s, Zenon
    <2>7. CASE (stray' => stray) /\ UNCHANGED <<channelVars, downs, pc, state_>>
      BY <2>1, <2>2, <2>7, <1>s, Zenon
    <2> QED
      BY <1>4, <2>3, <2>4, <2>5, <2>6, <2>7, Zenon DEF HandleRead, Finishing
  <1>5. CASE HandleWrite
    <2>1. "IN" \in events_' => "IN" \in events_
      BY <1>5 DEF HandleWrite, Update
    <2>2. pc' # "functors" /\ revents' = {}
      BY <1>5 DEF HandleWrite
    <2> QED
      BY <1>5, <1>s, <2>1, <2>2, Zenon DEF HandleWrite
  <1>6. CASE WriteCompleted
    BY <1>6, <1>s, Zenon DEF WriteCompleted
  <1>7. CASE SwapPending
    BY <1>7, <1>s, Zenon DEF SwapPending
  <1>8. CASE ConnectEstablished
    <2>1. CASE state_ = "kConnecting"
      <3>1. state_' = "kConnected" /\ ups' > 0 /\ downs' = 0
        BY <1>8, <2>1 DEF ConnectEstablished, UpInv, RestOK
      <3> QED
        BY <1>8, <2>1, <3>1, Zenon DEF ConnectEstablished, UpInv, Up, MessagesWhileUp
    <2>2. CASE state_ # "kConnecting"
      BY <1>8, <1>s, <2>2, Zenon DEF ConnectEstablished, AssertFails
    <2> QED
      BY <2>1, <2>2
  <1>9. CASE ConnectDestroyed
    <2>1. pc = "functors" /\ revents' = {}
      BY <1>9 DEF ConnectDestroyed, Runs, UpInv
    <2>2. CASE state_ = "kConnected"
      BY <1>9, <2>1, <2>2, Zenon DEF ConnectDestroyed, UpInv, Up, MessagesWhileUp
    <2>3. CASE state_ # "kConnected"
      BY <1>9, <1>s, <2>1, <2>3, Zenon DEF ConnectDestroyed
    <2> QED
      BY <2>2, <2>3
  <1>10. CASE ForceCloseInLoop
    <2>1. pc = "functors" /\ revents' = {}
      BY <1>10 DEF ForceCloseInLoop, Runs, UpInv
    <2>2. CASE ForceClosable
      BY <1>10, <2>1, <2>2, CloseWhileUp, Zenon DEF ForceCloseInLoop
    <2>3. CASE ~ForceClosable
      BY <1>10, <1>s, <2>1, <2>3, Zenon DEF ForceCloseInLoop
    <2> QED
      BY <2>2, <2>3
  <1>11. CASE SendInLoop
    <2>1. Head(functors) \in Posts /\ Head(functors)[1] = "send"
      BY <1>11, HeadTailProperties DEF SendInLoop, Runs, RestOK
    <2>2. Head(functors)[2] \in 1..MaxSends
      BY <2>1 DEF Posts
    <2> QED
      BY <1>11, <1>m, <1>s, <2>2, Zenon DEF SendInLoop, UpInv
  <1>12. CASE EndFunctors
    BY <1>12, <1>s, Zenon DEF EndFunctors
  <1>13. CASE Send
    <2>1. sends + 1 \in 1..MaxSends
      BY <1>13, SizeAssumption DEF Send, RestOK
    <2> QED
      BY <1>13, <1>m, <1>s, <2>1, Zenon DEF Send, UpInv
  <1>14. CASE Shutdown
    BY <1>14, <1>s, Zenon DEF Shutdown, UpInv
  <1>15. CASE ForceClose
    BY <1>15, <1>s, Zenon DEF ForceClose, UpInv
  <1>16. ASSUME NEW t \in Threads, ThreadStep(t) PROVE UpInv'
    <2>1. CASE CallsSend(t) \/ PostsSend(t)
      BY <2>1, <1>u, Zenon DEF CallsSend, PostsSend, upVars
    <2>2. CASE CallsForceClose(t) \/ PostsForceClose(t)
      BY <2>2, <1>u, Zenon DEF CallsForceClose, PostsForceClose, upVars
    <2>3. CASE SetsDisconnecting(t)
      BY <2>3, <1>s, Zenon DEF SetsDisconnecting, UpInv
    <2> QED
      BY <1>16, <2>1, <2>2, <2>3, Zenon DEF ThreadStep
  <1>17. CASE RemoveConnection
    BY <1>17, <1>s, Zenon DEF RemoveConnection, AssertFails, UpInv
  <1>18. CASE DestroyServer \/ PeerSends \/ PeerCloses \/ PeerResets
    BY <1>18, <1>u, Zenon DEF DestroyServer, PeerSends, PeerCloses, PeerResets, upVars
  <1>20. CASE Destruct
    BY <1>20, <1>s, Zenon DEF Destruct, UpInv
  <1>19. CASE UNCHANGED vars
    BY <1>19, <1>s, Zenon DEF vars, UpInv
  <1> QED
    BY <1>1, <1>2, <1>3, <1>4, <1>5, <1>6, <1>7, <1>8, <1>9, <1>10, <1>11, <1>12, <1>13,
       <1>14, <1>15, <1>16, <1>17, <1>18, <1>19, <1>20, Zenon
       DEF Next, Handlers, Functors

(***************************************************************************)
(* The theorems.                                                           *)
(***************************************************************************)
Inv == FlagsOK /\ RestOK /\ OutInv /\ UpInv

\* The invariant holds when newConnection() has made the connection.
LEMMA InvInit == Init => Inv
  <1> SUFFICES ASSUME Init PROVE Inv
    OBVIOUS
  <1>1. FlagsOK
    BY Zenon DEF Init, FlagsOK
  <1>2. RestOK
    BY SizeAssumption DEF Init, RestOK, States, Posts, CallerStates
  <1>3. OutputOK
    BY DEF Init, OutputOK
  <1>4. NoGap
    <2>1. <<>> \in Seq(Bytes) /\ (<<>> \o <<>>) \o <<>> = <<>>
      BY ConcatEmptySeq
    <2> QED
      BY <2>1, Zenon DEF Init, NoGap
  <1>5. WritingMatches /\ FinAfterOutput
    BY DEF Init, WritingMatches, FinAfterOutput, isWriting
  <1>6. UpInv
    BY DEF Init, UpInv, MessagesWhileUp
  <1> QED
    BY <1>1, <1>2, <1>3, <1>4, <1>5, <1>6 DEF Inv, OutInv

\* Every step keeps it.
LEMMA InvStep == Inv /\ [Next]_vars => Inv'
  BY FlagsStep, RestStep, OutStep, UpStep, Zenon DEF Inv, OutInv

\* It holds for ever, whatever the threads, the server and the peer do.
LEMMA InvHolds == Spec => []Inv
  BY InvInit, InvStep, PTL DEF Spec

\* What reached the kernel and what is buffered is what sendInLoop() accepted, in order; only
\* a broken connection lost bytes, at the end; the channel waits for EPOLLOUT exactly
\* while something is buffered.
THEOREM OutputStaysInOrder == Spec => []OutputInOrder
  <1>1. Inv => OutputInOrder
    <2> SUFFICES ASSUME Inv PROVE OutputInOrder
      OBVIOUS
    <2>1. TypeOK
      BY TypeParts DEF Inv, OutInv
    <2>2. PICK lost \in Seq(Bytes) : /\ accepted = (wire \o outputBuffer_) \o lost
                                     /\ lost # <<>> => Broken /\ FastPath
      BY DEF Inv, OutInv, NoGap
    <2> DEFINE out == wire \o outputBuffer_
    <2>3. out \in Seq(Bytes)
      BY ConcatProperties DEF Inv, OutInv, OutputOK
    <2> HIDE DEF out
    <2>4. IsPrefix(out, accepted)
      BY <2>2, <2>3, ConcatProperties DEF IsPrefix, out
    <2>5. ~Broken => out = accepted
      <3>1. ~Broken => lost = <<>>
        BY <2>2, Zenon
      <3>2. out \o <<>> = out
        BY <2>3, ConcatEmptySeq
      <3> QED
        BY <2>2, <3>1, <3>2, Zenon DEF out
    <2>6. (ups > 0 /\ downs = 0 /\ pc # "dead") => (isWriting <=> outputBuffer_ # <<>>)
      BY DEF Inv, OutInv, WritingMatches
    <2> QED
      BY <2>1, <2>4, <2>5, <2>6, Zenon DEF OutputInOrder, out
  <1> QED
    BY <1>1, InvHolds, PTL

\* Until the connection is closed, shutdown() and every other path to the FIN sends it
\* behind all output, whoever sends meanwhile.
THEOREM FinFollowsOutput == Spec => []FinAfterOutput
  <1>1. Inv => FinAfterOutput
    BY DEF Inv, OutInv
  <1> QED
    BY <1>1, InvHolds, PTL

\* The message callback runs only between the callbacks for up and down.
THEOREM MessagesOnlyWhileUp == Spec => []MessagesWhileUp
  <1>1. Inv => MessagesWhileUp
    BY DEF Inv, UpInv
  <1> QED
    BY <1>1, InvHolds, PTL
==============================================================================
