---------------------------- MODULE TunnelProofs ----------------------------
(***************************************************************************)
(* Theorems about Tunnel for any number of frames.  The argument for the   *)
(* order of frames: a copier numbers the frames it reads without a gap,    *)
(* holds at most one, and writes it before it reads the next; it passes a  *)
(* frame over only when the peer it writes to is gone, and a peer that is  *)
(* gone receives nothing more.                                             *)
(***************************************************************************)
EXTENDS Tunnel, TLAPS

\* How many frames the copier c has delivered: what it has read but for the
\* frame it holds.
CopyInv ==
    \A c \in Copiers :
        /\ copier[c] = "off" => next[c] = 1 /\ got[Peer(c)] = <<>>
        /\ copier[c] = "write" => held[c] = next[c] - 1 /\ next[c] > 1
        /\ copier[c] = "read" /\ Peer(c) \in open \ gone
             => next[c] = Len(got[Peer(c)]) + 1
        /\ copier[c] = "write" /\ Peer(c) \in open \ gone
             => next[c] = Len(got[Peer(c)]) + 2

\* Copiers run from the handover until both have ended.
StageInv ==
    /\ pc \in {"dial", "request", "response", "hijack", "undeadline", "switch"}
         => counted = <<>> /\ \A c \in Copiers : copier[c] = "off"
    /\ pc = "copy"
         => counted = <<"ok">> /\ \A c \in Copiers : copier[c] # "off"

\* Only the client's deadline can be set before the handover, and it is cleared
\* on the way.
DeadlineInv ==
    /\ pc \in {"dial", "request", "response", "hijack", "undeadline"}
         => armed \subseteq {"client"}
    /\ pc \in {"switch", "copy"} => armed = {}

IInv ==
    /\ TypeOK
    /\ CopyInv
    /\ StageInv
    /\ DeadlineInv
    /\ FramesArriveInOrder
    /\ NothingLeftOpen

-----------------------------------------------------------------------------
\* The two ends, and that each is the other's peer.
LEMMA PeerFacts ==
    /\ \A e \in Ends : Peer(e) \in Ends /\ Peer(Peer(e)) = e /\ Peer(e) # e
    /\ \A e \in Ends : e = "client" \/ e = "upstream"
BY DEF Ends, Peer

\* The invariant holds when the handler starts.
LEMMA InitIInv == Init => IInv
<1> SUFFICES ASSUME Init PROVE IInv
  OBVIOUS
<1> USE FramesAssumption, PeerFacts DEF Init
<1>1. TypeOK
  BY DEF TypeOK, Deadlines, Ends, Copiers
<1>2. CopyInv /\ StageInv /\ DeadlineInv
  BY DEF CopyInv, StageInv, DeadlineInv, Copiers
<1>3. FramesArriveInOrder /\ NothingLeftOpen
  BY DEF FramesArriveInOrder, NothingLeftOpen
<1> QED
  BY <1>1, <1>2, <1>3 DEF IInv

\* A copier takes steps only between the handover and the handler's return.
LEMMA CopyingOnly ==
    ASSUME IInv, NEW c \in Copiers, Copy(c)
    PROVE  pc = "copy"
BY DEF IInv, TypeOK, StageInv, NothingLeftOpen, Copy, Read, ReadEnds, Write,
       WriteToNobody, CloseOther

\* The values counted can have: a request is counted once at most.
Counts == {<<>>} \cup {<<o>> : o \in {"ok", "blocked", "upstream_error"}}

\* An outcome counted first is the only one.
LEMMA CountedOnce ==
    \A o \in {"ok", "blocked", "upstream_error"} :
        Append(<<>>, o) = <<o>> /\ <<o>> \in Counts
BY DEF Counts

\* The handler's steps keep the types.
LEMMA HandleType == ASSUME IInv, Handle PROVE TypeOK'
<1> DEFINE HandlerType ==
             /\ pc \in {"dial", "request", "response", "hijack", "undeadline",
                        "switch", "copy", "returned"}
             /\ armed \subseteq Deadlines
             /\ open \subseteq Ends
             /\ counted \in Counts
           PeerType ==
             /\ gone \subseteq Ends
             /\ sent \in [Ends -> 0 .. Frames]
             /\ buffered \in [Ends -> 0 .. Frames]
           CopyType ==
             /\ next \in [Copiers -> 1 .. Frames + 1]
             /\ copier \in [Copiers -> {"off", "read", "write", "close", "done"}]
             /\ held \in [Copiers -> {None} \cup 1 .. Frames]
             /\ got \in [Ends -> Seq(1 .. Frames)]
<1>1. TypeOK <=> HandlerType /\ PeerType /\ CopyType
  BY DEF TypeOK, Counts
<1>2. TypeOK' <=> HandlerType' /\ PeerType' /\ CopyType'
  BY DEF TypeOK, Counts
<1>3. HandlerType /\ PeerType /\ CopyType
  BY <1>1 DEF IInv
<1>4. (counted = <<>> /\ "upstream" \in Ends) \/ pc = "copy"
  BY DEF IInv, StageInv, Handle, Dial, WriteRequest, WriteRequestFails,
         ReadResponse, ReadResponseFails, Hijack, HijackFails, ClearDeadline,
         Switch, SwitchFails, Return, Ends
<1>5. HandlerType'
  <2>1. ASSUME NEW o \in {"blocked", "upstream_error"}, Refuse(o), pc # "copy",
               armed' \subseteq Deadlines
        PROVE  HandlerType'
    BY <1>3, <1>4, <2>1, CountedOnce DEF Refuse
  <2>2. CASE Dial
    BY <1>3, <1>4, <2>1, <2>2 DEF Dial, Refuse
  <2>3. CASE WriteRequest \/ WriteRequestFails
    BY <1>3, <1>4, <2>1, <2>3 DEF WriteRequest, WriteRequestFails, Deadlines
  <2>4. CASE ReadResponse \/ ReadResponseFails
    BY <1>3, <1>4, <2>1, <2>4 DEF ReadResponse, ReadResponseFails, Deadlines
  <2>5. CASE Hijack \/ HijackFails \/ ClearDeadline
    BY <1>3, <1>4, <2>1, <2>5 DEF Hijack, HijackFails, ClearDeadline
  <2>6. CASE Switch
    BY <1>3, <1>4, <2>6, CountedOnce DEF Switch
  <2>7. CASE SwitchFails \/ Return
    BY <1>3, <2>7 DEF SwitchFails, Return
  <2> QED
    BY <2>2, <2>3, <2>4, <2>5, <2>6, <2>7 DEF Handle
<1>6. PeerType'
  <2>1. CASE ReadResponse
    BY <1>3, <2>1, FramesAssumption DEF ReadResponse, Ends
  <2>2. CASE Hijack
    BY <1>3, <2>2, FramesAssumption DEF Hijack, Ends
  <2>3. CASE UNCHANGED peerVars
    BY <1>3, <2>3 DEF peerVars
  <2> QED
    BY <2>1, <2>2, <2>3
       DEF Handle, Dial, WriteRequest, WriteRequestFails, ReadResponseFails,
           HijackFails, ClearDeadline, Switch, SwitchFails, Return
<1>7. CopyType'
  <2>1. CASE Switch
    BY <1>3, <2>1 DEF Switch, Copiers
  <2>2. CASE UNCHANGED copyVars
    BY <1>3, <2>2 DEF copyVars
  <2> QED
    BY <2>1, <2>2
       DEF Handle, Dial, WriteRequest, WriteRequestFails, ReadResponse,
           ReadResponseFails, Hijack, HijackFails, ClearDeadline, SwitchFails,
           Return
<1> QED
  BY <1>2, <1>5, <1>6, <1>7

\* A copier's steps keep the types: what it writes is the frame it has read.
LEMMA CopyType == ASSUME IInv, NEW c \in Copiers, Copy(c) PROVE TypeOK'
<1> USE FramesAssumption, PeerFacts
    DEF IInv, TypeOK, Copiers, handlerVars, peerVars, Goto
<1>1. CASE Read(c)
  <2>1. next[c] \in 1 .. Frames /\ next[c] + 1 \in 1 .. Frames + 1
    BY <1>1 DEF Read
  <2>2. /\ held' \in [Copiers -> {None} \cup 1 .. Frames]
        /\ next' \in [Copiers -> 1 .. Frames + 1]
    BY <1>1, <2>1 DEF Read
  <2> QED
    BY <1>1, <2>2 DEF Read
<1>2. CASE ReadEnds(c) \/ WriteToNobody(c) \/ CloseOther(c)
  BY <1>2 DEF ReadEnds, WriteToNobody, CloseOther
<1>3. CASE Write(c)
  <2>1. held[c] \in 1 .. Frames
    BY <1>3 DEF Write, CopyInv
  <2>2. Append(got[Peer(c)], held[c]) \in Seq(1 .. Frames)
    BY <2>1
  <2> QED
    BY <1>3, <2>2 DEF Write
<1> QED
  BY <1>1, <1>2, <1>3 DEF Copy

\* Every step keeps the types.
LEMMA NextType == ASSUME IInv, [Next]_vars PROVE TypeOK'
<1>1. CASE Handle
  BY <1>1, HandleType
<1>2. ASSUME NEW c \in Copiers, Copy(c) PROVE TypeOK'
  BY <1>2, CopyType
<1>3. ASSUME NEW e \in Ends, Send(e) PROVE TypeOK'
  <2>1. sent' \in [Ends -> 0 .. Frames]
    BY <1>3, FramesAssumption DEF IInv, TypeOK, Send
  <2> QED
    BY <1>3, <2>1 DEF IInv, TypeOK, Send, handlerVars, copyVars
<1>4. ASSUME NEW e \in Ends, Leave(e) PROVE TypeOK'
  BY <1>4 DEF IInv, TypeOK, Leave, handlerVars, copyVars
<1>5. CASE UNCHANGED vars
  BY <1>5 DEF vars, IInv, TypeOK
<1> QED
  BY <1>1, <1>2, <1>3, <1>4, <1>5 DEF Next

\* What the handler has reached decides its deadlines, its count, and whether
\* copiers run and connections stay open.
LEMMA NextStage ==
    ASSUME IInv, [Next]_vars
    PROVE  StageInv' /\ DeadlineInv' /\ NothingLeftOpen'
<1> USE DEF IInv, StageInv, DeadlineInv, NothingLeftOpen, handlerVars, copyVars,
            peerVars, Goto
<1>1. CASE Handle
  <2>1. CASE Dial
    BY <2>1 DEF Dial, Refuse
  <2>2. CASE WriteRequest \/ WriteRequestFails
    BY <2>2 DEF WriteRequest, WriteRequestFails, Refuse
  <2>3. CASE ReadResponse \/ ReadResponseFails
    BY <2>3 DEF ReadResponse, ReadResponseFails, Refuse
  <2>4. CASE Hijack \/ HijackFails \/ ClearDeadline
    BY <2>4 DEF Hijack, HijackFails, ClearDeadline, Refuse
  <2>5. CASE Switch
    BY <2>5 DEF Switch
  <2>6. CASE SwitchFails \/ Return
    BY <2>6 DEF SwitchFails, Return
  <2> QED
    BY <1>1, <2>1, <2>2, <2>3, <2>4, <2>5, <2>6 DEF Handle
<1>2. ASSUME NEW c \in Copiers, Copy(c)
      PROVE  StageInv' /\ DeadlineInv' /\ NothingLeftOpen'
  <2>1. pc = "copy" /\ copier \in [Copiers -> {"off", "read", "write", "close", "done"}]
    BY <1>2, CopyingOnly DEF TypeOK
  <2>2. pc' = "copy" /\ UNCHANGED <<armed, counted>>
    BY <1>2, <2>1 DEF Copy, Read, ReadEnds, Write, WriteToNobody, CloseOther
  <2>3. \E l \in {"read", "write", "close", "done"} : copier' = [copier EXCEPT ![c] = l]
    BY <1>2 DEF Copy, Read, ReadEnds, Write, WriteToNobody, CloseOther
  <2> QED
    BY <2>1, <2>2, <2>3
<1>3. ASSUME NEW e \in Ends, Send(e) \/ Leave(e)
      PROVE  StageInv' /\ DeadlineInv' /\ NothingLeftOpen'
  BY <1>3 DEF Send, Leave
<1>4. CASE UNCHANGED vars
  BY <1>4 DEF vars
<1> QED
  BY <1>1, <1>2, <1>3, <1>4 DEF Next

-----------------------------------------------------------------------------
\* The handler's steps deliver nothing: before the handover no copier has
\* started, and afterwards none is running.
LEMMA HandleCopies == ASSUME IInv, Handle PROVE CopyInv' /\ FramesArriveInOrder'
<1> USE PeerFacts
    DEF IInv, TypeOK, StageInv, CopyInv, FramesArriveInOrder, Copiers,
        copyVars, peerVars
<1>1. CASE Switch
  BY <1>1 DEF Switch
<1>2. CASE Return
  <2>1. UNCHANGED copyVars /\ \A c \in Copiers : copier[c] = "done"
    BY <1>2 DEF Return
  <2> QED
    BY <2>1
<1>3. CASE ~Switch /\ ~Return
  <2>1. UNCHANGED copyVars
    BY <1>3 DEF Handle, Dial, WriteRequest, WriteRequestFails, ReadResponse,
                ReadResponseFails, Hijack, HijackFails, ClearDeadline,
                SwitchFails
  <2>2. \A c \in Copiers : copier[c] = "off"
    BY <1>3 DEF Handle, Dial, WriteRequest, WriteRequestFails, ReadResponse,
                ReadResponseFails, Hijack, HijackFails, ClearDeadline,
                SwitchFails
  <2> QED
    BY <2>1, <2>2
<1> QED
  BY <1>1, <1>2, <1>3

\* A copier's steps keep the numbering.
LEMMA CopyCopies ==
    ASSUME IInv, NEW c \in Copiers, Copy(c)
    PROVE  CopyInv' /\ FramesArriveInOrder'
<1> USE FramesAssumption, PeerFacts
    DEF IInv, CopyInv, FramesArriveInOrder, Copiers, handlerVars, peerVars, Goto
<1>0. /\ next \in [Ends -> 1 .. Frames + 1]
      /\ copier \in [Ends -> {"off", "read", "write", "close", "done"}]
      /\ held \in [Ends -> {None} \cup 1 .. Frames]
      /\ got \in [Ends -> Seq(1 .. Frames)]
  BY DEF TypeOK
<1>1. CASE Read(c)
  <2>1. /\ UNCHANGED <<got, open, gone>>
        /\ copier[c] = "read"
        /\ copier' = [copier EXCEPT ![c] = "write"]
        /\ next' = [next EXCEPT ![c] = next[c] + 1]
        /\ held' = [held EXCEPT ![c] = next[c]]
    BY <1>1 DEF Read
  <2>2. /\ next'[c] = next[c] + 1 /\ held'[c] = next[c] /\ copier'[c] = "write"
        /\ next[c] \in Nat \ {0} /\ got[Peer(c)] \in Seq(1 .. Frames)
    BY <1>0, <2>1
  <2>3. \A d \in Ends \ {c} :
          next'[d] = next[d] /\ held'[d] = held[d] /\ copier'[d] = copier[d]
    BY <1>0, <2>1
  <2> QED
    BY <2>1, <2>2, <2>3
<1>2. CASE ReadEnds(c)
  BY <1>0, <1>2 DEF ReadEnds
<1>3. CASE Write(c)
  <2> DEFINE n == Len(got[Peer(c)])
  <2>1. /\ copier[c] = "write" /\ Peer(c) \in open \ gone
        /\ UNCHANGED <<next, open, gone>>
        /\ copier' = [copier EXCEPT ![c] = "read"]
        /\ held' = [held EXCEPT ![c] = None]
        /\ got' = [got EXCEPT ![Peer(c)] = Append(got[Peer(c)], held[c])]
    BY <1>3 DEF Write
  <2>2. /\ got[Peer(c)] \in Seq(1 .. Frames) /\ n \in Nat
        /\ next[c] = n + 2 /\ held[c] = n + 1
    BY <1>0, <2>1
  <2>3. got[Peer(c)] = [i \in 1 .. n |-> i]
    OBVIOUS
  <2>4. /\ got'[Peer(c)] = Append(got[Peer(c)], n + 1)
        /\ \A e \in Ends \ {Peer(c)} : got'[e] = got[e]
    BY <1>0, <2>1, <2>2
  <2>5. /\ Len(got'[Peer(c)]) = n + 1
        /\ got'[Peer(c)] = [i \in 1 .. n + 1 |-> i]
    <3> HIDE DEF n
    <3>1. Append([i \in 1 .. n |-> i], n + 1) = [i \in 1 .. n + 1 |-> i]
      BY <2>2
    <3>2. Len([i \in 1 .. n + 1 |-> i]) = n + 1
      BY <2>2
    <3> QED
      BY <2>3, <2>4, <3>1, <3>2
  <2>6. FramesArriveInOrder'
    BY <2>4, <2>5
  <2>7. copier'[c] = "read" /\ next'[c] = n + 2
    BY <1>0, <2>1, <2>2
  <2>8. \A d \in Ends \ {c} :
          /\ next'[d] = next[d] /\ held'[d] = held[d] /\ copier'[d] = copier[d]
          /\ got'[Peer(d)] = got[Peer(d)]
    BY <1>0, <2>1, <2>4
  <2>9. CopyInv'
    <3> HIDE DEF n
    <3> QED
      BY <2>1, <2>2, <2>5, <2>7, <2>8
  <2> QED
    BY <2>6, <2>9
<1>4. CASE WriteToNobody(c)
  <2>1. /\ UNCHANGED <<got, open, gone, next>>
        /\ held' = [held EXCEPT ![c] = None]
        /\ copier' \in {[copier EXCEPT ![c] = "close"], [copier EXCEPT ![c] = "read"]}
        /\ Peer(c) \notin open \ gone
    BY <1>4 DEF WriteToNobody
  <2>2. copier'[c] \in {"close", "read"}
    BY <1>0, <2>1
  <2>3. \A d \in Ends \ {c} : held'[d] = held[d] /\ copier'[d] = copier[d]
    BY <1>0, <2>1
  <2> QED
    BY <2>1, <2>2, <2>3
<1>5. CASE CloseOther(c)
  BY <1>0, <1>5 DEF CloseOther
<1> QED
  BY <1>1, <1>2, <1>3, <1>4, <1>5 DEF Copy

\* Every step keeps the numbering: a peer that leaves only releases its copier
\* from it.
LEMMA NextCopies ==
    ASSUME IInv, [Next]_vars PROVE CopyInv' /\ FramesArriveInOrder'
<1>1. CASE Handle
  BY <1>1, HandleCopies
<1>2. ASSUME NEW c \in Copiers, Copy(c) PROVE CopyInv' /\ FramesArriveInOrder'
  BY <1>2, CopyCopies
<1>3. ASSUME NEW e \in Ends, Send(e) \/ Leave(e)
      PROVE  CopyInv' /\ FramesArriveInOrder'
  BY <1>3 DEF Send, Leave, IInv, CopyInv, FramesArriveInOrder, copyVars
<1>4. CASE UNCHANGED vars
  BY <1>4 DEF vars, IInv, CopyInv, FramesArriveInOrder
<1> QED
  BY <1>1, <1>2, <1>3, <1>4 DEF Next

\* The invariant is inductive.
LEMMA Inductive == Spec => []IInv
<1>1. IInv /\ [Next]_vars => IInv'
  BY NextType, NextStage, NextCopies DEF IInv
<1> QED
  BY <1>1, InitIInv, PTL DEF Spec

-----------------------------------------------------------------------------
\* Every variable has its type in every reachable state, and a request is
\* counted once at most.
THEOREM TypeCorrect == Spec => []TypeOK
BY Inductive, PTL DEF IInv

\* Each peer receives the other's frames in order and without a gap.
THEOREM FramesInOrder == Spec => []FramesArriveInOrder
BY Inductive, PTL DEF IInv

\* No deadline of the handshake outlives the handover.
THEOREM NoDeadline == Spec => []NoDeadlineWhileCopying
<1>1. IInv => NoDeadlineWhileCopying
  BY DEF IInv, DeadlineInv, NoDeadlineWhileCopying
<1> QED
  BY <1>1, Inductive, PTL

\* The handler leaves no copier and no connection behind.
THEOREM NothingLeft == Spec => []NothingLeftOpen
BY Inductive, PTL DEF IInv
=============================================================================
