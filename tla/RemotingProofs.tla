---------------------------- MODULE RemotingProofs ----------------------------
(***************************************************************************)
(* Proofs about domains and their handles, for any number of domains, any  *)
(* shape of the tree in which they create each other, and every build: the *)
(* types, that no reference to a domain dangles although the counts are    *)
(* not atomic, that a thread has its domain as g_domain while it runs it,  *)
(* that messages keep the order of the calls, and that a call which        *)
(* returns has been executed, but after a timeout.                         *)
(*                                                                         *)
(* IInv is about the domains and handles.  MailInv adds OrderInv, about    *)
(* where each message is, and OutcomeInv, about who knows of its result.   *)
(***************************************************************************)
EXTENDS Remoting, SequenceTheorems, TLAPS

OpPlaces == {"ready?", "lock", "ref", "import", "enqueue", "pulse", "pulsed",
             "await", "release", "drop", "dropped", "destroy", "join"}
ServePlaces == {"dispatch", "answer", "answered"}
PollPlaces == {"poll", "pollwait", "repoll"}

\* What holds of one thread: where it is, the operation it is in and the
\* messages it serves belong together.
ThreadOK(d, place, o, serves) ==
    /\ place \in Places
    /\ o \in Ops
    /\ serves \in Seq(Ids)
    /\ place \in OpPlaces <=> o # NoOp
    /\ place \in ServePlaces => serves # <<>>
    /\ serves # <<>> => place \in ServePlaces \cup OpPlaces \cup PollPlaces \cup {"user"}
    /\ place \in OpPlaces => /\ o.kind \in Kinds
                             /\ o.target \in Domains \ {Base}
                             /\ Creator[o.target] = d
    /\ place = "ref" => o.kind # "wait"
    /\ place \in {"enqueue", "pulse", "pulsed", "await"} => o.kind \in {"sync", "async"}
    /\ o.kind \in {"sync", "async"} => o.msg \in Ids

ControlOK ==
    /\ pc \in [Domains -> Places]
    /\ op \in [Domains -> Ops]
    /\ serving \in [Domains -> Seq(Ids)]
    /\ \A d \in Domains : ThreadOK(d, pc[d], op[d], serving[d])

LEMMA OpFacts ==
  /\ NoOp \in Ops
  /\ NoOp.kind = "none"
  /\ "none" \notin Kinds
  /\ \A o \in Ops, b \in BOOLEAN : LET p == [o EXCEPT !.abort = b]
       IN /\ p \in Ops /\ p.kind = o.kind /\ p.target = o.target
          /\ p.msg = o.msg
  BY RemotingAssumption DEF Ops, NoOp

\* One thread moves: it is enough to look at that thread.
LEMMA ThreadMoves ==
  ASSUME ControlOK, NEW d \in Domains, NEW place, NEW o, NEW serves,
         ThreadOK(d, place, o, serves),
         Goto(d, place),
         op' = [op EXCEPT ![d] = o],
         serving' = [serving EXCEPT ![d] = serves]
  PROVE  ControlOK'
  <1>1. /\ place \in Places /\ o \in Ops /\ serves \in Seq(Ids)
    BY DEF ThreadOK
  <1>2. /\ pc' \in [Domains -> Places]
        /\ op' \in [Domains -> Ops]
        /\ serving' \in [Domains -> Seq(Ids)]
    BY <1>1 DEF ControlOK, Goto
  <1>3. ASSUME NEW e \in Domains PROVE ThreadOK(e, pc'[e], op'[e], serving'[e])
    <2>1. CASE e = d
      BY <2>1 DEF ControlOK, Goto
    <2>2. CASE e # d
      <3>1. pc'[e] = pc[e] /\ op'[e] = op[e] /\ serving'[e] = serving[e]
        BY <2>2 DEF ControlOK, Goto
      <3> QED BY <3>1 DEF ControlOK
    <2> QED BY <2>1, <2>2
  <1> QED BY <1>2, <1>3 DEF ControlOK, ThreadOK

\* The thread moves within its operation or within listen().
LEMMA PlaceMoves ==
  ASSUME ControlOK, NEW d \in Domains, NEW place,
         ThreadOK(d, place, op[d], serving[d]),
         Goto(d, place), UNCHANGED <<op, serving>>
  PROVE  ControlOK'
  <1>1. op' = [op EXCEPT ![d] = op[d]] /\ serving' = [serving EXCEPT ![d] = serving[d]]
    BY DEF ControlOK
  <1> QED BY <1>1, ThreadMoves

\* The operation of a thread ends.
LEMMA OperationEnds ==
  ASSUME ControlOK, NEW d \in Domains, NEW place,
         ThreadOK(d, place, NoOp, serving[d]),
         Goto(d, place), Finish(d), UNCHANGED serving
  PROVE  ControlOK'
  <1>1. serving' = [serving EXCEPT ![d] = serving[d]]
    BY DEF ControlOK
  <1> QED BY <1>1, ThreadMoves DEF Finish

\* Where an abort takes a thread that is not in an operation any more.
LEMMA AbortMoves ==
  ASSUME ControlOK, NEW d \in Domains, NEW ms, Abort(d, ms),
         serving[d] # <<>> => pc[d] \in OpPlaces \cup {"user"}
  PROVE  \E place : Goto(d, place) /\ ThreadOK(d, place, NoOp, serving[d])
  <1> USE OpFacts DEF ControlOK, ThreadOK, OpPlaces, ServePlaces, PollPlaces, Places
  <1>1. CASE Goto(d, "user") BY <1>1
  <1>2. CASE serving[d] = <<>> /\ Goto(d, "unpublish") BY <1>2
  <1>3. CASE serving[d] # <<>> /\ Goto(d, "answer") BY <1>3
  <1> QED BY <1>1, <1>2, <1>3 DEF Abort

LEMMA OperationOver ==
  ASSUME ControlOK, NEW d \in Domains, pc[d] \in OpPlaces, EndOperation(d),
         UNCHANGED serving
  PROVE  ControlOK'
  <1> USE OpFacts DEF ThreadOK, OpPlaces, ServePlaces, PollPlaces, Places
  <1>1. ThreadOK(d, pc[d], op[d], serving[d]) BY DEF ControlOK
  <1>2. Goto(d, "user") \/ \E ms : Abort(d, ms) BY DEF EndOperation
  <1>3. \E place : Goto(d, place) /\ ThreadOK(d, place, NoOp, serving[d])
    BY <1>1, <1>2, AbortMoves
  <1> QED BY <1>3, OperationEnds DEF EndOperation

\* Which domain a thread lets go of: its own, or that of a handle it holds.
DropPlaces == {"drop", "dropped", "destroy"}
LeavePlaces == {"leaving", "left", "epilog"}
LEMMA WhichDropped ==
  ASSUME ControlOK, NEW d \in Domains
  PROVE  /\ pc[d] \in LeavePlaces => Dropped(d) = d
         /\ pc[d] \in DropPlaces => /\ Dropped(d) = Target(d)
                                   /\ Target(d) \in Domains \ {Base}
                                   /\ Creator[Target(d)] = d
                                   /\ Target(d) # d
  BY RemotingAssumption
  DEF ControlOK, ThreadOK, OpPlaces, DropPlaces, LeavePlaces, Dropped, Target

\* Where the comparison of the count with 0 takes a thread.
LEMMA UnrefMoves ==
  ASSUME ControlOK, NEW d \in Domains, NEW zero \in BOOLEAN,
         pc[d] \in {"drop", "dropped", "leaving", "left"},
         Unreferenced(d, zero), UNCHANGED serving
  PROVE  ControlOK'
  <1> DEFINE c == Dropped(d)
             OK(place) == ThreadOK(d, place, op[d], serving[d])
  <1>0. OK(pc[d]) BY DEF ControlOK
  <1>1. c = d <=> pc[d] \in {"leaving", "left"}
    BY WhichDropped DEF DropPlaces, LeavePlaces
  <1> HIDE DEF c
  <1>2. CASE zero /\ c = d
    <2>1. Goto(d, "epilog") /\ UNCHANGED op BY <1>2 DEF Unreferenced, c
    <2>2. OK("epilog") BY <1>0, <1>1, <1>2
          DEF ThreadOK, OpPlaces, ServePlaces, PollPlaces, Places
    <2> QED BY <2>1, <2>2, PlaceMoves
  <1>3. CASE zero /\ c # d
    <2>1. Goto(d, "destroy") /\ UNCHANGED op BY <1>3 DEF Unreferenced, c
    <2>2. OK("destroy") BY <1>0, <1>1, <1>3
          DEF ThreadOK, OpPlaces, ServePlaces, PollPlaces, Places
    <2> QED BY <2>1, <2>2, PlaceMoves
  <1>4. CASE ~zero /\ c = d
    <2>1. Goto(d, "dead") /\ UNCHANGED op BY <1>4 DEF Unreferenced, c
    <2>2. OK("dead") BY <1>0, <1>1, <1>4
          DEF ThreadOK, OpPlaces, ServePlaces, PollPlaces, Places
    <2> QED BY <2>1, <2>2, PlaceMoves
  <1>5. CASE ~zero /\ c # d
    <2>1. EndOperation(d) BY <1>5 DEF Unreferenced, c
    <2>2. pc[d] \in OpPlaces BY <1>1, <1>5 DEF OpPlaces
    <2> QED BY <2>1, <2>2, OperationOver
  <1> QED BY <1>2, <1>3, <1>4, <1>5

\* A thread enters the stub of a message, and leaves it.
LEMMA ServingMoves ==
  ASSUME ControlOK, NEW d \in Domains
  PROVE  /\ \A m \in Ids : <<m>> \o serving[d] \in Seq(Ids) /\ <<m>> \o serving[d] # <<>>
         /\ serving[d] # <<>> => Tail(serving[d]) \in Seq(Ids)
  <1>1. serving[d] \in Seq(Ids) BY DEF ControlOK
  <1>2. ASSUME NEW m \in Ids
        PROVE  <<m>> \o serving[d] \in Seq(Ids) /\ <<m>> \o serving[d] # <<>>
    <2>1. <<m>> \in Seq(Ids) /\ Len(<<m>>) = 1 BY <1>2
    <2>2. /\ <<m>> \o serving[d] \in Seq(Ids)
          /\ Len(<<m>> \o serving[d]) = 1 + Len(serving[d])
      BY <1>1, <2>1, ConcatProperties
    <2>3. Len(serving[d]) \in Nat BY <1>1, LenProperties
    <2>4. Len(<<m>> \o serving[d]) # 0 BY <2>2, <2>3
    <2> QED BY <2>2, <2>4, EmptySeq
  <1>3. serving[d] # <<>> => Tail(serving[d]) \in Seq(Ids) BY <1>1, HeadTailProperties
  <1> QED BY <1>2, <1>3

LEMMA RuntimeControl ==
  ASSUME ControlOK, queue \in [Domains -> Seq(Ids)],
         NEW d \in Domains, RuntimeStep(d)
  PROVE  ControlOK'
  <1> DEFINE OK(place) == ThreadOK(d, place, op[d], serving[d])
  <1>0. /\ OK(pc[d])
        /\ NoOp \in Ops /\ NoOp.kind = "none" /\ "none" \notin Kinds
    BY OpFacts DEF ControlOK
  <1> USE <1>0 DEF ThreadOK, OpPlaces, ServePlaces, PollPlaces, Places
  <1>1. CASE CreateDomain(d)
    <2>1. Goto(d, "publish") /\ OK("publish") /\ UNCHANGED <<op, serving>> BY <1>1 DEF CreateDomain, control, handle, mail
    <2> QED BY <2>1, PlaceMoves
  <1>2. CASE CreateDomainFails(d)
    <2>1. Goto(d, "dead") /\ OK("dead") /\ UNCHANGED <<op, serving>> BY <1>2 DEF CreateDomainFails, control, handle, mail
    <2> QED BY <2>1, PlaceMoves
  <1>3. CASE SetDomain(d)
    <2>1. Goto(d, "signal") /\ OK("signal") /\ UNCHANGED <<op, serving>> BY <1>3 DEF SetDomain, control, handle, mail
    <2> QED BY <2>1, PlaceMoves
  <1>4. CASE ResetReadiness(d)
    <2>1. Goto(d, "user") /\ OK("user") /\ UNCHANGED <<op, serving>> BY <1>4 DEF ResetReadiness, control, handle, mail
    <2> QED BY <2>1, PlaceMoves
  <1>5. CASE ClearDomain(d)
    <2>1. Goto(d, "leave") /\ OK("leave") /\ UNCHANGED <<op, serving>> BY <1>5 DEF ClearDomain, control, handle, mail
    <2> QED BY <2>1, PlaceMoves
  <1>6. CASE LeaveThread(d)
    <2>1. Goto(d, "leaving") /\ OK("leaving") /\ UNCHANGED <<op, serving>> BY <1>6 DEF LeaveThread
    <2> QED BY <2>1, PlaceMoves
  <1>7. CASE DomainIsReady(d)
    <2>1. Goto(d, "lock") /\ OK("lock") /\ UNCHANGED <<op, serving>> BY <1>7 DEF DomainIsReady, control, handle, mail
    <2> QED BY <2>1, PlaceMoves
  <1>8. CASE ImportObject(d)
    <2>1. Goto(d, "release") /\ OK("release") /\ UNCHANGED <<op, serving>> BY <1>8 DEF ImportObject, control, handle, mail
    <2> QED BY <2>1, PlaceMoves
  <1>9. CASE Enqueue(d)
    <2>1. Goto(d, "pulse") /\ OK("pulse") /\ UNCHANGED <<op, serving>> BY <1>9 DEF Enqueue, control, handle, mail
    <2> QED BY <2>1, PlaceMoves
  <1>10. CASE NewMessage(d)
    <2>1. Goto(d, "repoll") /\ OK("repoll") /\ UNCHANGED <<op, serving>> BY <1>10 DEF NewMessage, control, handle, mail
    <2> QED BY <2>1, PlaceMoves
  <1>11. CASE PollTimeout(d)
    <2>1. Goto(d, "poll") /\ OK("poll") /\ UNCHANGED <<op, serving>> BY <1>11 DEF PollTimeout, control, handle, mail
    <2> QED BY <2>1, PlaceMoves
  <1>12. CASE CallStub(d)
    <2>1. Goto(d, "user") /\ OK("user") /\ UNCHANGED <<op, serving>> BY <1>12 DEF CallStub, control, handle, mail
    <2> QED BY <2>1, PlaceMoves
  <1>13. CASE Refuse(d)
    <2>1. Goto(d, "answer") /\ OK("answer") /\ UNCHANGED <<op, serving>> BY <1>13 DEF Refuse, control, handle, mail
    <2> QED BY <2>1, PlaceMoves
  <1>14. CASE SignalDomainIsReady(d)
    <2>1. /\ Goto(d, IF Win32 THEN "user" ELSE "signalled")
          /\ OK(IF Win32 THEN "user" ELSE "signalled")
          /\ UNCHANGED <<op, serving>>
      BY <1>14 DEF SignalDomainIsReady
    <2> QED BY <2>1, PlaceMoves
  <1>15. CASE ResetQueuePulse(d)
    <2>1. Goto(d, Sent(d)) /\ OK(Sent(d)) /\ UNCHANGED <<op, serving>>
      BY <1>15 DEF ResetQueuePulse, Sent
    <2> QED BY <2>1, PlaceMoves
  <1>16. CASE PulseQueue(d)
    <2>1. /\ Goto(d, IF Win32 THEN Sent(d) ELSE "pulsed")
          /\ OK(IF Win32 THEN Sent(d) ELSE "pulsed")
          /\ UNCHANGED <<op, serving>>
      BY <1>16 DEF PulseQueue, Sent
    <2> QED BY <2>1, PlaceMoves
  <1>17. CASE RetrieveNothing(d)
    <2>1. /\ Goto(d, IF pc[d] = "poll" THEN "pollwait" ELSE "poll")
          /\ OK(IF pc[d] = "poll" THEN "pollwait" ELSE "poll")
          /\ UNCHANGED <<op, serving>>
      BY <1>17 DEF RetrieveNothing
    <2> QED BY <2>1, PlaceMoves
  <1>18. CASE GetDomain(d)
    <2>1. CASE op[d].kind = "wait"
      <3>1. Goto(d, "join") /\ OK("join") /\ UNCHANGED <<op, serving>>
        BY <1>18, <2>1 DEF GetDomain
      <3> QED BY <3>1, PlaceMoves
    <2>2. CASE op[d].kind # "wait"
      <3>1. Goto(d, "ref") /\ OK("ref") /\ UNCHANGED <<op, serving>>
        BY <1>18, <2>2 DEF GetDomain
      <3> QED BY <3>1, PlaceMoves
    <2> QED BY <2>1, <2>2
  <1>19. CASE ReadinessTimeout(d)
    <2>1. Finish(d) /\ UNCHANGED serving /\ pc[d] \in OpPlaces BY <1>19 DEF ReadinessTimeout
    <2>2. Goto(d, "user") \/ \E ms : Abort(d, ms) BY <1>19 DEF ReadinessTimeout
    <2>3. \E place : Goto(d, place) /\ ThreadOK(d, place, NoOp, serving[d])
      BY <2>1, <2>2, AbortMoves
    <2> QED BY <2>1, <2>3, OperationEnds
  <1>20. CASE DomainIsGone(d)
    <2>1. Finish(d) /\ UNCHANGED serving /\ pc[d] \in OpPlaces BY <1>20 DEF DomainIsGone
    <2>2. Goto(d, "user") \/ \E ms : Abort(d, ms) BY <1>20 DEF DomainIsGone
    <2>3. \E place : Goto(d, place) /\ ThreadOK(d, place, NoOp, serving[d])
      BY <2>1, <2>2, AbortMoves
    <2> QED BY <2>1, <2>3, OperationEnds
  <1>21. CASE Release(d)
    <2>1. Goto(d, "drop") /\ OK("drop") /\ UNCHANGED <<op, serving>> BY <1>21 DEF Release
    <2> QED BY <2>1, PlaceMoves
  <1>22. CASE Join(d)
    <2>1. /\ Goto(d, "user") /\ ThreadOK(d, "user", NoOp, serving[d])
          /\ Finish(d) /\ UNCHANGED serving
      BY <1>22 DEF Join, handle, mail
    <2> QED BY <2>1, OperationEnds
  <1>23. CASE ResultArrives(d)
    <2> DEFINE o == [op[d] EXCEPT !.abort = msgs[op[d].msg].ret = "error"]
    <2>1. ThreadOK(d, "release", o, serving[d])
      <3>1. /\ o \in Ops /\ o.kind = op[d].kind /\ o.target = op[d].target
            /\ o.msg = op[d].msg
        BY OpFacts
      <3>2. pc[d] = "await" BY <1>23 DEF ResultArrives
      <3> QED BY <3>1, <3>2
    <2>2. /\ Goto(d, "release") /\ op' = [op EXCEPT ![d] = o]
          /\ serving' = [serving EXCEPT ![d] = serving[d]]
      BY <1>23 DEF ResultArrives, ControlOK
    <2> QED BY <2>1, <2>2, ThreadMoves
  <1>24. CASE ResultTimeout(d)
    <2> DEFINE o == [op[d] EXCEPT !.abort = TRUE]
    <2>1. ThreadOK(d, "release", o, serving[d])
      <3>1. /\ o \in Ops /\ o.kind = op[d].kind /\ o.target = op[d].target
            /\ o.msg = op[d].msg
        BY OpFacts
      <3>2. pc[d] = "await" BY <1>24 DEF ResultTimeout
      <3> QED BY <3>1, <3>2
    <2>2. /\ Goto(d, "release") /\ op' = [op EXCEPT ![d] = o]
          /\ serving' = [serving EXCEPT ![d] = serving[d]]
      BY <1>24 DEF ResultTimeout, ControlOK
    <2> QED BY <2>1, <2>2, ThreadMoves
  <1>25. CASE Retrieve(d)
    <2> DEFINE ms == <<Head(queue[d])>> \o serving[d]
    <2>1. Head(queue[d]) \in Ids BY <1>25, HeadTailProperties DEF Retrieve
    <2>2. ms \in Seq(Ids) /\ ms # <<>> BY <2>1, ServingMoves
    <2>3. /\ Goto(d, "dispatch") /\ serving' = [serving EXCEPT ![d] = ms]
          /\ op' = [op EXCEPT ![d] = op[d]] /\ pc[d] \in {"poll", "repoll"}
      BY <1>25 DEF Retrieve, ControlOK
    <2> HIDE DEF ms
    <2>4. ThreadOK(d, "dispatch", op[d], ms) BY <2>2, <2>3
    <2> QED BY <2>3, <2>4, ThreadMoves
  <1> DEFINE rest == Tail(serving[d])
  <1>p. CASE pc[d] \in {"answer", "answered"} /\ UNCHANGED op /\ Goto(d, "poll")
                /\ serving' = [serving EXCEPT ![d] = rest]
    <2>1. serving[d] # <<>> /\ op' = [op EXCEPT ![d] = op[d]] BY <1>p DEF ControlOK
    <2>2. rest \in Seq(Ids) BY <2>1, ServingMoves
    <2> HIDE DEF rest
    <2>3. ThreadOK(d, "poll", op[d], rest) BY <1>p, <2>2
    <2> QED BY <1>p, <2>1, <2>3, ThreadMoves
  <1>26. CASE ResetAnswer(d) BY <1>26, <1>p DEF ResetAnswer
  <1>27. CASE Forget(d) BY <1>27, <1>p DEF Forget
  <1>28. CASE Answer(d)
    <2>1. CASE Win32 BY <1>28, <2>1, <1>p DEF Answer
    <2>2. CASE ~Win32
      <3>1. Goto(d, "answered") /\ OK("answered") /\ UNCHANGED <<op, serving>>
        BY <1>28, <2>2 DEF Answer
      <3> QED BY <3>1, PlaceMoves
    <2> QED BY <2>1, <2>2
  <1>29. CASE CountReference(d)
    <2>1. /\ Goto(d, Got(d)) /\ OK(Got(d)) /\ UNCHANGED <<op, serving>>
      <3>1. op[d].kind \in {"sync", "async", "import", "alive"}
        BY <1>29, RemotingAssumption DEF CountReference
      <3> QED BY <1>29, <3>1 DEF CountReference, Got
    <2> QED BY <2>1, PlaceMoves
  <1>30. CASE Drop(d)
    <2>1. CASE Rereads
      <3>1. /\ Goto(d, IF pc[d] = "drop" THEN "dropped" ELSE "left")
            /\ OK(IF pc[d] = "drop" THEN "dropped" ELSE "left")
            /\ UNCHANGED <<op, serving>>
        BY <1>30, <2>1 DEF Drop
      <3> QED BY <3>1, PlaceMoves
    <2>2. CASE ~Rereads
      <3>1. /\ Unreferenced(d, loaded[d] = 1) /\ UNCHANGED serving
            /\ pc[d] \in {"drop", "dropped", "leaving", "left"}
        BY <1>30, <2>2 DEF Drop
      <3> QED BY <3>1, UnrefMoves
    <2> QED BY <2>1, <2>2
  <1>31. CASE Reread(d)
    <2>1. PICK zero \in IF live[Dropped(d)] THEN {count[Dropped(d)] = 0} ELSE BOOLEAN :
             Unreferenced(d, zero)
      BY <1>31 DEF Reread
    <2>2. zero \in BOOLEAN OBVIOUS
    <2>3. UNCHANGED serving /\ pc[d] \in {"drop", "dropped", "leaving", "left"}
      BY <1>31 DEF Reread
    <2> QED BY <2>1, <2>2, <2>3, UnrefMoves
  <1> QED
    BY <1>1, <1>2, <1>3, <1>4, <1>5, <1>6, <1>7, <1>8, <1>9, <1>10, <1>11, <1>12, <1>13, <1>14, <1>15, <1>16, <1>17, <1>18, <1>19, <1>20, <1>21, <1>22, <1>23, <1>24, <1>25, <1>26, <1>27, <1>28, <1>29, <1>30, <1>31 DEF RuntimeStep

LEMMA UserControl ==
  ASSUME ControlOK, msgs \in Seq(Messages), NEW d \in Domains, UserStep(d)
  PROVE  ControlOK'
  <1> DEFINE OK(place) == ThreadOK(d, place, op[d], serving[d])
  <1>0. /\ OK(pc[d])
        /\ NoOp \in Ops /\ NoOp.kind = "none" /\ "none" \notin Kinds
    BY OpFacts DEF ControlOK
  <1> USE <1>0 DEF ThreadOK, OpPlaces, ServePlaces, PollPlaces, Places
  <1>1. ASSUME NEW c \in Domains \ {Base}, CreateRemoteDomain(d, c)
        PROVE  ControlOK'
    <2>1. /\ Goto(c, "create") /\ UNCHANGED <<op, serving>>
          /\ pc[c] = "none"
      BY <1>1 DEF CreateRemoteDomain
    <2>2. ThreadOK(c, pc[c], op[c], serving[c]) BY DEF ControlOK
    <2>3. ThreadOK(c, "create", op[c], serving[c]) BY <2>1, <2>2
    <2> QED BY <2>1, <2>3, PlaceMoves
  <1>2. ASSUME NEW c \in Domains \ {Base}, NEW kind \in Kinds, Begin(d, c, kind)
        PROVE  ControlOK'
    <2> DEFINE o == [kind |-> kind, target |-> c,
                     msg |-> IF kind \in {"sync", "async"} THEN Len(msgs) + 1
                                                            ELSE None,
                     abort |-> FALSE]
    <2>1. kind \in {"sync", "async"} => Len(msgs) + 1 \in Ids
      <3>1. Len(msgs) \in Nat BY LenProperties
      <3> QED BY <1>2, <3>1, RemotingAssumption DEF Begin, Ids
    <2>2. o \in Ops BY <2>1 DEF Ops
    <2>3. o # NoOp BY DEF NoOp
    <2>4. ThreadOK(d, "ready?", o, serving[d])
      BY <1>2, <2>1, <2>2, <2>3 DEF Begin
    <2>5. /\ Goto(d, "ready?") /\ op' = [op EXCEPT ![d] = o]
          /\ serving' = [serving EXCEPT ![d] = serving[d]]
      BY <1>2 DEF Begin, ControlOK
    <2> QED BY <2>4, <2>5, ThreadMoves
  <1>3. CASE Export(d) \/ Unexport(d)
    <2>1. UNCHANGED <<pc, op, serving>> BY <1>3 DEF Export, Unexport, control
    <2> QED BY <2>1 DEF ControlOK
  <1>4. CASE Listen(d)
    <2>1. Goto(d, "poll") /\ OK("poll") /\ UNCHANGED <<op, serving>> BY <1>4 DEF Listen
    <2> QED BY <2>1, PlaceMoves
  <1>5. CASE StopListening(d)
    <2>1. Goto(d, "user") /\ OK("user") /\ UNCHANGED <<op, serving>> BY <1>5 DEF StopListening
    <2> QED BY <2>1, PlaceMoves
  <1>6. CASE StubReturns(d)
    <2>1. Goto(d, "answer") /\ OK("answer") /\ UNCHANGED <<op, serving>> BY <1>6 DEF StubReturns
    <2> QED BY <2>1, PlaceMoves
  <1>7. CASE ReturnFromMain(d)
    <2>1. Goto(d, "unpublish") /\ OK("unpublish") /\ UNCHANGED <<op, serving>> BY <1>7 DEF ReturnFromMain
    <2> QED BY <2>1, PlaceMoves
  <1>8. CASE AbortInUserCode(d)
    <2>1. pc[d] = "user" /\ Abort(d, msgs) /\ UNCHANGED <<op, serving>> BY <1>8 DEF AbortInUserCode
    <2>2. op[d] = NoOp BY <2>1
    <2>3. PICK place : Goto(d, place) /\ ThreadOK(d, place, NoOp, serving[d])
      BY <2>1, AbortMoves
    <2> QED BY <2>1, <2>2, <2>3, PlaceMoves
  <1>9. CASE EndDestroy(d)
    <2>1. CASE Dropped(d) = d
      <3>1. Goto(d, "dead") /\ UNCHANGED <<op, serving>> BY <1>9, <2>1 DEF EndDestroy
      <3>2. pc[d] = "epilog" BY <1>9, <2>1, WhichDropped DEF EndDestroy, DropPlaces
      <3>3. OK("dead") BY <3>2
      <3> QED BY <3>1, <3>3, PlaceMoves
    <2>2. CASE Dropped(d) # d
      <3>1. EndOperation(d) /\ UNCHANGED serving BY <1>9, <2>2 DEF EndDestroy
      <3>2. pc[d] = "destroy" BY <1>9, <2>2, WhichDropped DEF EndDestroy, LeavePlaces
      <3> QED BY <3>1, <3>2, OperationOver
    <2> QED BY <2>1, <2>2
  <1> QED BY <1>1, <1>2, <1>3, <1>4, <1>5, <1>6, <1>7, <1>8, <1>9 DEF UserStep

-----------------------------------------------------------------------------
\* References to domains.  The creator of c, if it has one, holds a counted
\* reference to c, is about to store the count of one, or has loaded the count
\* to drop one.
Held(c) == c # Base /\ InDomain(Creator[c]) /\ Target(Creator[c]) = c
Counting(c) == c # Base /\ pc[Creator[c]] = "ref" /\ Target(Creator[c]) = c
Dropping(c) == c # Base /\ pc[Creator[c]] = "drop" /\ Target(Creator[c]) = c
\* It has let go of the reference, and runs the destructor.
Letting(c) == c # Base /\ pc[Creator[c]] \in {"dropped", "destroy"} /\ Target(Creator[c]) = c
Destroying(c) == c # Base /\ pc[Creator[c]] = "destroy" /\ Target(Creator[c]) = c

\* The count is right while somebody holds a reference: that both threads let
\* go at once can only leave it too large.  A thread that finds the last
\* reference in its register is the only one that holds any.  While a reference
\* is being counted nobody else writes the count, because of DomainMutex.
DomainOK(c) ==
    /\ slot[c] => Alive(c) /\ pc[c] \notin {"leave", "leaving"}
    /\ Alive(c) \/ Held(c) => live[c]
    /\ Alive(c) /\ Held(c) => count[c] = 2
    /\ Alive(c) /\ ~Held(c) => count[c] = 1
    /\ ~Alive(c) /\ Held(c) => count[c] = 1
    /\ pc[c] \in {"none", "create"} => ~live[c] /\ ~Held(c) /\ ~Letting(c)
    /\ pc[c] = "epilog" \/ Destroying(c) => ~live[c]
    /\ pc[c] = "leaving" => /\ loaded[c] \in {1, 2}
                            /\ loaded[c] = 1 => ~Held(c)
    /\ Dropping(c) => /\ loaded[Creator[c]] \in {1, 2}
                      /\ loaded[Creator[c]] = 1 => ~Alive(c)
    /\ Counting(c) => loaded[Creator[c]] = 1 /\ slot[c]
    /\ Alive(c) \/ pc[c] \in {"left", "epilog"} => current[c] = c

HandleTypes ==
    /\ ready \in [Domains -> {"off", "on", "null"}]
    /\ slot \in [Domains -> BOOLEAN]
    /\ live \in [Domains -> BOOLEAN]
    /\ count \in [Domains -> 0..2]
    /\ loaded \in [Domains -> 0..2]
    /\ current \in [Domains -> Domains \cup {None}]

HandleOK == HandleTypes /\ \A c \in Domains : DomainOK(c)

\* A thread in an operation is that of the creator of the target.
LEMMA HolderIsCreator ==
  ASSUME ControlOK, NEW d \in Domains, InOperation(d)
  PROVE  /\ Target(d) \in Domains \ {Base}
         /\ Creator[Target(d)] = d
         /\ Target(d) # d
  BY RemotingAssumption DEF ControlOK, ThreadOK, InOperation, OpPlaces, Target

LEMMA ReferencesHold ==
  ASSUME ControlOK, HandleOK
  PROVE  NeverDangles /\ ThreadKnowsItsDomain
  <1>1. \A d \in Domains : InDomain(d) => Target(d) \in Domains /\ Held(Target(d))
    BY HolderIsCreator DEF InDomain, InOperation, Held
  <1> QED BY <1>1 DEF HandleOK, DomainOK, NeverDangles, ThreadKnowsItsDomain

\* What the step of a thread leaves alone of the others.
Elsewhere(d) == \A e \in Domains \ {d} : /\ pc'[e] = pc[e] /\ op'[e] = op[e]
                                         /\ loaded'[e] = loaded[e]

\* A step that is neither the domain's own nor its creator's.
LEMMA OthersUntouched ==
  ASSUME NEW d \in Domains, Elsewhere(d),
         NEW c \in Domains, DomainOK(c), c # d, c = Base \/ Creator[c] # d,
         slot'[c] = slot[c], live'[c] = live[c], count'[c] = count[c],
         current'[c] = current[c]
  PROVE  DomainOK(c)'
  <1>1. c # Base => Creator[c] \in Domains \ {d} BY RemotingAssumption
  <1>2. /\ pc'[c] = pc[c] /\ loaded'[c] = loaded[c]
        /\ c # Base => /\ pc'[Creator[c]] = pc[Creator[c]]
                       /\ op'[Creator[c]] = op[Creator[c]]
                       /\ loaded'[Creator[c]] = loaded[Creator[c]]
    BY <1>1 DEF Elsewhere
  <1> QED BY <1>2 DEF DomainOK, Alive, InDomain, Held, Counting, Dropping, Letting,
                      Destroying, Target

\* The step is the domain's own, and its creator's thread stands still.
LEMMA CreatorStands ==
  ASSUME NEW d \in Domains, Elsewhere(d)
  PROVE  /\ Held(d)' = Held(d) /\ Counting(d)' = Counting(d)
         /\ Dropping(d)' = Dropping(d) /\ Letting(d)' = Letting(d)
         /\ Destroying(d)' = Destroying(d)
         /\ Dropping(d) => loaded'[Creator[d]] = loaded[Creator[d]]
         /\ Counting(d) => loaded'[Creator[d]] = loaded[Creator[d]]
  <1>1. d # Base => Creator[d] \in Domains \ {d} BY RemotingAssumption
  <1>2. d # Base => /\ pc'[Creator[d]] = pc[Creator[d]]
                    /\ op'[Creator[d]] = op[Creator[d]]
                    /\ loaded'[Creator[d]] = loaded[Creator[d]]
    BY <1>1 DEF Elsewhere
  <1> QED BY <1>2 DEF InDomain, Held, Counting, Dropping, Letting, Destroying, Target

\* A step that leaves the references alone and does not enter or leave a domain.
LEMMA HandleUntouched ==
  ASSUME ControlOK, HandleOK, NEW d \in Domains, UNCHANGED <<slot, counts, current>>,
         ready' \in [Domains -> {"off", "on", "null"}],
         NEW place, Goto(d, place),
         place \notin {"leave", "leaving", "left", "ref", "drop", "dropped", "destroy",
                        "epilog"},
         place \in {"none", "create"} => pc[d] \in {"none", "create"},
         Alive(d) <=> place \notin {"none", "create", "left", "epilog", "dead"},
         place \in {"import", "enqueue", "pulse", "pulsed", "await", "release"}
            <=> InDomain(d),
         InDomain(d) => op'[d].target = op[d].target,
         \A e \in Domains : e # d => op'[e] = op[e]
  PROVE  HandleOK'
  <1>1. pc'[d] = place /\ Elsewhere(d) BY DEF ControlOK, Goto, Elsewhere, counts
  <1>2. HandleTypes' BY DEF HandleOK, HandleTypes, counts
  <1>3. UNCHANGED <<slot, live, count, loaded, current>> BY DEF counts
  <1>4. /\ Alive(d)' = Alive(d) /\ InDomain(d)' = InDomain(d)
        /\ InDomain(d) => Target(d)' = Target(d)
    BY <1>1 DEF Alive, InDomain, Target
  <1>6. DomainOK(d)'
    <2>1. DomainOK(d) BY DEF HandleOK
    <2> QED BY <1>1, <1>3, <1>4, <2>1, CreatorStands DEF DomainOK
  <1>5. ASSUME NEW c \in Domains PROVE DomainOK(c)'
    <2>0. DomainOK(c) BY DEF HandleOK
    <2>1. CASE c = d BY <1>6, <2>1
    <2>2. CASE c # Base /\ Creator[c] = d
      <3>1. c # d /\ pc'[c] = pc[c] /\ loaded'[c] = loaded[c]
        BY <1>1, <2>2, RemotingAssumption DEF Elsewhere
      <3>2. /\ Held(c)' = Held(c) /\ ~Counting(c)' /\ ~Dropping(c)'
            /\ ~Letting(c)' /\ ~Destroying(c)'
        BY <1>1, <1>4, <2>2 DEF Held, Counting, Dropping, Letting, Destroying
      <3>3. Alive(c)' = Alive(c) BY <3>1 DEF Alive
      <3> QED BY <1>3, <2>0, <3>1, <3>2, <3>3 DEF DomainOK
    <2>3. CASE c # d /\ (c = Base \/ Creator[c] # d)
      BY <1>1, <1>3, <2>0, <2>3, OthersUntouched
    <2> QED BY <2>1, <2>2, <2>3
  <1> QED BY <1>2, <1>5 DEF HandleOK

\* What comes of comparing the count with 0.
LEMMA UnrefMeans ==
  ASSUME NEW d \in Domains, NEW zero \in BOOLEAN, Unreferenced(d, zero)
  PROVE  LET c == Dropped(d)
         IN /\ zero => /\ live' = [live EXCEPT ![c] = FALSE] /\ UNCHANGED op
                        /\ Goto(d, IF c = d THEN "epilog" ELSE "destroy")
            /\ ~zero => live' = live
            /\ ~zero /\ c = d => Goto(d, "dead") /\ UNCHANGED op
            /\ ~zero /\ c # d => EndOperation(d)
  <1>1. CASE zero BY <1>1 DEF Unreferenced
  <1>2. CASE ~zero BY <1>2 DEF Unreferenced
  <1> QED BY <1>1, <1>2

\* The thread of d stays alive and does not work inside its target.
LEMMA HandleMoves ==
  ASSUME ControlOK, HandleOK, NEW d \in Domains, UNCHANGED <<slot, counts, current>>,
         ready' \in [Domains -> {"off", "on", "null"}],
         Alive(d), ~InDomain(d),
         NEW place \in {"user", "unpublish", "answer", "answered", "signal",
                         "signalled", "ready?", "lock", "join", "poll",
                         "pollwait", "repoll", "dispatch"},
         Goto(d, place),
         \A e \in Domains : e # d => op'[e] = op[e]
  PROVE  HandleOK'
  BY HandleUntouched

\* The creator counts or drops a reference: only the target is left to look at.
LEMMA CreatorSteps ==
  ASSUME ControlOK, HandleOK, NEW d \in Domains, InOperation(d),
         NEW t \in Domains, t = Target(d),
         Elsewhere(d), UNCHANGED <<slot, current>>, HandleTypes',
         Alive(d)', pc'[d] \notin {"leaving", "leave"},
         pc'[d] \in {"ref", "drop", "dropped", "destroy"} \/ InDomain(d)' => op'[d] = op[d],
         \A e \in Domains \ {t} : live'[e] = live[e] /\ count'[e] = count[e],
         DomainOK(t)'
  PROVE  HandleOK'
  <1>1. t # Base /\ Creator[t] = d /\ t # d BY HolderIsCreator
  <1>3. DomainOK(d)'
    <2>0. DomainOK(d) BY DEF HandleOK
    <2>1. Alive(d) BY DEF Alive, InOperation
    <2>2. live'[d] = live[d] /\ count'[d] = count[d] BY <1>1
    <2> QED BY <2>0, <2>1, <2>2, CreatorStands DEF DomainOK, Alive
  <1>2. ASSUME NEW c \in Domains PROVE DomainOK(c)'
    <2>0. DomainOK(c) BY DEF HandleOK
    <2>1. CASE c = t BY <2>1
    <2>2. CASE c = d BY <1>3, <2>2
    <2>3. CASE c # t /\ c # Base /\ Creator[c] = d
      <3>1. c # d /\ pc'[c] = pc[c] /\ loaded'[c] = loaded[c]
        BY <2>3, RemotingAssumption DEF Elsewhere
      <3>2. /\ ~Held(c) /\ ~Held(c)' /\ ~Counting(c)' /\ ~Dropping(c)'
            /\ ~Letting(c)' /\ ~Destroying(c)'
        BY <2>3 DEF Held, Counting, Dropping, Letting, Destroying, Target
      <3>3. Alive(c)' = Alive(c) /\ live'[c] = live[c] /\ count'[c] = count[c]
        BY <2>3, <3>1 DEF Alive
      <3> QED BY <2>0, <3>1, <3>2, <3>3 DEF DomainOK
    <2>4. CASE c # t /\ c # d /\ (c = Base \/ Creator[c] # d)
      BY <2>0, <2>4, OthersUntouched
    <2> QED BY <2>1, <2>2, <2>3, <2>4
  <1> QED BY <1>2 DEF HandleOK

\* A thread of a domain that is in no operation enters or leaves its domain.
LEMMA OwnSteps ==
  ASSUME ControlOK, HandleOK, NEW d \in Domains, ~InOperation(d), ~InOperation(d)',
         Elsewhere(d), HandleTypes',
         \A e \in Domains \ {d} : /\ slot'[e] = slot[e] /\ live'[e] = live[e]
                                 /\ count'[e] = count[e] /\ current'[e] = current[e],
         DomainOK(d)'
  PROVE  HandleOK'
  <1>2. ASSUME NEW c \in Domains PROVE DomainOK(c)'
    <2>0. DomainOK(c) BY DEF HandleOK
    <2>1. CASE c = d BY <2>1
    <2>2. CASE c # Base /\ Creator[c] = d
      <3>1. c # d /\ pc'[c] = pc[c] /\ loaded'[c] = loaded[c]
        BY <2>2, RemotingAssumption DEF Elsewhere
      <3>2. /\ ~Held(c) /\ ~Held(c)' /\ ~Counting(c)' /\ ~Dropping(c)'
            /\ ~Letting(c)' /\ ~Destroying(c)'
        BY <2>2 DEF Held, Counting, Dropping, Letting, Destroying, InDomain, InOperation
      <3>3. /\ Alive(c)' = Alive(c) /\ live'[c] = live[c] /\ count'[c] = count[c]
            /\ slot'[c] = slot[c] /\ current'[c] = current[c]
        BY <3>1 DEF Alive
      <3> QED BY <2>0, <3>1, <3>2, <3>3 DEF DomainOK
    <2>3. CASE c # d /\ (c = Base \/ Creator[c] # d)
      BY <2>0, <2>3, OthersUntouched
    <2> QED BY <2>1, <2>2, <2>3
  <1> QED BY <1>2 DEF HandleOK

LEMMA RuntimeHandle ==
  ASSUME ControlOK, HandleOK, NEW d \in Domains, RuntimeStep(d)
  PROVE  HandleOK'
  <1>0. HandleTypes BY DEF HandleOK
  <1>a. ThreadOK(d, pc[d], op[d], serving[d]) BY DEF ControlOK
  <1>b. op \in [Domains -> Ops] BY DEF ControlOK
  <1> USE <1>0, <1>a, <1>b
  <1> DEFINE Others == \A e \in Domains : e # d => op'[e] = op[e]
  <1>1. CASE ResetReadiness(d)
    <2>1. /\ Goto(d, "user") /\ Others /\ Alive(d) /\ ~InDomain(d)
          /\ UNCHANGED <<slot, counts, current>>
          /\ ready' \in [Domains -> {"off", "on", "null"}]
      BY <1>1 DEF ResetReadiness, Alive, InDomain, HandleTypes, handle, control, mail, Finish
    <2> QED BY <2>1, HandleMoves
  <1>2. CASE DomainIsReady(d)
    <2>1. /\ Goto(d, "lock") /\ Others /\ Alive(d) /\ ~InDomain(d)
          /\ UNCHANGED <<slot, counts, current>>
          /\ ready' \in [Domains -> {"off", "on", "null"}]
      BY <1>2 DEF DomainIsReady, Alive, InDomain, HandleTypes, handle, control, mail, Finish
    <2> QED BY <2>1, HandleMoves
  <1>3. CASE Join(d)
    <2>1. /\ Goto(d, "user") /\ Others /\ Alive(d) /\ ~InDomain(d)
          /\ UNCHANGED <<slot, counts, current>>
          /\ ready' \in [Domains -> {"off", "on", "null"}]
      BY <1>3 DEF Join, Alive, InDomain, HandleTypes, handle, control, mail, Finish
    <2> QED BY <2>1, HandleMoves
  <1>4. CASE RetrieveNothing(d)
    <2>1. /\ Goto(d, IF pc[d] = "poll" THEN "pollwait" ELSE "poll") /\ Others /\ Alive(d) /\ ~InDomain(d)
          /\ UNCHANGED <<slot, counts, current>>
          /\ ready' \in [Domains -> {"off", "on", "null"}]
      BY <1>4 DEF RetrieveNothing, Alive, InDomain, HandleTypes, handle, control, mail, Finish
    <2> QED BY <2>1, HandleMoves
  <1>5. CASE NewMessage(d)
    <2>1. /\ Goto(d, "repoll") /\ Others /\ Alive(d) /\ ~InDomain(d)
          /\ UNCHANGED <<slot, counts, current>>
          /\ ready' \in [Domains -> {"off", "on", "null"}]
      BY <1>5 DEF NewMessage, Alive, InDomain, HandleTypes, handle, control, mail, Finish
    <2> QED BY <2>1, HandleMoves
  <1>6. CASE PollTimeout(d)
    <2>1. /\ Goto(d, "poll") /\ Others /\ Alive(d) /\ ~InDomain(d)
          /\ UNCHANGED <<slot, counts, current>>
          /\ ready' \in [Domains -> {"off", "on", "null"}]
      BY <1>6 DEF PollTimeout, Alive, InDomain, HandleTypes, handle, control, mail, Finish
    <2> QED BY <2>1, HandleMoves
  <1>7. CASE CallStub(d)
    <2>1. /\ Goto(d, "user") /\ Others /\ Alive(d) /\ ~InDomain(d)
          /\ UNCHANGED <<slot, counts, current>>
          /\ ready' \in [Domains -> {"off", "on", "null"}]
      BY <1>7 DEF CallStub, Alive, InDomain, HandleTypes, handle, control, mail, Finish
    <2> QED BY <2>1, HandleMoves
  <1>8. CASE Refuse(d)
    <2>1. /\ Goto(d, "answer") /\ Others /\ Alive(d) /\ ~InDomain(d)
          /\ UNCHANGED <<slot, counts, current>>
          /\ ready' \in [Domains -> {"off", "on", "null"}]
      BY <1>8 DEF Refuse, Alive, InDomain, HandleTypes, handle, control, mail, Finish
    <2> QED BY <2>1, HandleMoves
  <1>9. CASE Retrieve(d)
    <2>1. /\ Goto(d, "dispatch") /\ Others /\ Alive(d) /\ ~InDomain(d)
          /\ UNCHANGED <<slot, counts, current>>
          /\ ready' \in [Domains -> {"off", "on", "null"}]
      BY <1>9 DEF Retrieve, Alive, InDomain, HandleTypes, handle, control, mail, Finish
    <2> QED BY <2>1, HandleMoves
  <1>10. CASE ResetAnswer(d)
    <2>1. /\ Goto(d, "poll") /\ Others /\ Alive(d) /\ ~InDomain(d)
          /\ UNCHANGED <<slot, counts, current>>
          /\ ready' \in [Domains -> {"off", "on", "null"}]
      BY <1>10 DEF ResetAnswer, Alive, InDomain, HandleTypes, handle, control, mail, Finish
    <2> QED BY <2>1, HandleMoves
  <1>11. CASE Forget(d)
    <2>1. /\ Goto(d, "poll") /\ Others /\ Alive(d) /\ ~InDomain(d)
          /\ UNCHANGED <<slot, counts, current>>
          /\ ready' \in [Domains -> {"off", "on", "null"}]
      BY <1>11 DEF Forget, Alive, InDomain, HandleTypes, handle, control, mail, Finish
    <2> QED BY <2>1, HandleMoves
  <1>12. CASE SignalDomainIsReady(d)
    <2>1. /\ Goto(d, IF Win32 THEN "user" ELSE "signalled") /\ Others /\ Alive(d) /\ ~InDomain(d)
          /\ UNCHANGED <<slot, counts, current>>
          /\ ready' \in [Domains -> {"off", "on", "null"}]
      BY <1>12 DEF SignalDomainIsReady, Alive, InDomain, HandleTypes, handle, control, mail, Finish
    <2> QED BY <2>1, HandleMoves
  <1>13. CASE Answer(d)
    <2>1. /\ Goto(d, IF Win32 THEN "poll" ELSE "answered") /\ Others /\ Alive(d) /\ ~InDomain(d)
          /\ UNCHANGED <<slot, counts, current>>
          /\ ready' \in [Domains -> {"off", "on", "null"}]
      BY <1>13 DEF Answer, Alive, InDomain, HandleTypes, handle, control, mail, Finish
    <2> QED BY <2>1, HandleMoves
  <1>14. CASE ReadinessTimeout(d)
    <2>1. /\ Others /\ Alive(d) /\ ~InDomain(d)
          /\ UNCHANGED <<slot, counts, current>>
          /\ ready' \in [Domains -> {"off", "on", "null"}]
      BY <1>14 DEF ReadinessTimeout, Alive, InDomain, HandleTypes, handle, Finish
    <2>2. \E place \in {"user", "unpublish", "answer"} : Goto(d, place)
      BY <1>14 DEF ReadinessTimeout, Abort
    <2> QED BY <2>1, <2>2, HandleMoves
  <1>15. CASE DomainIsGone(d)
    <2>1. /\ Others /\ Alive(d) /\ ~InDomain(d)
          /\ UNCHANGED <<slot, counts, current>>
          /\ ready' \in [Domains -> {"off", "on", "null"}]
      BY <1>15 DEF DomainIsGone, Alive, InDomain, HandleTypes, handle, Finish
    <2>2. \E place \in {"user", "unpublish", "answer"} : Goto(d, place)
      BY <1>15 DEF DomainIsGone, Abort
    <2> QED BY <2>1, <2>2, HandleMoves
  <1>16. CASE ImportObject(d)
    <2>1. /\ Goto(d, "release") /\ Others /\ Alive(d) /\ InDomain(d)
          /\ op'[d].target = op[d].target
          /\ UNCHANGED <<slot, counts, current>>
          /\ ready' \in [Domains -> {"off", "on", "null"}]
      BY <1>16 DEF ImportObject, Alive, InDomain, HandleTypes, handle, control, mail
    <2> QED BY <2>1, HandleUntouched DEF Sent
  <1>17. CASE Enqueue(d)
    <2>1. /\ Goto(d, "pulse") /\ Others /\ Alive(d) /\ InDomain(d)
          /\ op'[d].target = op[d].target
          /\ UNCHANGED <<slot, counts, current>>
          /\ ready' \in [Domains -> {"off", "on", "null"}]
      BY <1>17 DEF Enqueue, Alive, InDomain, HandleTypes, handle, control, mail
    <2> QED BY <2>1, HandleUntouched DEF Sent
  <1>18. CASE PulseQueue(d)
    <2>1. /\ Goto(d, IF Win32 THEN Sent(d) ELSE "pulsed") /\ Others /\ Alive(d) /\ InDomain(d)
          /\ op'[d].target = op[d].target
          /\ UNCHANGED <<slot, counts, current>>
          /\ ready' \in [Domains -> {"off", "on", "null"}]
      BY <1>18 DEF PulseQueue, Alive, InDomain, HandleTypes, handle, control, mail
    <2> QED BY <2>1, HandleUntouched DEF Sent
  <1>19. CASE ResetQueuePulse(d)
    <2>1. /\ Goto(d, Sent(d)) /\ Others /\ Alive(d) /\ InDomain(d)
          /\ op'[d].target = op[d].target
          /\ UNCHANGED <<slot, counts, current>>
          /\ ready' \in [Domains -> {"off", "on", "null"}]
      BY <1>19 DEF ResetQueuePulse, Alive, InDomain, HandleTypes, handle, control, mail
    <2> QED BY <2>1, HandleUntouched DEF Sent
  <1>20. CASE ResultArrives(d)
    <2>1. /\ Goto(d, "release") /\ Others /\ Alive(d) /\ InDomain(d)
          /\ op'[d].target = op[d].target
          /\ UNCHANGED <<slot, counts, current>>
          /\ ready' \in [Domains -> {"off", "on", "null"}]
      BY <1>20 DEF ResultArrives, Alive, InDomain, HandleTypes, handle, control, mail
    <2> QED BY <2>1, HandleUntouched DEF Sent
  <1>21. CASE ResultTimeout(d)
    <2>1. /\ Goto(d, "release") /\ Others /\ Alive(d) /\ InDomain(d)
          /\ op'[d].target = op[d].target
          /\ UNCHANGED <<slot, counts, current>>
          /\ ready' \in [Domains -> {"off", "on", "null"}]
      BY <1>21 DEF ResultTimeout, Alive, InDomain, HandleTypes, handle, control, mail
    <2> QED BY <2>1, HandleUntouched DEF Sent
  <1>22. CASE CreateDomainFails(d)
    <2>1. /\ Goto(d, "dead") /\ Others /\ ~Alive(d) /\ ~InDomain(d)
          /\ UNCHANGED <<slot, counts, current>>
          /\ ready' \in [Domains -> {"off", "on", "null"}]
      BY <1>22 DEF CreateDomainFails, Alive, InDomain, HandleTypes, handle
    <2> QED BY <2>1, HandleUntouched
  <1>c. \A place : Goto(d, place) => /\ pc'[d] = place
                                    /\ \A e \in Domains : e # d => pc'[e] = pc[e]
    BY DEF ControlOK, Goto
  <1>d. DomainOK(d) BY DEF HandleOK
  <1>23. CASE CreateDomain(d)
    <2>1. /\ pc[d] = "create" /\ pc'[d] = "publish" /\ UNCHANGED <<op, slot, ready, loaded>>
          /\ live' = [live EXCEPT ![d] = TRUE]
          /\ count' = [count EXCEPT ![d] = 1]
          /\ current' = [current EXCEPT ![d] = d]
      BY <1>23, <1>c DEF CreateDomain
    <2>2. Elsewhere(d) BY <1>23, <1>c, <2>1 DEF CreateDomain, Elsewhere
    <2>3. HandleTypes' BY <2>1 DEF HandleTypes
    <2>4. DomainOK(d)'
      <3>1. live'[d] /\ count'[d] = 1 /\ current'[d] = d BY <2>1 DEF HandleTypes
      <3>2. /\ ~Held(d) /\ ~slot[d] /\ ~Counting(d) /\ ~Dropping(d)
            /\ ~Letting(d) /\ ~Destroying(d)
        BY <1>d, <2>1 DEF DomainOK, Alive, Held, Dropping, Letting, Destroying, InDomain
      <3> QED BY <2>1, <2>2, <3>1, <3>2, CreatorStands DEF DomainOK, Alive
    <2> QED BY <2>1, <2>2, <2>3, <2>4, OwnSteps DEF InOperation, HandleTypes
  <1>24. CASE SetDomain(d)
    <2>1. /\ pc[d] = "publish" /\ pc'[d] = "signal"
          /\ UNCHANGED <<op, live, count, loaded, ready, current>>
          /\ slot' = [slot EXCEPT ![d] = TRUE]
      BY <1>24, <1>c DEF SetDomain, counts
    <2>2. Elsewhere(d) BY <1>24, <1>c, <2>1 DEF SetDomain, Elsewhere
    <2>3. HandleTypes' BY <2>1 DEF HandleTypes
    <2>4. DomainOK(d)'
      <3>1. slot'[d] BY <2>1 DEF HandleTypes
      <3> QED BY <1>d, <2>1, <2>2, <3>1, CreatorStands DEF DomainOK, Alive
    <2> QED BY <2>1, <2>2, <2>3, <2>4, OwnSteps DEF InOperation, HandleTypes
  <1>25. CASE ClearDomain(d)
    <2>1. /\ pc[d] = "unpublish" /\ pc'[d] = "leave"
          /\ UNCHANGED <<op, live, count, loaded, ready, current>>
          /\ slot' = [slot EXCEPT ![d] = FALSE]
      BY <1>25, <1>c DEF ClearDomain, counts
    <2>2. Elsewhere(d) BY <1>25, <1>c, <2>1 DEF ClearDomain, Elsewhere
    <2>3. HandleTypes' BY <2>1 DEF HandleTypes
    <2>4. DomainOK(d)'
      <3>1. ~slot'[d] BY <2>1 DEF HandleTypes
      <3>2. ~Counting(d)
        <4>1. d # Base => Creator[d] \in Domains BY RemotingAssumption
        <4> QED BY <1>25, <4>1 DEF ClearDomain, Counting, Target
      <3> QED BY <1>d, <2>1, <2>2, <3>1, <3>2, CreatorStands DEF DomainOK, Alive
    <2> QED BY <2>1, <2>2, <2>3, <2>4, OwnSteps DEF InOperation, HandleTypes
  <1>26. CASE LeaveThread(d)
    <2>1. /\ pc[d] = "leave" /\ pc'[d] = "leaving"
          /\ UNCHANGED <<op, slot, live, count, ready, current>>
          /\ loaded' = [loaded EXCEPT ![d] = count[d]]
      BY <1>26, <1>c DEF LeaveThread, LoadCount
    <2>2. Elsewhere(d) BY <1>26, <1>c, <2>1 DEF LeaveThread, Elsewhere, HandleTypes
    <2>3. HandleTypes' BY <2>1 DEF HandleTypes
    <2>4. DomainOK(d)'
      <3>1. loaded'[d] = count[d] BY <2>1 DEF HandleTypes
      <3> QED BY <1>d, <2>1, <2>2, <3>1, CreatorStands DEF DomainOK, Alive
    <2> QED BY <2>1, <2>2, <2>3, <2>4, OwnSteps DEF InOperation, HandleTypes
  <1>t. PICK t \in Domains :
           InOperation(d) => /\ t = Target(d) /\ t # Base
                             /\ Creator[t] = d /\ t # d
    BY HolderIsCreator
  <1>f. DomainOK(t) BY DEF HandleOK
  <1>e. ASSUME t # d, NEW place, Goto(d, place)
        PROVE  Alive(t)' = Alive(t) /\ pc'[t] = pc[t]
    BY <1>c, <1>e DEF Alive
  <1>27. CASE GetDomain(d)
    <2>1. CASE op[d].kind = "wait"
      <3>1. /\ Goto(d, "join") /\ Others /\ Alive(d) /\ ~InDomain(d)
            /\ UNCHANGED <<slot, counts, current>>
            /\ ready' \in [Domains -> {"off", "on", "null"}]
        BY <1>27, <2>1 DEF GetDomain, Alive, InDomain, HandleTypes
      <3> QED BY <3>1, HandleMoves
    <2>2. CASE op[d].kind # "wait"
      <3>0. pc[d] = "lock" /\ InOperation(d) BY <1>27 DEF GetDomain, InOperation
      <3>1. /\ slot[t] /\ Goto(d, "ref") /\ pc'[d] = "ref"
            /\ UNCHANGED <<op, slot, ready, current, live, count>>
            /\ loaded' = [loaded EXCEPT ![d] = count[t]]
        BY <1>27, <2>2, <3>0, <1>t, <1>c DEF GetDomain, LoadCount
      <3>3. Elsewhere(d) BY <3>1, <1>c DEF Elsewhere, HandleTypes
      <3>4. HandleTypes' BY <3>1 DEF HandleTypes
      <3>5. DomainOK(t)'
        <4>1. loaded'[d] = count[t] /\ pc'[t] = pc[t] /\ loaded'[t] = loaded[t]
          BY <3>0, <3>1, <3>3, <1>t DEF HandleTypes, Elsewhere
        <4>2. /\ ~Held(t) /\ ~Held(t)' /\ ~Dropping(t)'
              /\ ~Letting(t)' /\ ~Destroying(t)'
          BY <3>0, <3>1, <1>t DEF Held, Dropping, Letting, Destroying, InDomain
        <4>3. Alive(t) /\ Alive(t)' BY <1>e, <1>t, <1>f, <3>0, <3>1 DEF DomainOK
        <4> QED BY <1>t, <1>f, <3>0, <3>1, <4>1, <4>2, <4>3 DEF DomainOK, Alive
      <3> QED BY <1>t, <3>0, <3>1, <3>3, <3>4, <3>5, CreatorSteps DEF InDomain, Alive
    <2> QED BY <2>1, <2>2
  <1>28. CASE CountReference(d)
    <2>0. pc[d] = "ref" /\ InOperation(d) BY <1>28 DEF CountReference, InOperation
    <2>1. /\ Goto(d, Got(d)) /\ pc'[d] = Got(d)
          /\ UNCHANGED <<op, slot, ready, current, live>>
          /\ count' = [count EXCEPT ![t] = loaded[d] + 1]
          /\ loaded' = [loaded EXCEPT ![d] = 0]
      BY <1>28, <2>0, <1>t, <1>c DEF CountReference
    <2>2. Got(d) \in {"import", "enqueue", "release"} BY DEF Got
    <2>3. Elsewhere(d) BY <2>1, <1>c DEF Elsewhere, HandleTypes
    <2>4. Counting(t) /\ ~Held(t) BY <2>0, <1>t DEF Counting, Held, InDomain
    <2>5. loaded[d] = 1 /\ slot[t] /\ Alive(t) BY <1>f, <1>t, <2>0, <2>4 DEF DomainOK
    <2>6. HandleTypes' BY <2>1, <2>5 DEF HandleTypes
    <2>7. DomainOK(t)'
      <3>1. count'[t] = 2 BY <2>1, <2>5 DEF HandleTypes
      <3>5. Held(t)' /\ pc'[t] = pc[t]
        BY <2>0, <2>1, <2>2, <1>t, <1>e DEF Held, InDomain, Target
      <3>2. ~Dropping(t)' /\ ~Counting(t)' /\ ~Letting(t)' /\ ~Destroying(t)'
        BY <2>0, <2>1, <2>2, <1>t DEF Dropping, Counting, Letting, Destroying
      <3>3. Alive(t)' BY <1>e, <1>t, <2>0, <2>1, <2>5
      <3>4. slot'[t] = slot[t] /\ live'[t] = live[t] /\ current'[t] = current[t] BY <2>1
      <3> QED BY <1>f, <2>5, <3>1, <3>2, <3>3, <3>4, <3>5 DEF DomainOK, Alive
    <2>8. Alive(d)' /\ pc'[d] \notin {"leaving", "leave"} BY <2>1, <2>2 DEF Alive
    <2>9. \A e \in Domains \ {t} : live'[e] = live[e] /\ count'[e] = count[e]
      BY <2>1 DEF HandleTypes
    <2> QED BY <1>t, <2>0, <2>1, <2>3, <2>6, <2>7, <2>8, <2>9, CreatorSteps
  <1>29. CASE Release(d)
    <2>0. pc[d] = "release" /\ InOperation(d) BY <1>29 DEF Release, InOperation
    <2>1. /\ Goto(d, "drop") /\ pc'[d] = "drop"
          /\ UNCHANGED <<op, slot, ready, current, live, count>>
          /\ loaded' = [loaded EXCEPT ![d] = count[t]]
      BY <1>29, <2>0, <1>t, <1>c DEF Release, LoadCount
    <2>3. Elsewhere(d) BY <2>1, <1>c DEF Elsewhere, HandleTypes
    <2>4. HandleTypes' BY <2>1 DEF HandleTypes
    <2>5. DomainOK(t)'
      <3>1. loaded'[d] = count[t] /\ pc'[t] = pc[t] /\ loaded'[t] = loaded[t]
        BY <2>0, <2>1, <2>3, <1>t DEF HandleTypes, Elsewhere
      <3>2. /\ Held(t) /\ Held(t)' /\ ~Counting(t)'
            /\ ~Letting(t)' /\ ~Destroying(t)'
        BY <2>0, <2>1, <1>t DEF Held, Counting, Letting, Destroying, InDomain, Target
      <3>3. Alive(t)' = Alive(t) BY <1>e, <1>t, <2>0, <2>1
      <3> QED BY <1>t, <1>f, <2>0, <2>1, <3>1, <3>2, <3>3 DEF DomainOK
    <2> QED BY <1>t, <2>0, <2>1, <2>3, <2>4, <2>5, CreatorSteps DEF InDomain, Alive
  <1>30. CASE (Drop(d) \/ Reread(d)) /\ pc[d] \in {"leaving", "left"}
    <2>0. Dropped(d) = d /\ ~InOperation(d)
      BY <1>30, WhichDropped DEF LeavePlaces, InOperation
    <2>1. /\ UNCHANGED <<op, slot, ready, current>>
          /\ pc'[d] \in {"left", "epilog", "dead"} /\ \A e \in Domains : e # d => pc'[e] = pc[e]
          /\ IF pc[d] = "leaving"
             THEN count' = [count EXCEPT ![d] = loaded[d] - 1] /\ loaded' = [loaded EXCEPT ![d] = 0]
             ELSE UNCHANGED <<count, loaded>>
          /\ \/ live' = live /\ pc'[d] # "epilog"
             \/ /\ live' = [live EXCEPT ![d] = FALSE]
                /\ pc[d] = "leaving" => loaded[d] = 1
                /\ pc[d] = "left" /\ live[d] => count[d] = 0
      <3>1. CASE Drop(d) /\ Rereads BY <1>30, <1>c, <2>0, <3>1 DEF Drop
      <3>2. CASE Drop(d) /\ ~Rereads
        <4>1. Unreferenced(d, loaded[d] = 1) BY <3>2 DEF Drop
        <4>2. CASE loaded[d] = 1
          <5>1. /\ live' = [live EXCEPT ![d] = FALSE] /\ UNCHANGED op
                /\ Goto(d, "epilog")
            BY <2>0, <4>1, <4>2, UnrefMeans
          <5> QED BY <1>30, <1>c, <2>0, <3>2, <4>2, <5>1 DEF Drop
        <4>3. CASE loaded[d] # 1
          <5>1. live' = live /\ UNCHANGED op /\ Goto(d, "dead")
            BY <2>0, <4>1, <4>3, UnrefMeans
          <5> QED BY <1>30, <1>c, <2>0, <3>2, <5>1 DEF Drop
        <4> QED BY <4>2, <4>3
      <3>3. CASE Reread(d)
        <4>1. PICK zero \in IF live[d] THEN {count[d] = 0} ELSE BOOLEAN :
                 Unreferenced(d, zero)
          BY <2>0, <3>3 DEF Reread
        <4>2. CASE zero = TRUE
          <5>1. /\ live' = [live EXCEPT ![d] = FALSE] /\ UNCHANGED op
                /\ Goto(d, "epilog") /\ (live[d] => count[d] = 0)
            BY <2>0, <4>1, <4>2, UnrefMeans
          <5> QED BY <1>30, <1>c, <2>0, <3>3, <5>1 DEF Reread
        <4>3. CASE zero = FALSE
          <5>1. live' = live /\ UNCHANGED op /\ Goto(d, "dead")
            BY <2>0, <4>1, <4>3, UnrefMeans
          <5> QED BY <1>30, <1>c, <2>0, <3>3, <5>1 DEF Reread
        <4> QED BY <4>1, <4>2, <4>3
      <3> QED BY <1>30, <3>1, <3>2, <3>3
    <2>2. Elsewhere(d)
      <3>1. \A e \in Domains : e # d => loaded'[e] = loaded[e]
        BY <2>1 DEF HandleTypes
      <3> QED BY <2>1, <3>1 DEF Elsewhere
    <2>3. pc[d] = "leaving" => loaded[d] \in {1, 2} BY <1>d DEF DomainOK
    <2>4. HandleTypes'
      <3>1. pc[d] = "leaving" => loaded[d] - 1 \in 0..2 BY <2>3
      <3>2. count' \in [Domains -> 0..2] /\ loaded' \in [Domains -> 0..2]
        BY <2>1, <3>1 DEF HandleTypes
      <3>3. live' \in [Domains -> BOOLEAN] BY <2>1 DEF HandleTypes
      <3> QED BY <2>1, <3>2, <3>3 DEF HandleTypes
    <2>5. DomainOK(d)'
      <3>1. ~slot[d] /\ ~Counting(d) /\ current[d] = d
        BY <1>30, <1>d DEF DomainOK, Alive
      <3>2. ~Alive(d)' BY <2>1 DEF Alive
      <3>3. Held(d) => live'[d] /\ count'[d] = 1
        <4>1. CASE pc[d] = "leaving"
          <5>1. Held(d) => loaded[d] = 2 /\ live[d]
            BY <1>d, <2>3, <4>1 DEF DomainOK
          <5> QED BY <2>1, <4>1, <5>1 DEF HandleTypes
        <4>2. CASE pc[d] = "left"
          <5>1. Held(d) => live[d] /\ count[d] = 1 BY <1>d, <4>2 DEF DomainOK, Alive
          <5> QED BY <2>1, <4>2, <5>1 DEF HandleTypes
        <4> QED BY <1>30, <4>1, <4>2
      <3>4. (~live[d] => ~live'[d]) /\ (pc'[d] = "epilog" => ~live'[d])
        BY <2>1 DEF HandleTypes
      <3>5. pc'[d] \notin {"none", "create", "leaving"} BY <2>1
      <3> QED BY <1>30, <1>d, <2>1, <2>2, <3>1, <3>2, <3>3, <3>4, <3>5, CreatorStands
              DEF DomainOK
    <2>6. \A e \in Domains \ {d} : /\ slot'[e] = slot[e] /\ live'[e] = live[e]
                                   /\ count'[e] = count[e] /\ current'[e] = current[e]
      BY <2>1 DEF HandleTypes
    <2>7. ~InOperation(d)' BY <2>1 DEF InOperation
    <2> QED BY <2>0, <2>2, <2>4, <2>5, <2>6, <2>7, OwnSteps
  <1>31. CASE (Drop(d) \/ Reread(d)) /\ pc[d] \in {"drop", "dropped"}
    <2>0. Dropped(d) = t /\ InOperation(d) /\ t # d /\ t # Base /\ Creator[t] = d
      BY <1>31, <1>t, WhichDropped DEF DropPlaces, InOperation
    <2>1. /\ UNCHANGED <<slot, ready, current>> /\ Others
          /\ pc'[d] \in {"dropped", "destroy", "user", "unpublish", "answer"}
          /\ \A e \in Domains : e # d => pc'[e] = pc[e]
          /\ IF pc[d] = "drop"
             THEN count' = [count EXCEPT ![t] = loaded[d] - 1] /\ loaded' = [loaded EXCEPT ![d] = 0]
             ELSE UNCHANGED <<count, loaded>>
          /\ pc'[d] \in {"dropped", "destroy"} => op' = op
          /\ \/ live' = live /\ pc'[d] # "destroy"
             \/ /\ live' = [live EXCEPT ![t] = FALSE]
                /\ pc[d] = "drop" => loaded[d] = 1
                /\ pc[d] = "dropped" /\ live[t] => count[t] = 0
      <3>e. ASSUME EndOperation(d)
            PROVE  Others /\ \E place \in {"user", "unpublish", "answer"} :
                                  Goto(d, place) /\ pc'[d] = place
        BY <3>e, <1>c DEF EndOperation, Finish, Abort
      <3>1. CASE Drop(d) /\ Rereads BY <1>31, <1>c, <2>0, <3>1 DEF Drop
      <3>2. CASE Drop(d) /\ ~Rereads
        <4>1. Unreferenced(d, loaded[d] = 1) BY <3>2 DEF Drop
        <4>2. CASE loaded[d] = 1
          <5>1. /\ live' = [live EXCEPT ![t] = FALSE] /\ UNCHANGED op
                /\ Goto(d, "destroy")
            BY <2>0, <4>1, <4>2, UnrefMeans
          <5> QED BY <1>31, <1>c, <2>0, <3>2, <4>2, <5>1 DEF Drop
        <4>3. CASE loaded[d] # 1
          <5>1. live' = live /\ EndOperation(d) BY <2>0, <4>1, <4>3, UnrefMeans
          <5> QED BY <1>31, <1>c, <2>0, <3>2, <3>e, <5>1 DEF Drop
        <4> QED BY <4>2, <4>3
      <3>3. CASE Reread(d)
        <4>1. PICK zero \in IF live[t] THEN {count[t] = 0} ELSE BOOLEAN :
                 Unreferenced(d, zero)
          BY <2>0, <3>3 DEF Reread
        <4>2. CASE zero = TRUE
          <5>1. /\ live' = [live EXCEPT ![t] = FALSE] /\ UNCHANGED op
                /\ Goto(d, "destroy") /\ (live[t] => count[t] = 0)
            BY <2>0, <4>1, <4>2, UnrefMeans
          <5> QED BY <1>31, <1>c, <2>0, <3>3, <5>1 DEF Reread
        <4>3. CASE zero = FALSE
          <5>1. live' = live /\ EndOperation(d) BY <2>0, <4>1, <4>3, UnrefMeans
          <5> QED BY <1>31, <1>c, <2>0, <3>3, <3>e, <5>1 DEF Reread
        <4> QED BY <4>1, <4>2, <4>3
      <3> QED BY <1>31, <3>1, <3>2, <3>3
    <2>2. Elsewhere(d)
      <3>1. \A e \in Domains : e # d => loaded'[e] = loaded[e]
        BY <2>1 DEF HandleTypes
      <3> QED BY <2>1, <3>1 DEF Elsewhere
    <2>3. pc[d] = "drop" => /\ loaded[d] \in {1, 2}
                            /\ loaded[d] = 1 => ~Alive(t)
      BY <1>f, <1>t, <2>0 DEF DomainOK, Dropping
    <2>4. HandleTypes'
      <3>1. pc[d] = "drop" => loaded[d] - 1 \in 0..2 BY <2>3
      <3>2. count' \in [Domains -> 0..2] /\ loaded' \in [Domains -> 0..2]
        BY <2>1, <3>1 DEF HandleTypes
      <3>3. live' \in [Domains -> BOOLEAN] BY <2>1 DEF HandleTypes
      <3> QED BY <2>1, <3>2, <3>3 DEF HandleTypes
    <2>5. DomainOK(t)'
      <3>1. ~Held(t)' /\ ~Counting(t)' /\ ~Dropping(t)'
        BY <2>0, <2>1 DEF Held, Counting, Dropping, InDomain
      <3>2. /\ Alive(t)' = Alive(t) /\ pc'[t] = pc[t] /\ loaded'[t] = loaded[t]
            /\ slot'[t] = slot[t] /\ current'[t] = current[t]
        BY <2>0, <2>1, <2>2 DEF Elsewhere, Alive
      <3>3. Alive(t) => live'[t] /\ count'[t] = 1
        <4>1. CASE pc[d] = "drop"
          <5>1. Alive(t) => loaded[d] = 2 /\ live[t] BY <1>f, <2>3, <4>1 DEF DomainOK
          <5> QED BY <2>1, <4>1, <5>1 DEF HandleTypes
        <4>2. CASE pc[d] = "dropped"
          <5>1. ~Held(t) BY <2>0, <4>2 DEF Held, InDomain
          <5>2. Alive(t) => live[t] /\ count[t] = 1 BY <1>f, <5>1 DEF DomainOK
          <5> QED BY <2>1, <4>2, <5>2 DEF HandleTypes
        <4> QED BY <1>31, <4>1, <4>2
      <3>4. /\ ~live[t] => ~live'[t]
            /\ Destroying(t)' => ~live'[t]
        BY <2>0, <2>1 DEF HandleTypes, Destroying
      <3>5. pc[t] \notin {"none", "create"}
        <4>1. Held(t) \/ Letting(t)
          BY <1>31, <1>t, <2>0 DEF Held, Letting, InDomain
        <4> QED BY <1>f, <4>1 DEF DomainOK
      <3> QED BY <1>f, <3>1, <3>2, <3>3, <3>4, <3>5 DEF DomainOK
    <2>6. \A e \in Domains \ {t} : live'[e] = live[e] /\ count'[e] = count[e]
      BY <2>1 DEF HandleTypes
    <2>7. /\ Alive(d)' /\ pc'[d] \notin {"leaving", "leave", "ref", "drop"}
          /\ ~InDomain(d)'
      BY <2>1 DEF Alive, InDomain
    <2> QED BY <1>t, <2>0, <2>1, <2>2, <2>4, <2>5, <2>6, <2>7, CreatorSteps
  <1>32. Drop(d) \/ Reread(d) => pc[d] \in {"drop", "dropped", "leaving", "left"}
    BY DEF Drop, Reread
  <1> QED
    BY <1>1, <1>2, <1>3, <1>4, <1>5, <1>6, <1>7, <1>8, <1>9, <1>10, <1>11, <1>12, <1>13, <1>14, <1>15, <1>16, <1>17, <1>18, <1>19, <1>20, <1>21, <1>22, <1>23, <1>24, <1>25, <1>26, <1>27, <1>28, <1>29, <1>30, <1>31, <1>32 DEF RuntimeStep

LEMMA UserHandle ==
  ASSUME ControlOK, HandleOK, NEW d \in Domains, UserStep(d)
  PROVE  HandleOK'
  <1>0. HandleTypes BY DEF HandleOK
  <1> USE <1>0
  <1>1. ASSUME NEW c \in Domains \ {Base}, CreateRemoteDomain(d, c)
        PROVE  HandleOK'
    <2>1. /\ Goto(c, "create") /\ pc[c] = "none" /\ ~Alive(c) /\ ~InDomain(c)
          /\ UNCHANGED <<op, slot, counts, current>>
          /\ ready' \in [Domains -> {"off", "on", "null"}]
      BY <1>1 DEF CreateRemoteDomain, Alive, InDomain, HandleTypes, handle
    <2> QED BY <2>1, HandleUntouched
  <1>2. ASSUME NEW c \in Domains \ {Base}, NEW kind \in Kinds, Begin(d, c, kind)
        PROVE  HandleOK'
    <2>1. /\ Goto(d, "ready?") /\ Alive(d) /\ ~InDomain(d)
          /\ UNCHANGED <<slot, counts, current>>
          /\ ready' \in [Domains -> {"off", "on", "null"}]
      BY <1>2 DEF Begin, Alive, InDomain, HandleTypes, handle
    <2>2. \A e \in Domains : e # d => op'[e] = op[e] BY <1>2 DEF Begin, ControlOK
    <2> QED BY <2>1, <2>2, HandleMoves
  <1>3. CASE Export(d) \/ Unexport(d)
    <2>1. UNCHANGED <<pc, op, handle>> BY <1>3 DEF Export, Unexport, control
    <2> QED BY <2>1 DEF handle, counts, HandleOK, HandleTypes, DomainOK, Alive,
                        InDomain, Held, Counting, Dropping, Letting, Destroying, Target
  <1>4. CASE \/ Listen(d) \/ StopListening(d) \/ StubReturns(d)
             \/ ReturnFromMain(d) \/ AbortInUserCode(d)
    <2>1. /\ Alive(d) /\ ~InDomain(d) /\ UNCHANGED <<op, slot, counts, current>>
          /\ ready' \in [Domains -> {"off", "on", "null"}]
      BY <1>4 DEF Listen, StopListening, StubReturns, ReturnFromMain, AbortInUserCode,
                  Alive, InDomain, HandleTypes, handle
    <2>2. \E place \in {"user", "unpublish", "answer", "poll"} : Goto(d, place)
      BY <1>4 DEF Listen, StopListening, StubReturns, ReturnFromMain, AbortInUserCode,
                  Abort
    <2> QED BY <2>1, <2>2, HandleMoves
  <1>5. CASE EndDestroy(d)
    <2>0. \A place : Goto(d, place) => /\ pc'[d] = place
                                      /\ \A e \in Domains : e # d => pc'[e] = pc[e]
      BY DEF ControlOK, Goto
    <2>1. CASE pc[d] = "epilog"
      <3>0. Dropped(d) = d BY <2>1, WhichDropped DEF LeavePlaces
      <3>1. /\ pc'[d] = "dead" /\ UNCHANGED <<op, slot, live, count, loaded, ready>>
            /\ \A e \in Domains : e # d => pc'[e] = pc[e]
            /\ current' = [current EXCEPT ![d] = None]
        BY <1>5, <2>0, <3>0 DEF EndDestroy, counts
      <3>2. Elsewhere(d) BY <3>1 DEF Elsewhere
      <3>3. HandleTypes' BY <3>1 DEF HandleTypes
      <3>4. DomainOK(d)'
        <4>1. DomainOK(d) BY DEF HandleOK
        <4> QED BY <2>1, <3>1, <3>2, <4>1, CreatorStands DEF DomainOK, Alive
      <3> QED BY <2>1, <3>1, <3>2, <3>3, <3>4, OwnSteps DEF InOperation, HandleTypes
    <2>2. CASE pc[d] = "destroy"
      <3>0. Dropped(d) # d BY <2>2, WhichDropped DEF DropPlaces
      <3>1. EndOperation(d) /\ UNCHANGED <<slot, counts, current>> /\ ready' = ready
        BY <1>5, <3>0 DEF EndDestroy
      <3>2. \E place \in {"user", "unpublish", "answer"} : Goto(d, place)
        BY <3>1 DEF EndOperation, Abort
      <3>3. /\ Alive(d) /\ ~InDomain(d) /\ \A e \in Domains : e # d => op'[e] = op[e]
            /\ ready' \in [Domains -> {"off", "on", "null"}]
        BY <2>2, <3>1 DEF Alive, InDomain, EndOperation, Finish, ControlOK, HandleTypes
      <3> QED BY <3>1, <3>2, <3>3, HandleMoves
    <2> QED BY <1>5, <2>1, <2>2 DEF EndDestroy
  <1> QED BY <1>1, <1>2, <1>3, <1>4, <1>5 DEF UserStep

-----------------------------------------------------------------------------
\* Queues, events and messages.
Mailbox ==
    /\ queue \in [Domains -> Seq(Ids)]
    /\ newMsg \in [Domains -> BOOLEAN]
    /\ result \in [Domains -> BOOLEAN]
    /\ exported \in [Domains -> BOOLEAN]
MsgsOK == msgs \in Seq(Messages) /\ Len(msgs) <= MaxMsgs

\* Writing one message leaves a sequence of as many messages.
LEMMA MessageWritten ==
  ASSUME NEW ms \in Seq(Messages), NEW m, NEW new,
         m \in DOMAIN ms => new \in Messages
  PROVE  /\ [ms EXCEPT ![m] = new] \in Seq(Messages)
         /\ Len([ms EXCEPT ![m] = new]) = Len(ms)
  <1>1. /\ ms \in [1..Len(ms) -> Messages] /\ DOMAIN ms = 1..Len(ms)
    BY LenProperties
  <1>2. CASE m \in DOMAIN ms BY <1>1, <1>2, ExceptSeq
  <1>3. CASE m \notin DOMAIN ms
    <2>1. [ms EXCEPT ![m] = new] = ms BY <1>1, <1>3
    <2> QED BY <2>1
  <1> QED BY <1>2, <1>3

LEMMA MessageUpdate ==
  ASSUME NEW ms \in Seq(Messages), NEW m
  PROVE /\ \A v \in {"none", "ok", "error", "timeout", "gone"} :
             /\ [ms EXCEPT ![m].saw = v] \in Seq(Messages)
             /\ Len([ms EXCEPT ![m].saw = v]) = Len(ms)
        /\ \A v \in {"made", "queued", "taken", "done"} :
             /\ [ms EXCEPT ![m].at = v] \in Seq(Messages)
             /\ Len([ms EXCEPT ![m].at = v]) = Len(ms)
        /\ \A v \in {"none", "ok", "error"} :
             /\ [ms EXCEPT ![m].ret = v] \in Seq(Messages)
             /\ Len([ms EXCEPT ![m].ret = v]) = Len(ms)
  <1>1. m \in DOMAIN ms => ms[m] \in Messages
    BY LenProperties, ElementOfSeq
  <1>3. ASSUME NEW v \in {"none", "ok", "error", "timeout", "gone"}
        PROVE /\ [ms EXCEPT ![m].saw = v] \in Seq(Messages)
              /\ Len([ms EXCEPT ![m].saw = v]) = Len(ms)
    <2>1. m \in DOMAIN ms => [ms[m] EXCEPT !.saw = v] \in Messages
      BY <1>1 DEF Messages
    <2> QED BY <2>1, MessageWritten
  <1>4. ASSUME NEW v \in {"made", "queued", "taken", "done"}
        PROVE /\ [ms EXCEPT ![m].at = v] \in Seq(Messages)
              /\ Len([ms EXCEPT ![m].at = v]) = Len(ms)
    <2>1. m \in DOMAIN ms => [ms[m] EXCEPT !.at = v] \in Messages
      BY <1>1 DEF Messages
    <2> QED BY <2>1, MessageWritten
  <1>5. ASSUME NEW v \in {"none", "ok", "error"}
        PROVE /\ [ms EXCEPT ![m].ret = v] \in Seq(Messages)
              /\ Len([ms EXCEPT ![m].ret = v]) = Len(ms)
    <2>1. m \in DOMAIN ms => [ms[m] EXCEPT !.ret = v] \in Messages
      BY <1>1 DEF Messages
    <2> QED BY <2>1, MessageWritten
  <1> QED BY <1>3, <1>4, <1>5

LEMMA AbortMessages ==
  ASSUME MsgsOK, NEW d \in Domains, NEW ms \in Seq(Messages), Len(ms) = Len(msgs),
         Abort(d, ms)
  PROVE  MsgsOK'
  <1>1. CASE msgs' = ms BY <1>1 DEF MsgsOK
  <1>2. CASE msgs' = [ms EXCEPT ![Head(serving[d])].ret = "error"]
    BY <1>2, MessageUpdate DEF MsgsOK
  <1> QED BY <1>1, <1>2 DEF Abort

LEMMA RuntimeMessages ==
  ASSUME MsgsOK, NEW d \in Domains, RuntimeStep(d)
  PROVE  MsgsOK'
  <1>0. msgs \in Seq(Messages) BY DEF MsgsOK
  <1>1. CASE \/ CreateDomain(d) \/ CreateDomainFails(d) \/ SetDomain(d)
             \/ SignalDomainIsReady(d) \/ ResetReadiness(d) \/ ClearDomain(d)
             \/ LeaveThread(d) \/ DomainIsReady(d) \/ GetDomain(d)
             \/ CountReference(d) \/ Release(d) \/ ImportObject(d) \/ PulseQueue(d) \/ ResetQueuePulse(d) \/ Join(d)
             \/ RetrieveNothing(d) \/ NewMessage(d) \/ PollTimeout(d) \/ CallStub(d)
    <2>1. msgs' = msgs
      BY <1>1 DEF CreateDomain, CreateDomainFails, SetDomain, SignalDomainIsReady,
           ResetReadiness, ClearDomain, LeaveThread, DomainIsReady, GetDomain,
           CountReference, Release, ImportObject, PulseQueue, ResetQueuePulse, Join, RetrieveNothing,
           NewMessage, PollTimeout, CallStub, mail
    <2> QED BY <2>1 DEF MsgsOK
  <1>2. CASE ReadinessTimeout(d) \/ DomainIsGone(d) \/ Drop(d) \/ Reread(d)
    <2> DEFINE late == Saw(op[d].msg, "timeout")
               gone == Saw(op[d].msg, "gone")
    <2>1. \/ msgs' = msgs
          \/ Abort(d, msgs) \/ Abort(d, late) \/ Abort(d, gone)
      <3>1. CASE ReadinessTimeout(d) BY <3>1 DEF ReadinessTimeout
      <3>2. CASE DomainIsGone(d) BY <3>2 DEF DomainIsGone
      <3>3. CASE Drop(d) \/ Reread(d)
        <4>1. UNCHANGED msgs \/ \E zero : Unreferenced(d, zero)
          BY <3>3 DEF Drop, Reread
        <4> QED BY <4>1 DEF Unreferenced, EndOperation
      <3> QED BY <1>2, <3>1, <3>2, <3>3
    <2>2. CASE msgs' = msgs BY <2>2 DEF MsgsOK
    <2>3. CASE Abort(d, msgs) BY <1>0, <2>3, AbortMessages
    <2>4. /\ late \in Seq(Messages) /\ Len(late) = Len(msgs)
          /\ gone \in Seq(Messages) /\ Len(gone) = Len(msgs)
      BY <1>0, MessageUpdate DEF Saw
    <2>5. CASE Abort(d, late) BY <2>4, <2>5, AbortMessages
    <2>6. CASE Abort(d, gone) BY <2>4, <2>6, AbortMessages
    <2> QED BY <2>1, <2>2, <2>3, <2>5, <2>6
  <1>3. CASE ResultArrives(d) \/ ResultTimeout(d)
    <2>1. CASE ResultTimeout(d)
      <3>1. msgs' = [msgs EXCEPT ![op[d].msg].saw = "timeout"]
        BY <2>1 DEF ResultTimeout, Saw
      <3> QED BY <1>0, <3>1, MessageUpdate DEF MsgsOK
    <2>2. CASE ResultArrives(d)
      <3> DEFINE v == IF msgs[op[d].msg].ret = "error" THEN "error" ELSE "ok"
      <3>1. msgs' = [msgs EXCEPT ![op[d].msg].saw = v]
        BY <2>2 DEF ResultArrives, Saw
      <3>2. v \in {"error", "ok"} OBVIOUS
      <3> QED BY <1>0, <3>1, <3>2, MessageUpdate DEF MsgsOK
    <2> QED BY <1>3, <2>1, <2>2
  <1>4. CASE Enqueue(d) \/ Retrieve(d) \/ Answer(d) \/ ResetAnswer(d) \/ Forget(d)
    <2> USE <1>0, MessageUpdate DEF MsgsOK
    <2>1. CASE Enqueue(d) BY <2>1 DEF Enqueue
    <2>2. CASE Retrieve(d)
      <3>1. msgs' = [msgs EXCEPT ![Head(queue[d])].at = "taken"]
        BY <2>2 DEF Retrieve
      <3> QED BY <3>1
    <2>3. CASE Answer(d)
      <3>1. CASE Win32
        <4>1. msgs' = [msgs EXCEPT ![Head(serving[d])].at = "done"]
          BY <2>3, <3>1 DEF Answer
        <4> QED BY <4>1
      <3>2. CASE ~Win32 BY <2>3, <3>2 DEF Answer
      <3> QED BY <3>1, <3>2
    <2>4. CASE ResetAnswer(d) BY <2>4 DEF ResetAnswer
    <2>5. CASE Forget(d) BY <2>5 DEF Forget
    <2> QED BY <1>4, <2>1, <2>2, <2>3, <2>4, <2>5
  <1>5. CASE Refuse(d)
    BY <1>0, <1>5, MessageUpdate DEF Refuse, MsgsOK
  <1> QED BY <1>1, <1>2, <1>3, <1>4, <1>5 DEF RuntimeStep

LEMMA UserMessages ==
  ASSUME MsgsOK, NEW d \in Domains, UserStep(d)
  PROVE  MsgsOK'
  <1>0. msgs \in Seq(Messages) BY DEF MsgsOK
  <1>1. ASSUME NEW c \in Domains \ {Base}, NEW kind \in Kinds, Begin(d, c, kind)
        PROVE  MsgsOK'
    <2>1. Message(d, c, kind = "sync") \in Messages BY DEF Message, Messages
    <2>2. CASE UNCHANGED msgs BY <2>2 DEF MsgsOK
    <2>3. CASE /\ Len(msgs) < MaxMsgs
               /\ msgs' = Append(msgs, Message(d, c, kind = "sync"))
      <3>1. Len(msgs) \in Nat BY <1>0, LenProperties
      <3>2. msgs' \in Seq(Messages) /\ Len(msgs') = Len(msgs) + 1
        BY <1>0, <2>1, <2>3, AppendProperties
      <3> QED BY <2>3, <3>1, <3>2, RemotingAssumption DEF MsgsOK
    <2> QED BY <1>1, <2>2, <2>3 DEF Begin
  <1>2. CASE AbortInUserCode(d)
    BY <1>0, <1>2, AbortMessages DEF AbortInUserCode
  <1>3. CASE StubReturns(d)
    BY <1>0, <1>3, MessageUpdate DEF StubReturns, MsgsOK
  <1>4. CASE \/ \E c \in Domains \ {Base} : CreateRemoteDomain(d, c)
             \/ Export(d) \/ Unexport(d) \/ Listen(d) \/ StopListening(d)
             \/ ReturnFromMain(d)
    <2>1. msgs' = msgs
      BY <1>4 DEF CreateRemoteDomain, Export, Unexport, Listen, StopListening,
                  ReturnFromMain, mail
    <2> QED BY <2>1 DEF MsgsOK
  <1>5. CASE EndDestroy(d)
    <2>1. UNCHANGED msgs \/ EndOperation(d) BY <1>5 DEF EndDestroy
    <2>2. CASE UNCHANGED msgs BY <2>2 DEF MsgsOK
    <2>3. CASE Abort(d, msgs) BY <1>0, <2>3, AbortMessages
    <2> QED BY <2>1, <2>2, <2>3 DEF EndOperation
  <1> QED BY <1>1, <1>2, <1>3, <1>4, <1>5 DEF UserStep

\* What a step writes into the mail of its thread: an id into a queue, a signal.
LEMMA MailboxStep ==
  ASSUME ControlOK, Mailbox, NEW d \in Domains, RuntimeStep(d) \/ UserStep(d)
  PROVE  Mailbox'
  <1>1. queue' \in [Domains -> Seq(Ids)]
    <2>1. CASE UNCHANGED queue BY <2>1 DEF Mailbox
    <2>2. CASE EndDestroy(d)
      <3>1. \E c : queue' = [queue EXCEPT ![c] = <<>>]
        BY <2>2 DEF EndDestroy
      <3>2. <<>> \in Seq(Ids) BY EmptySeq
      <3> QED BY <3>1, <3>2 DEF Mailbox
    <2>3. CASE Enqueue(d)
      <3>1. /\ queue' = [queue EXCEPT ![Target(d)] = Append(queue[Target(d)], op[d].msg)]
            /\ pc[d] = "enqueue"
        BY <2>3 DEF Enqueue
      <3>2. op[d].msg \in Ids BY <3>1 DEF ControlOK, ThreadOK
      <3>3. Target(d) \in Domains =>
              Append(queue[Target(d)], op[d].msg) \in Seq(Ids)
        BY <3>2, AppendProperties DEF Mailbox
      <3> QED BY <3>1, <3>3 DEF Mailbox
    <2>4. CASE Retrieve(d)
      <3>1. /\ queue' = [queue EXCEPT ![d] = Tail(queue[d])]
            /\ queue[d] # <<>>
        BY <2>4 DEF Retrieve
      <3>2. Tail(queue[d]) \in Seq(Ids) BY <3>1, HeadTailProperties DEF Mailbox
      <3> QED BY <3>1, <3>2 DEF Mailbox
    <2>5. CASE UserStep(d) /\ ~EndDestroy(d)
      BY <2>1, <2>5 DEF UserStep, CreateRemoteDomain, Begin, Export, Unexport, Listen,
         StopListening, StubReturns, AbortInUserCode, ReturnFromMain, mail
    <2>6. CASE \/ CreateDomain(d) \/ CreateDomainFails(d) \/ SetDomain(d)
               \/ SignalDomainIsReady(d) \/ ResetReadiness(d) \/ ClearDomain(d)
               \/ LeaveThread(d) \/ Release(d) \/ CountReference(d) \/ Drop(d)
               \/ Reread(d) \/ DomainIsReady(d) \/ ReadinessTimeout(d)
               \/ GetDomain(d) \/ DomainIsGone(d) \/ ImportObject(d) \/ PulseQueue(d)
               \/ ResetQueuePulse(d) \/ ResultArrives(d) \/ ResultTimeout(d)
      BY <2>1, <2>6 DEF CreateDomain, CreateDomainFails, SetDomain,
         SignalDomainIsReady, ResetReadiness, ClearDomain, LeaveThread, Release,
         CountReference, Drop, Reread, DomainIsReady,
         ReadinessTimeout, GetDomain, DomainIsGone, ImportObject, PulseQueue,
         ResetQueuePulse, ResultArrives, ResultTimeout, mail
    <2>7. CASE \/ Join(d) \/ RetrieveNothing(d) \/ NewMessage(d) \/ PollTimeout(d)
               \/ CallStub(d) \/ Refuse(d) \/ Answer(d) \/ ResetAnswer(d) \/ Forget(d)
      BY <2>1, <2>7 DEF Join, RetrieveNothing, NewMessage, PollTimeout, CallStub,
         Refuse, Answer, ResetAnswer, Forget, mail
    <2> QED BY <2>2, <2>3, <2>4, <2>5, <2>6, <2>7 DEF RuntimeStep
  <1>2. \E c \in Domains, v \in BOOLEAN :
           /\ newMsg' \in {newMsg, [newMsg EXCEPT ![Target(d)] = v], [newMsg EXCEPT ![c] = v]}
           /\ exported' \in {exported, [exported EXCEPT ![c] = v]}
    <2>1. CASE UserStep(d)
      BY <2>1 DEF UserStep, CreateRemoteDomain, Begin, Export, Unexport, Listen,
         StopListening, StubReturns, EndDestroy, AbortInUserCode, ReturnFromMain, mail
    <2>2. CASE \/ CreateDomain(d) \/ CreateDomainFails(d) \/ SetDomain(d)
               \/ SignalDomainIsReady(d) \/ ResetReadiness(d) \/ ClearDomain(d)
               \/ LeaveThread(d) \/ Release(d) \/ CountReference(d) \/ Drop(d)
               \/ Reread(d) \/ Enqueue(d) \/ Retrieve(d)
               \/ DomainIsReady(d) \/ ReadinessTimeout(d) \/ GetDomain(d)
               \/ DomainIsGone(d) \/ ImportObject(d)
      BY <2>2 DEF CreateDomain, CreateDomainFails, SetDomain, LeaveThread, Release,
         CountReference, Drop, Reread, Enqueue, Retrieve, SignalDomainIsReady, ResetReadiness, ClearDomain,
         DomainIsReady, ReadinessTimeout, GetDomain, DomainIsGone, ImportObject, mail
    <2>3. CASE \/ PulseQueue(d) \/ ResetQueuePulse(d) \/ ResultArrives(d)
               \/ ResultTimeout(d) \/ NewMessage(d)
      BY <2>3 DEF PulseQueue, ResetQueuePulse, ResultArrives, ResultTimeout, NewMessage
    <2>4. CASE \/ Join(d) \/ RetrieveNothing(d) \/ PollTimeout(d) \/ CallStub(d)
               \/ Refuse(d) \/ Answer(d) \/ ResetAnswer(d) \/ Forget(d)
      BY <2>4 DEF Join, RetrieveNothing, PollTimeout, CallStub, Refuse, Answer,
         ResetAnswer, Forget, mail
    <2> QED BY <2>1, <2>2, <2>3, <2>4 DEF RuntimeStep
  <1>3. \E c : \E v \in BOOLEAN : result' \in {result, [result EXCEPT ![c] = v]}
    <2>1. CASE UserStep(d)
      BY <2>1 DEF UserStep, CreateRemoteDomain, Begin, Export, Unexport, Listen,
         StopListening, StubReturns, EndDestroy, AbortInUserCode, ReturnFromMain, mail
    <2>2. CASE \/ CreateDomain(d) \/ CreateDomainFails(d) \/ SetDomain(d)
               \/ SignalDomainIsReady(d) \/ ResetReadiness(d) \/ ClearDomain(d)
               \/ LeaveThread(d) \/ Release(d) \/ CountReference(d) \/ Drop(d)
               \/ Reread(d) \/ Enqueue(d) \/ Retrieve(d)
               \/ DomainIsReady(d) \/ ReadinessTimeout(d) \/ GetDomain(d)
               \/ DomainIsGone(d) \/ ImportObject(d)
      BY <2>2 DEF CreateDomain, CreateDomainFails, SetDomain, LeaveThread, Release,
         CountReference, Drop, Reread, Enqueue, Retrieve, SignalDomainIsReady, ResetReadiness, ClearDomain,
         DomainIsReady, ReadinessTimeout, GetDomain, DomainIsGone, ImportObject, mail
    <2>3. CASE \/ PulseQueue(d) \/ ResetQueuePulse(d) \/ ResultTimeout(d) \/ NewMessage(d)
               \/ Join(d) \/ RetrieveNothing(d) \/ PollTimeout(d) \/ CallStub(d)
               \/ Refuse(d) \/ Forget(d)
      BY <2>3 DEF PulseQueue, ResetQueuePulse, ResultTimeout, NewMessage,
         Join, RetrieveNothing, PollTimeout, CallStub, Refuse, Forget, mail
    <2>4. CASE ResultArrives(d)
      <3>1. result' = [result EXCEPT ![d] = FALSE] BY <2>4 DEF ResultArrives
      <3> QED BY <3>1
    <2>5. CASE Answer(d) \/ ResetAnswer(d)
      <3> DEFINE from == msgs[Head(serving[d])].from
      <3>1. \E v \in BOOLEAN : result' = [result EXCEPT ![from] = v]
        BY <2>5 DEF Answer, ResetAnswer
      <3> QED BY <3>1
    <2> QED BY <2>1, <2>2, <2>3, <2>4, <2>5 DEF RuntimeStep
  <1>4. /\ newMsg' \in [Domains -> BOOLEAN] /\ exported' \in [Domains -> BOOLEAN]
    BY <1>2 DEF Mailbox
  <1>5. result' \in [Domains -> BOOLEAN] BY <1>3 DEF Mailbox
  <1> QED BY <1>1, <1>4, <1>5 DEF Mailbox

-----------------------------------------------------------------------------
\* The inductive invariant.
IInv == ControlOK /\ HandleOK /\ Mailbox /\ MsgsOK

LEMMA InitIInv == Init => IInv
  <1> SUFFICES ASSUME Init PROVE IInv OBVIOUS
  <1> USE RemotingAssumption DEF Init
  <1>1. ControlOK
    BY OpFacts, EmptySeq DEF ControlOK, ThreadOK, OpPlaces, ServePlaces, PollPlaces, Places
  <1>2. HandleOK
    <2>1. HandleTypes BY DEF HandleTypes
    <2>2. ASSUME NEW c \in Domains PROVE DomainOK(c)
      <3>1. /\ ~Held(c) /\ ~Counting(c) /\ ~Dropping(c)
            /\ ~Letting(c) /\ ~Destroying(c)
        BY DEF Held, Counting, Dropping, Letting, Destroying, InDomain
      <3> QED BY <3>1 DEF DomainOK, Alive
    <2> QED BY <2>1, <2>2 DEF HandleOK
  <1>3. Mailbox BY EmptySeq DEF Mailbox
  <1>4. MsgsOK BY EmptySeq DEF MsgsOK
  <1> QED BY <1>1, <1>2, <1>3, <1>4 DEF IInv

LEMMA NextIInv == IInv /\ [Next]_vars => IInv'
  <1> SUFFICES ASSUME IInv, [Next]_vars PROVE IInv' OBVIOUS
  <1>1. ASSUME NEW d \in Domains, RuntimeStep(d) PROVE IInv'
    BY <1>1, RuntimeControl, RuntimeHandle, RuntimeMessages, MailboxStep DEF IInv, Mailbox
  <1>2. ASSUME NEW d \in Domains, UserStep(d) PROVE IInv'
    BY <1>2, UserControl, UserHandle, UserMessages, MailboxStep DEF IInv, MsgsOK
  <1>3. CASE UNCHANGED vars
    <2> USE <1>3 DEF vars, control, handle, mail, IInv
    <2>1. ControlOK' BY DEF ControlOK
    <2>2. HandleOK'
      BY DEF HandleOK, HandleTypes, DomainOK, Alive, InDomain, Held, Counting,
             Dropping, Letting, Destroying, Target, counts
    <2>3. Mailbox' /\ MsgsOK' BY DEF Mailbox, MsgsOK
    <2> QED BY <2>1, <2>2, <2>3
  <1> QED BY <1>1, <1>2, <1>3 DEF Next

\* The types of every variable, and that a thread is in an operation, or
\* serves a message, exactly where its place says so.
THEOREM TypeCorrect == Spec => []TypeOK
  <1>1. IInv => TypeOK
    BY DEF IInv, ControlOK, HandleOK, HandleTypes, Mailbox, MsgsOK, TypeOK,
           ThreadOK, InOperation, Serves, Polls, OpPlaces, ServePlaces, PollPlaces
  <1> QED BY <1>1, InitIInv, NextIInv, PTL DEF Spec

\* No reference to a domain dangles: not the weak pointer of its handle, not the
\* one a call or an import works with, not that of the domain's own thread, although
\* CObject::Ref() and Unref() are plain loads and stores, in both builds
\* (CDomainHandle::getDomain, SetDomain and CRemoteDomainThread::OnStart).
THEOREM ReferencesSafe == Spec => []NeverDangles
  <1>1. IInv => NeverDangles BY ReferencesHold DEF IInv
  <1> QED BY <1>1, InitIInv, NextIInv, PTL DEF Spec

\* A thread that runs its own domain, or the static destructors and destructors of
\* that domain, finds it in g_domain, although it may have destroyed other domains
\* before (CDomain::~CDomain).  It says nothing of destructors that run elsewhere.
THEOREM CurrentDomain == Spec => []ThreadKnowsItsDomain
  <1>1. IInv => ThreadKnowsItsDomain BY ReferencesHold DEF IInv
  <1> QED BY <1>1, InitIInv, NextIInv, PTL DEF Spec

-----------------------------------------------------------------------------
(***************************************************************************)
(* Messages. Only the creator of a domain sends to it, one call after the  *)
(* other, so that the messages to a domain are made, queued, taken and     *)
(* answered in the order of their ids.                                     *)
(***************************************************************************)
Early   == {"ready?", "lock", "ref", "enqueue"}
Waiting == {"pulse", "pulsed", "await"}
Answers == {"answer", "answered"}
Remote  == {"sync", "async"}

Addressed == \A m \in DOMAIN msgs : /\ msgs[m].to \in Domains \ {Base}
                                    /\ msgs[m].from = Creator[msgs[m].to]

\* The call a domain is in is the last one it made, and it has not sent it before it
\* comes to Enqueue.
Calling == \A d \in Domains : op[d].kind \in Remote =>
              /\ op[d].msg \in DOMAIN msgs
              /\ msgs[op[d].msg].from = d
              /\ msgs[op[d].msg].to = op[d].target
              /\ msgs[op[d].msg].sync <=> op[d].kind = "sync"
              /\ \A n \in DOMAIN msgs : msgs[n].from = d => n <= op[d].msg
              /\ pc[d] \in Early => msgs[op[d].msg].at = "made"

\* The stubs that run serve what is taken and not finished, an inner one a later message.
ServesTaken == \A d \in Domains :
                 /\ \A i \in DOMAIN serving[d] : /\ serving[d][i] \in DOMAIN msgs
                                                  /\ msgs[serving[d][i]].to = d
                                                  /\ msgs[serving[d][i]].at = "taken"
                 /\ \A m \in DOMAIN msgs : msgs[m].to = d /\ msgs[m].at = "taken"
                       => \E i \in DOMAIN serving[d] : serving[d][i] = m
InnerLater == \A d \in Domains :
                 \A i, j \in DOMAIN serving[d] : i < j => serving[d][i] > serving[d][j]

\* Nothing is sent to a domain before it is created.
Unsent == \A d \in Domains : pc[d] \in {"none", "create"} =>
              /\ queue[d] = <<>>
              /\ \A m \in DOMAIN msgs : msgs[m].to = d => msgs[m].at = "made"

\* The parts of MessagesInOrder.
NoneOvertakes == \A m, n \in DOMAIN msgs :
                    m < n /\ msgs[m].to = msgs[n].to /\ msgs[m].at # "made"
                       => Rank(n) <= Rank(m)
QueuesSorted == \A d \in Domains : live[d] =>
                   \A i, j \in DOMAIN queue[d] : i < j => queue[d][i] < queue[d][j]
QueuesHold == \A d \in Domains : live[d] =>
                 /\ \A i \in DOMAIN queue[d] : /\ queue[d][i] \in DOMAIN msgs
                                               /\ msgs[queue[d][i]].to = d
                                               /\ msgs[queue[d][i]].at = "queued"
                 /\ \A m \in DOMAIN msgs : msgs[m].to = d /\ msgs[m].at = "queued"
                       => \E i \in DOMAIN queue[d] : queue[d][i] = m

OrderInv == /\ Addressed /\ Calling /\ ServesTaken /\ InnerLater /\ Unsent
            /\ NoneOvertakes /\ QueuesSorted /\ QueuesHold

LEMMA InOrder ==
  MessagesInOrder <=> NoneOvertakes /\ ServesTaken /\ InnerLater /\ QueuesSorted /\ QueuesHold
  <1> DEFINE In(q) == {q[i] : i \in DOMAIN q}
             Those(d, at) == {m \in DOMAIN msgs : msgs[m].to = d /\ msgs[m].at = at}
  <1>1. \A d, q, at : In(q) = Those(d, at) <=>
           /\ \A i \in DOMAIN q : q[i] \in DOMAIN msgs /\ msgs[q[i]].to = d /\ msgs[q[i]].at = at
           /\ \A m \in DOMAIN msgs : msgs[m].to = d /\ msgs[m].at = at
                 => \E i \in DOMAIN q : q[i] = m
    OBVIOUS
  <1>2. /\ MessagesInOrder <=>
             /\ NoneOvertakes
             /\ \A d \in Domains :
                  /\ \A i, j \in DOMAIN serving[d] : i < j => serving[d][i] > serving[d][j]
                  /\ In(serving[d]) = Those(d, "taken")
             /\ \A d \in Domains : live[d] =>
                  /\ \A i, j \in DOMAIN queue[d] : i < j => queue[d][i] < queue[d][j]
                  /\ In(queue[d]) = Those(d, "queued")
    BY DEF MessagesInOrder, NoneOvertakes
  <1> HIDE DEF In, Those
  <1>3. (\A d \in Domains : In(serving[d]) = Those(d, "taken")) <=> ServesTaken
    BY <1>1 DEF ServesTaken
  <1>4. (\A d \in Domains : live[d] => In(queue[d]) = Those(d, "queued")) <=> QueuesHold
    BY <1>1 DEF QueuesHold
  <1> QED BY <1>2, <1>3, <1>4 DEF InnerLater, QueuesSorted

\* The stub that runs serves the first message of those its domain serves.
LEMMA HeadServed ==
  ASSUME ControlOK, ServesTaken, InnerLater, NEW d \in Domains, serving[d] # <<>>
  PROVE  /\ 1 \in DOMAIN serving[d] /\ Head(serving[d]) = serving[d][1]
         /\ Head(serving[d]) \in DOMAIN msgs /\ msgs[Head(serving[d])].to = d
         /\ msgs[Head(serving[d])].at = "taken"
         /\ \A i \in DOMAIN serving[d] : i # 1 => serving[d][i] # Head(serving[d])
  <1>1. serving[d] \in Seq(Ids) BY DEF ControlOK
  <1>2. Len(serving[d]) \in Nat /\ Len(serving[d]) # 0 BY <1>1, LenProperties, EmptySeq
  <1>3. DOMAIN serving[d] = 1..Len(serving[d]) BY <1>1, LenProperties
  <1>4. 1 \in DOMAIN serving[d] /\ Head(serving[d]) = serving[d][1]
    BY <1>1, <1>2, <1>3, HeadTailProperties
  <1>5. \A i \in DOMAIN serving[d] : i # 1 => serving[d][i] # serving[d][1]
    <2> SUFFICES ASSUME NEW i \in DOMAIN serving[d], i # 1 PROVE serving[d][i] # serving[d][1]
      OBVIOUS
    <2>1. 1 < i BY <1>2, <1>3
    <2>2. serving[d][1] > serving[d][i] BY <1>4, <2>1 DEF InnerLater
    <2>3. serving[d][1] \in Ids /\ serving[d][i] \in Ids BY <1>1, <1>4, ElementOfSeq, <1>3
    <2> QED BY <2>2, <2>3 DEF Ids
  <1> QED BY <1>4, <1>5 DEF ServesTaken

LEMMA Pushed ==
  ASSUME NEW s \in Seq(Ids), NEW m \in Ids
  PROVE  LET u == <<m>> \o s
         IN /\ u # <<>> /\ Head(u) = m /\ 1 \in DOMAIN u /\ u[1] = m
            /\ \A i \in DOMAIN s : i + 1 \in DOMAIN u /\ i + 1 # 1 /\ u[i + 1] = s[i]
            /\ \A i \in DOMAIN u : i \in Nat /\ (i # 1 => i - 1 \in DOMAIN s /\ u[i] = s[i - 1])
  <1> DEFINE u == <<m>> \o s
  <1>1. <<m>> \in Seq(Ids) /\ Len(<<m>>) = 1 /\ <<m>>[1] = m OBVIOUS
  <1>2. /\ u \in Seq(Ids) /\ Len(u) = 1 + Len(s)
        /\ \A i \in 1..Len(u) : u[i] = IF i <= 1 THEN <<m>>[i] ELSE s[i - 1]
    BY <1>1, ConcatProperties
  <1>3. Len(s) \in Nat /\ DOMAIN s = 1..Len(s) /\ DOMAIN u = 1..Len(u)
    BY <1>2, LenProperties
  <1> HIDE DEF u
  <1>4. u # <<>> BY <1>2, <1>3, EmptySeq
  <1>5. 1 \in DOMAIN u /\ u[1] = m BY <1>1, <1>2, <1>3
  <1>6. Head(u) = m BY <1>2, <1>4, <1>5, HeadTailProperties
  <1>7. \A i \in DOMAIN s : i + 1 \in DOMAIN u /\ i + 1 # 1 /\ u[i + 1] = s[i]
    BY <1>2, <1>3
  <1>8. \A i \in DOMAIN u : i \in Nat /\ (i # 1 => i - 1 \in DOMAIN s /\ u[i] = s[i - 1])
    BY <1>2, <1>3
  <1> QED BY <1>4, <1>5, <1>6, <1>7, <1>8 DEF u

LEMMA Popped ==
  ASSUME NEW s \in Seq(Ids), s # <<>>
  PROVE  LET u == Tail(s)
         IN /\ \A i \in DOMAIN u : /\ i \in Nat /\ i + 1 # 1 /\ i + 1 \in DOMAIN s
                                    /\ u[i] = s[i + 1]
            /\ \A i \in DOMAIN s : i # 1 => i - 1 \in DOMAIN u /\ u[i - 1] = s[i]
  <1>1. Len(s) \in Nat /\ Len(s) # 0 /\ DOMAIN s = 1..Len(s)
    BY LenProperties, EmptySeq
  <1>2. /\ Tail(s) \in Seq(Ids) /\ Len(Tail(s)) = Len(s) - 1
        /\ \A i \in 1..Len(Tail(s)) : Tail(s)[i] = s[i + 1]
    BY HeadTailProperties
  <1>3. DOMAIN Tail(s) = 1..(Len(s) - 1) BY <1>2, LenProperties
  <1> QED BY <1>1, <1>2, <1>3

\* Writing one field of one message leaves the others alone.
LEMMA FieldWritten ==
  ASSUME NEW ms \in Seq(Messages), NEW m, NEW v
  PROVE  /\ LET w == [ms EXCEPT ![m].at = v]
            IN /\ DOMAIN w = DOMAIN ms
               /\ \A n \in DOMAIN ms :
                     /\ w[n].from = ms[n].from /\ w[n].to = ms[n].to
                     /\ w[n].sync = ms[n].sync /\ w[n].ret = ms[n].ret
                     /\ w[n].saw = ms[n].saw
                     /\ w[n].at = IF n = m THEN v ELSE ms[n].at
         /\ LET w == [ms EXCEPT ![m].ret = v]
            IN /\ DOMAIN w = DOMAIN ms
               /\ \A n \in DOMAIN ms :
                     /\ w[n].from = ms[n].from /\ w[n].to = ms[n].to
                     /\ w[n].sync = ms[n].sync /\ w[n].at = ms[n].at
                     /\ w[n].saw = ms[n].saw
                     /\ w[n].ret = IF n = m THEN v ELSE ms[n].ret
         /\ LET w == [ms EXCEPT ![m].saw = v]
            IN /\ DOMAIN w = DOMAIN ms
               /\ \A n \in DOMAIN ms :
                     /\ w[n].from = ms[n].from /\ w[n].to = ms[n].to
                     /\ w[n].sync = ms[n].sync /\ w[n].at = ms[n].at
                     /\ w[n].ret = ms[n].ret
                     /\ w[n].saw = IF n = m THEN v ELSE ms[n].saw
  <1>1. \A n \in DOMAIN ms : ms[n] \in Messages
    BY LenProperties, ElementOfSeq
  <1> QED BY <1>1 DEF Messages

Routes == /\ DOMAIN msgs' = DOMAIN msgs
          /\ \A n \in DOMAIN msgs : /\ msgs'[n].from = msgs[n].from
                                    /\ msgs'[n].to = msgs[n].to
                                    /\ msgs'[n].sync = msgs[n].sync

\* What most steps do: the thread of d moves, perhaps ends its operation, and no
\* message does.
Quiet(d) ==
    /\ Routes /\ \A n \in DOMAIN msgs : msgs'[n].at = msgs[n].at
    /\ serving' = serving
    /\ \A e \in Domains \ {d} : pc'[e] = pc[e] /\ op'[e] = op[e]
    /\ op'[d].kind \in Remote => /\ op'[d].kind = op[d].kind
                                 /\ op'[d].target = op[d].target
                                 /\ op'[d].msg = op[d].msg
    /\ op'[d].kind \in Remote /\ pc'[d] \in Early => pc[d] \in Early
    /\ pc'[d] \in {"none", "create"} => pc[d] \in {"none", "create"}
    /\ \A e \in Domains : queue'[e] = queue[e] \/ (queue'[e] = <<>> /\ ~live'[e])
    /\ \A e \in Domains : live'[e] => live[e] \/ pc[e] = "create"

LEMMA QuietKeepsOrder ==
  ASSUME OrderInv, NEW d \in Domains, Quiet(d)
  PROVE  OrderInv'
  <1> USE DEF OrderInv
  <1>0. /\ DOMAIN msgs' = DOMAIN msgs /\ serving' = serving
        /\ \A n \in DOMAIN msgs : /\ msgs'[n].from = msgs[n].from /\ msgs'[n].to = msgs[n].to
                                  /\ msgs'[n].sync = msgs[n].sync /\ msgs'[n].at = msgs[n].at
    BY DEF Quiet, Routes
  <1>1. Addressed' BY <1>0 DEF Addressed
  <1>2. Calling'
    <2> SUFFICES ASSUME NEW e \in Domains, op'[e].kind \in Remote
                 PROVE  /\ op'[e].msg \in DOMAIN msgs'
                        /\ msgs'[op'[e].msg].from = e
                        /\ msgs'[op'[e].msg].to = op'[e].target
                        /\ msgs'[op'[e].msg].sync <=> op'[e].kind = "sync"
                        /\ \A n \in DOMAIN msgs' : msgs'[n].from = e => n <= op'[e].msg
                        /\ pc'[e] \in Early => msgs'[op'[e].msg].at = "made"
      BY DEF Calling
    <2>1. /\ op'[e].kind = op[e].kind /\ op'[e].target = op[e].target
          /\ op'[e].msg = op[e].msg /\ (pc'[e] \in Early => pc[e] \in Early)
      BY DEF Quiet
    <2> QED BY <1>0, <2>1 DEF Calling
  <1>3. ServesTaken' /\ InnerLater' BY <1>0 DEF ServesTaken, InnerLater
  <1>4. \A e \in Domains : pc'[e] \in {"none", "create"} => pc[e] \in {"none", "create"}
    BY DEF Quiet
  <1>5. Unsent'
    BY <1>0, <1>4 DEF Unsent, Quiet
  <1>6. NoneOvertakes'
    <2>1. \A n \in DOMAIN msgs : Rank(n)' = Rank(n) BY <1>0 DEF Rank
    <2> QED BY <1>0, <2>1 DEF NoneOvertakes
  <1>7. ASSUME NEW e \in Domains, live'[e]
        PROVE  /\ queue'[e] = queue[e]
               /\ \/ live[e]
                  \/ queue[e] = <<>> /\ \A m \in DOMAIN msgs : msgs[m].to = e => msgs[m].at = "made"
    BY <1>7 DEF Quiet, Unsent
  <1>8. DOMAIN <<>> = {} OBVIOUS
  <1>9. QueuesSorted'
    <2> SUFFICES ASSUME NEW e \in Domains, live'[e]
                 PROVE  \A i, j \in DOMAIN queue'[e] : i < j => queue'[e][i] < queue'[e][j]
      BY DEF QueuesSorted
    <2> QED BY <1>7, <1>8 DEF QueuesSorted
  <1>10. QueuesHold'
    <2> SUFFICES ASSUME NEW e \in Domains, live'[e]
                 PROVE  /\ \A i \in DOMAIN queue'[e] : /\ queue'[e][i] \in DOMAIN msgs'
                                                       /\ msgs'[queue'[e][i]].to = e
                                                       /\ msgs'[queue'[e][i]].at = "queued"
                        /\ \A m \in DOMAIN msgs' : msgs'[m].to = e /\ msgs'[m].at = "queued"
                              => \E i \in DOMAIN queue'[e] : queue'[e][i] = m
      BY DEF QueuesHold
    <2> QED BY <1>0, <1>7, <1>8 DEF QueuesHold
  <1> QED BY <1>1, <1>2, <1>3, <1>5, <1>6, <1>9, <1>10

\* A message is made: it is the last one of all.
LEMMA BeginKeepsOrder ==
  ASSUME OrderInv, MsgsOK, NEW d \in Domains, NEW c \in Domains \ {Base},
         NEW kind \in Remote, Begin(d, c, kind), pc \in [Domains -> Places],
         op \in [Domains -> Ops]
  PROVE  OrderInv'
  <1> USE DEF OrderInv
  <1> DEFINE new == Message(d, c, kind = "sync")
  <1>0. PICK k : k = Len(msgs) + 1
    OBVIOUS
  <1>1. /\ msgs' = Append(msgs, new) /\ pc[d] = "user" /\ pc[c] # "none" /\ Creator[c] = d
        /\ pc' = [pc EXCEPT ![d] = "ready?"]
        /\ op' = [op EXCEPT ![d] = [kind |-> kind, target |-> c, msg |-> k, abort |-> FALSE]]
        /\ serving' = serving /\ queue' = queue /\ live' = live
    BY <1>0 DEF Begin, handle, counts, Goto, Remote
  <1>2. /\ Len(msgs) \in Nat /\ DOMAIN msgs = 1..Len(msgs) /\ DOMAIN msgs' = 1..k
        /\ \A m \in DOMAIN msgs : msgs'[m] = msgs[m]
        /\ msgs'[k] = new
    BY <1>0, <1>1, AppendProperties, LenProperties DEF MsgsOK, Message, Messages
  <1>3. /\ new.from = d /\ new.to = c /\ new.at = "made" /\ (new.sync <=> kind = "sync")
    BY DEF Message
  <1>4. /\ DOMAIN msgs \subseteq DOMAIN msgs' /\ k \in DOMAIN msgs' /\ k \notin DOMAIN msgs
        /\ \A m \in DOMAIN msgs' : m \in DOMAIN msgs \/ m = k
        /\ \A m \in DOMAIN msgs : m < k /\ m \in Nat
        /\ k \in Nat
    BY <1>0, <1>2
  <1> HIDE DEF new
  <1>5. Addressed' BY <1>1, <1>2, <1>3, <1>4 DEF Addressed
  <1>6. Calling'
    <2> SUFFICES ASSUME NEW e \in Domains, op'[e].kind \in Remote
                 PROVE  /\ op'[e].msg \in DOMAIN msgs'
                        /\ msgs'[op'[e].msg].from = e
                        /\ msgs'[op'[e].msg].to = op'[e].target
                        /\ msgs'[op'[e].msg].sync <=> op'[e].kind = "sync"
                        /\ \A n \in DOMAIN msgs' : msgs'[n].from = e => n <= op'[e].msg
                        /\ pc'[e] \in Early => msgs'[op'[e].msg].at = "made"
      BY DEF Calling
    <2>1. CASE e = d
      <3>1. op'[e].msg = k /\ op'[e].target = c /\ op'[e].kind = kind
        BY <1>1, <2>1
      <3> QED BY <1>2, <1>3, <1>4, <2>1, <3>1
    <2>2. CASE e # d
      <3>1. op'[e] = op[e] /\ pc'[e] = pc[e] BY <1>1, <2>2
      <3> QED BY <1>2, <1>3, <1>4, <2>2, <3>1 DEF Calling
    <2> QED BY <2>1, <2>2
  <1>7. ServesTaken' /\ InnerLater'
    BY <1>1, <1>2, <1>3, <1>4 DEF ServesTaken, InnerLater
  <1>8. Unsent' BY <1>1, <1>2, <1>3, <1>4 DEF Unsent
  <1>9. NoneOvertakes'
    <2>1. \A n \in DOMAIN msgs : Rank(n)' = Rank(n) BY <1>2 DEF Rank
    <2>2. Rank(k)' = 0 BY <1>2, <1>3 DEF Rank
    <2>3. \A n \in DOMAIN msgs' : Rank(n)' \in Nat BY DEF Rank
    <2>4. \A n \in DOMAIN msgs' : 0 <= Rank(n)' BY <2>3
    <2>5. \A n \in DOMAIN msgs : ~ (k < n) BY <1>4
    <2> QED BY <1>2, <1>3, <1>4, <2>1, <2>2, <2>4, <2>5 DEF NoneOvertakes
  <1>10. QueuesSorted' BY <1>1 DEF QueuesSorted
  <1>11. QueuesHold' BY <1>1, <1>2, <1>3, <1>4 DEF QueuesHold
  <1> QED BY <1>5, <1>6, <1>7, <1>8, <1>9, <1>10, <1>11

\* The last message of all those to a domain is queued behind them.
LEMMA EnqueueKeepsOrder ==
  ASSUME OrderInv, ControlOK, HandleOK, Mailbox, MsgsOK, NEW d \in Domains, Enqueue(d)
  PROVE  OrderInv'
  <1> USE DEF OrderInv
  <1>0. PICK c, m : c = Target(d) /\ m = op[d].msg
    OBVIOUS
  <1>1. /\ pc[d] = "enqueue" /\ pc' = [pc EXCEPT ![d] = "pulse"]
        /\ queue' = [queue EXCEPT ![c] = Append(@, m)]
        /\ msgs' = [msgs EXCEPT ![m].at = "queued"]
        /\ op' = op /\ serving' = serving /\ live' = live
    BY <1>0 DEF Enqueue, handle, counts, Goto
  <1>2. /\ op[d].kind \in Remote /\ c \in Domains /\ Creator[c] = d
    BY <1>0, <1>1 DEF ControlOK, ThreadOK, OpPlaces, Remote, Target
  <1>3. /\ m \in DOMAIN msgs /\ msgs[m].to = c /\ msgs[m].at = "made"
        /\ \A n \in DOMAIN msgs : msgs[n].from = d => n <= m
    BY <1>0, <1>1, <1>2 DEF Calling, Early, Target
  <1>4. \A n \in DOMAIN msgs : msgs[n].to = c => n <= m
    BY <1>2, <1>3 DEF Addressed
  <1>5. /\ DOMAIN msgs' = DOMAIN msgs
        /\ \A n \in DOMAIN msgs : /\ msgs'[n].from = msgs[n].from /\ msgs'[n].to = msgs[n].to
                                  /\ msgs'[n].sync = msgs[n].sync
                                  /\ msgs'[n].at = IF n = m THEN "queued" ELSE msgs[n].at
        /\ DOMAIN msgs \subseteq Nat
    BY <1>1, FieldWritten, LenProperties DEF MsgsOK
  <1>6. /\ queue[c] \in Seq(Ids) /\ Len(queue[c]) \in Nat
        /\ DOMAIN queue[c] = 1..Len(queue[c]) /\ DOMAIN queue'[c] = 1..(Len(queue[c]) + 1)
        /\ \A i \in DOMAIN queue[c] : queue'[c][i] = queue[c][i]
        /\ queue'[c][Len(queue[c]) + 1] = m
        /\ \A e \in Domains : e # c => queue'[e] = queue[e]
    <2>1. queue[c] \in Seq(Ids) /\ m \in Ids
      BY <1>0, <1>1, <1>2 DEF Mailbox, ControlOK, ThreadOK, Remote
    <2>2. queue'[c] = Append(queue[c], m) /\ \A e \in Domains : e # c => queue'[e] = queue[e]
      BY <1>1, <1>2 DEF Mailbox
    <2> QED BY <2>1, <2>2, AppendProperties, LenProperties
  <1>7. pc[c] \notin {"none", "create"} /\ live[c]
    <2>1. Held(c)
      BY <1>0, <1>1, <1>2, HolderIsCreator DEF Held, InDomain, InOperation
    <2> QED BY <1>2, <2>1 DEF HandleOK, DomainOK
  <1>8. Addressed' BY <1>5 DEF Addressed
  <1>9. Calling'
    <2> SUFFICES ASSUME NEW e \in Domains, op[e].kind \in Remote
                 PROVE  /\ op[e].msg \in DOMAIN msgs'
                        /\ msgs'[op[e].msg].from = e
                        /\ msgs'[op[e].msg].to = op[e].target
                        /\ msgs'[op[e].msg].sync <=> op[e].kind = "sync"
                        /\ \A n \in DOMAIN msgs' : msgs'[n].from = e => n <= op[e].msg
                        /\ pc'[e] \in Early => msgs'[op[e].msg].at = "made"
      BY <1>1 DEF Calling
    <2>1. /\ op[e].msg \in DOMAIN msgs
          /\ msgs[op[e].msg].from = e
          /\ msgs[op[e].msg].to = op[e].target
          /\ msgs[op[e].msg].sync <=> op[e].kind = "sync"
          /\ \A n \in DOMAIN msgs : msgs[n].from = e => n <= op[e].msg
          /\ pc[e] \in Early => msgs[op[e].msg].at = "made"
      BY DEF Calling
    <2>2. msgs[m].from = d
      BY <1>2, <1>3 DEF Addressed
    <2>3. pc'[e] \in Early => e # d /\ pc[e] \in Early
      BY <1>1 DEF Early, ControlOK
    <2>4. e # d => op[e].msg # m
      BY <2>1, <2>2
    <2> QED BY <1>5, <2>1, <2>3, <2>4
  <1>10. ServesTaken' /\ InnerLater'
    <2>1. \A e \in Domains : \A i \in DOMAIN serving[e] : serving[e][i] # m
      BY <1>3 DEF ServesTaken
    <2> QED BY <1>1, <1>5, <2>1 DEF ServesTaken, InnerLater
  <1>11. Unsent'
    <2>1. \A e \in Domains : pc'[e] \in {"none", "create"} => pc[e] \in {"none", "create"} /\ e # c
      BY <1>1, <1>7 DEF ControlOK
    <2> QED BY <1>1, <1>3, <1>5, <1>6, <2>1 DEF Unsent
  <1>12. NoneOvertakes'
    <2>1. \A n \in DOMAIN msgs : n # m => Rank(n)' = Rank(n)
      BY <1>5 DEF Rank
    <2>2. Rank(m)' = 1 /\ Rank(m) = 0
      BY <1>3, <1>5 DEF Rank
    <2>3. \A n \in DOMAIN msgs : msgs[n].at # "made" => 1 <= Rank(n)
      BY DEF Rank
    <2>4. \A n \in DOMAIN msgs : msgs[n].to = c => ~ (m < n)
      BY <1>3, <1>4, <1>5
    <2> SUFFICES ASSUME NEW p \in DOMAIN msgs, NEW q \in DOMAIN msgs, p < q,
                        msgs[p].to = msgs[q].to, msgs'[p].at # "made"
                 PROVE  Rank(q)' <= Rank(p)'
      BY <1>5 DEF NoneOvertakes
    <2>5. p # m BY <1>3, <2>4
    <2>6. msgs[p].at # "made" /\ Rank(p)' = Rank(p) BY <1>5, <2>1, <2>5
    <2>7. CASE q = m BY <2>2, <2>3, <2>6, <2>7
    <2>8. CASE q # m BY <2>1, <2>6, <2>8 DEF NoneOvertakes
    <2> QED BY <2>7, <2>8
  <1>13. \A i \in DOMAIN queue[c] : queue[c][i] < m
    <2> SUFFICES ASSUME NEW i \in DOMAIN queue[c] PROVE queue[c][i] < m
      OBVIOUS
    <2>1. /\ queue[c][i] \in DOMAIN msgs /\ msgs[queue[c][i]].to = c
          /\ msgs[queue[c][i]].at = "queued"
      BY <1>2, <1>7 DEF QueuesHold
    <2>2. queue[c][i] <= m /\ queue[c][i] # m
      BY <1>3, <1>4, <2>1
    <2>3. queue[c][i] \in Nat /\ m \in Nat
      BY <1>3, <1>5, <2>1
    <2> QED BY <2>2, <2>3
  <1>14. QueuesSorted'
    <2> SUFFICES ASSUME NEW e \in Domains, live[e],
                        NEW i \in DOMAIN queue'[e], NEW j \in DOMAIN queue'[e], i < j
                 PROVE  queue'[e][i] < queue'[e][j]
      BY <1>1 DEF QueuesSorted
    <2>1. CASE e # c BY <1>6, <2>1 DEF QueuesSorted
    <2>2. CASE e = c
      <3>1. i \in DOMAIN queue[c] BY <1>6, <2>2
      <3>2. CASE j \in DOMAIN queue[c] BY <1>6, <2>2, <3>1, <3>2 DEF QueuesSorted
      <3>3. CASE j \notin DOMAIN queue[c]
        <4>1. j = Len(queue[c]) + 1 BY <1>6, <2>2, <3>3
        <4> QED BY <1>6, <1>13, <2>2, <3>1, <4>1
      <3> QED BY <3>2, <3>3
    <2> QED BY <2>1, <2>2
  <1>15. QueuesHold'
    <2> SUFFICES ASSUME NEW e \in Domains, live[e]
                 PROVE  /\ \A i \in DOMAIN queue'[e] : /\ queue'[e][i] \in DOMAIN msgs
                                                       /\ msgs'[queue'[e][i]].to = e
                                                       /\ msgs'[queue'[e][i]].at = "queued"
                        /\ \A n \in DOMAIN msgs : msgs'[n].to = e /\ msgs'[n].at = "queued"
                              => \E i \in DOMAIN queue'[e] : queue'[e][i] = n
      BY <1>1, <1>5 DEF QueuesHold
    <2>1. CASE e # c BY <1>3, <1>5, <1>6, <2>1 DEF QueuesHold
    <2>2. CASE e = c
      <3>1. \A i \in DOMAIN queue'[e] : i \in DOMAIN queue[c] \/ queue'[e][i] = m
        BY <1>6, <2>2
      <3>2. ASSUME NEW i \in DOMAIN queue'[e]
            PROVE  /\ queue'[e][i] \in DOMAIN msgs /\ msgs'[queue'[e][i]].to = e
                   /\ msgs'[queue'[e][i]].at = "queued"
        <4>1. CASE queue'[e][i] = m BY <1>3, <1>5, <2>2, <4>1
        <4>2. CASE i \in DOMAIN queue[c]
          <5>1. queue'[e][i] = queue[c][i] BY <1>6, <2>2, <4>2
          <5>2. /\ queue[c][i] \in DOMAIN msgs /\ msgs[queue[c][i]].to = c
                /\ msgs[queue[c][i]].at = "queued"
            BY <1>2, <1>7, <4>2 DEF QueuesHold
          <5>3. queue[c][i] # m BY <1>3, <5>2
          <5> QED BY <1>5, <2>2, <5>1, <5>2, <5>3
        <4> QED BY <3>1, <4>1, <4>2
      <3>3. Len(queue[c]) + 1 \in DOMAIN queue'[e] /\ DOMAIN queue[c] \subseteq DOMAIN queue'[e]
        BY <1>6, <2>2
      <3>4. ASSUME NEW n \in DOMAIN msgs, msgs'[n].to = e, msgs'[n].at = "queued"
            PROVE  \E i \in DOMAIN queue'[e] : queue'[e][i] = n
        <4>1. CASE n = m BY <1>6, <2>2, <3>3, <4>1
        <4>2. CASE n # m
          <5>1. PICK i \in DOMAIN queue[c] : queue[c][i] = n
            BY <1>5, <1>7, <2>2, <3>4, <4>2 DEF QueuesHold
          <5> QED BY <1>6, <2>2, <3>3, <5>1
        <4> QED BY <4>1, <4>2
      <3> QED BY <3>2, <3>4
    <2> QED BY <2>1, <2>2
  <1> QED BY <1>8, <1>9, <1>10, <1>11, <1>12, <1>14, <1>15

\* The first message of a queue is taken: those before it are answered already.
LEMMA RetrieveKeepsOrder ==
  ASSUME OrderInv, ControlOK, HandleOK, Mailbox, MsgsOK, NEW d \in Domains, Retrieve(d)
  PROVE  OrderInv'
  <1> USE DEF OrderInv
  <1>0. PICK h : h = Head(queue[d])
    OBVIOUS
  <1>1. /\ pc[d] \in {"poll", "repoll"} /\ pc' = [pc EXCEPT ![d] = "dispatch"]
        /\ queue[d] # <<>> /\ queue' = [queue EXCEPT ![d] = Tail(@)]
        /\ msgs' = [msgs EXCEPT ![h].at = "taken"]
        /\ serving' = [serving EXCEPT ![d] = <<h>> \o @] /\ op' = op /\ live' = live
    BY <1>0 DEF Retrieve, handle, counts, Goto
  <1>2. live[d]
    <2>1. Alive(d) BY <1>1 DEF Alive
    <2> QED BY <2>1 DEF HandleOK, DomainOK
  <1>3. /\ queue[d] \in Seq(Ids) /\ Len(queue[d]) \in Nat /\ Len(queue[d]) >= 1
        /\ DOMAIN queue[d] = 1..Len(queue[d]) /\ DOMAIN queue'[d] = 1..(Len(queue[d]) - 1)
        /\ \A i \in DOMAIN queue'[d] : queue'[d][i] = queue[d][i + 1]
        /\ h = queue[d][1]
        /\ \A e \in Domains : e # d => queue'[e] = queue[e]
    <2>1. queue[d] \in Seq(Ids) /\ Len(queue[d]) \in Nat /\ Len(queue[d]) # 0
      BY <1>1, LenProperties, EmptySeq DEF Mailbox
    <2>2. queue'[d] = Tail(queue[d]) /\ \A e \in Domains : e # d => queue'[e] = queue[e]
      BY <1>1 DEF Mailbox
    <2> QED BY <1>0, <2>1, <2>2, <1>1, HeadTailProperties, LenProperties
  <1>4. h \in DOMAIN msgs /\ msgs[h].to = d /\ msgs[h].at = "queued"
    BY <1>2, <1>3 DEF QueuesHold
  <1>5. /\ DOMAIN msgs' = DOMAIN msgs
        /\ \A n \in DOMAIN msgs : /\ msgs'[n].from = msgs[n].from /\ msgs'[n].to = msgs[n].to
                                  /\ msgs'[n].sync = msgs[n].sync
                                  /\ msgs'[n].at = IF n = h THEN "taken" ELSE msgs[n].at
        /\ DOMAIN msgs \subseteq Nat
        /\ None \notin DOMAIN msgs
    <2>1. /\ DOMAIN msgs' = DOMAIN msgs
          /\ \A n \in DOMAIN msgs : /\ msgs'[n].from = msgs[n].from /\ msgs'[n].to = msgs[n].to
                                    /\ msgs'[n].sync = msgs[n].sync
                                    /\ msgs'[n].at = IF n = h THEN "taken" ELSE msgs[n].at
      BY <1>1, FieldWritten DEF MsgsOK
    <2>2. DOMAIN msgs \subseteq Nat BY LenProperties DEF MsgsOK
    <2> QED BY <2>1, <2>2, RemotingAssumption
  <1>6. /\ serving'[d] = <<h>> \o serving[d]
        /\ \A e \in Domains : e # d => serving'[e] = serving[e]
    BY <1>1 DEF ControlOK
  <1>7. \A n \in DOMAIN msgs : msgs[n].to = d /\ msgs[n].at = "taken" => n < h /\ n # h
    <2> SUFFICES ASSUME NEW n \in DOMAIN msgs, msgs[n].to = d, msgs[n].at = "taken"
                 PROVE  n < h /\ n # h
      OBVIOUS
    <2>1. Rank(n) = 2 /\ Rank(h) = 1 BY <1>4 DEF Rank
    <2>2. ~(h < n) BY <1>4, <2>1 DEF NoneOvertakes
    <2>3. n # h BY <1>4
    <2>4. n \in Nat /\ h \in Nat BY <1>4, <1>5
    <2> QED BY <2>2, <2>3, <2>4
  <1>8. \A n \in DOMAIN msgs : msgs[n].to = d /\ msgs[n].at = "queued" => h <= n
    <2> SUFFICES ASSUME NEW n \in DOMAIN msgs, msgs[n].to = d, msgs[n].at = "queued"
                 PROVE  h <= n
      OBVIOUS
    <2>1. PICK i \in DOMAIN queue[d] : queue[d][i] = n
      BY <1>2 DEF QueuesHold
    <2>2. 1 \in DOMAIN queue[d] /\ i \in Nat BY <1>3, <2>1
    <2>3. CASE i = 1
      <3>1. h = n BY <1>3, <2>1, <2>3
      <3> QED BY <1>4, <1>5, <3>1
    <2>4. CASE i # 1
      <3>1. 1 < i BY <1>3, <2>1, <2>4
      <3>2. h < n BY <1>2, <1>3, <2>1, <2>2, <3>1 DEF QueuesSorted
      <3> QED BY <1>4, <1>5, <3>2
    <2> QED BY <2>3, <2>4
  <1>9. Addressed' BY <1>5 DEF Addressed
  <1>10. Calling'
    <2>1. \A e \in Domains : pc'[e] \in Early => pc[e] \in Early
      BY <1>1 DEF Early, ControlOK
    <2>2. \A e \in Domains : op[e].kind \in Remote /\ pc[e] \in Early => op[e].msg # h
      BY <1>4 DEF Calling
    <2> SUFFICES ASSUME NEW e \in Domains, op[e].kind \in Remote
                 PROVE  /\ op[e].msg \in DOMAIN msgs'
                        /\ msgs'[op[e].msg].from = e
                        /\ msgs'[op[e].msg].to = op[e].target
                        /\ msgs'[op[e].msg].sync <=> op[e].kind = "sync"
                        /\ \A n \in DOMAIN msgs' : msgs'[n].from = e => n <= op[e].msg
                        /\ pc'[e] \in Early => msgs'[op[e].msg].at = "made"
      BY <1>1 DEF Calling
    <2> QED BY <1>5, <2>1, <2>2 DEF Calling
  <1>p. /\ serving'[d][1] = h /\ 1 \in DOMAIN serving'[d]
        /\ \A i \in DOMAIN serving[d] : /\ i + 1 \in DOMAIN serving'[d]
                                         /\ serving'[d][i + 1] = serving[d][i]
        /\ \A i \in DOMAIN serving'[d] :
              i \in Nat /\ (i # 1 => /\ i - 1 \in DOMAIN serving[d]
                                     /\ serving'[d][i] = serving[d][i - 1])
    <2>1. serving[d] \in Seq(Ids) BY DEF ControlOK
    <2>2. h \in Ids BY <1>3, ElementOfSeq
    <2> QED BY <1>6, <2>1, <2>2, Pushed
  <1>11. ServesTaken'
    <2> SUFFICES ASSUME NEW e \in Domains
                 PROVE  /\ \A i \in DOMAIN serving'[e] : /\ serving'[e][i] \in DOMAIN msgs'
                                                          /\ msgs'[serving'[e][i]].to = e
                                                          /\ msgs'[serving'[e][i]].at = "taken"
                        /\ \A n \in DOMAIN msgs' : msgs'[n].to = e /\ msgs'[n].at = "taken"
                              => \E i \in DOMAIN serving'[e] : serving'[e][i] = n
      BY DEF ServesTaken
    <2>1. CASE e # d
      <3>1. serving'[e] = serving[e] BY <1>6, <2>1
      <3>2. \A n \in DOMAIN msgs : msgs[n].to = e => n # h /\ msgs'[n].at = msgs[n].at
        BY <1>4, <1>5, <2>1
      <3>3. /\ \A i \in DOMAIN serving[e] : /\ serving[e][i] \in DOMAIN msgs
                                            /\ msgs[serving[e][i]].to = e
                                            /\ msgs[serving[e][i]].at = "taken"
            /\ \A n \in DOMAIN msgs : msgs[n].to = e /\ msgs[n].at = "taken"
                  => \E i \in DOMAIN serving[e] : serving[e][i] = n
        BY DEF ServesTaken
      <3> QED BY <1>5, <3>1, <3>2, <3>3
    <2>2. CASE e = d
      <3>1. ASSUME NEW i \in DOMAIN serving'[d]
            PROVE  /\ serving'[d][i] \in DOMAIN msgs /\ msgs[serving'[d][i]].to = d
                   /\ msgs'[serving'[d][i]].at = "taken"
        <4>1. CASE i = 1 BY <1>4, <1>5, <1>p, <4>1
        <4>2. CASE i # 1
          <5>1. i - 1 \in DOMAIN serving[d] /\ serving'[d][i] = serving[d][i - 1]
            BY <1>p, <4>2
          <5> QED BY <1>5, <5>1 DEF ServesTaken
        <4> QED BY <4>1, <4>2
      <3>2. ASSUME NEW n \in DOMAIN msgs, msgs[n].to = d, msgs'[n].at = "taken"
            PROVE  \E i \in DOMAIN serving'[d] : serving'[d][i] = n
        <4>1. CASE n = h BY <1>p, <4>1
        <4>2. CASE n # h
          <5>1. PICK i \in DOMAIN serving[d] : serving[d][i] = n
            BY <1>5, <3>2, <4>2 DEF ServesTaken
          <5> QED BY <1>p, <5>1
        <4> QED BY <4>1, <4>2
      <3> QED BY <1>5, <2>2, <3>1, <3>2
    <2> QED BY <2>1, <2>2
  <1>i. InnerLater'
    <2> SUFFICES ASSUME NEW e \in Domains, NEW i \in DOMAIN serving'[e],
                        NEW j \in DOMAIN serving'[e], i < j
                 PROVE  serving'[e][i] > serving'[e][j]
      BY DEF InnerLater
    <2>1. CASE e # d BY <1>6, <2>1 DEF InnerLater
    <2>2. CASE e = d
      <3>1. i \in Nat /\ j \in Nat BY <1>p, <2>2
      <3>2. j # 1
        <4>1. i # 0
          <5>1. i # 1 => i - 1 \in DOMAIN serving[d] BY <1>p, <2>2
          <5>2. DOMAIN serving[d] \subseteq Nat BY LenProperties DEF ControlOK
          <5> QED BY <3>1, <5>1, <5>2
        <4> QED BY <3>1, <4>1
      <3>3. j - 1 \in DOMAIN serving[d] /\ serving'[d][j] = serving[d][j - 1]
        BY <1>p, <2>2, <3>2
      <3>4. CASE i = 1
        <4>1. /\ serving[d][j - 1] \in DOMAIN msgs /\ msgs[serving[d][j - 1]].to = d
              /\ msgs[serving[d][j - 1]].at = "taken"
          BY <3>3 DEF ServesTaken
        <4>2. serving[d][j - 1] < h BY <1>7, <4>1
        <4>3. serving[d][j - 1] \in Nat /\ h \in Nat BY <1>4, <1>5, <4>1
        <4> QED BY <1>p, <2>2, <3>3, <3>4, <4>2, <4>3
      <3>5. CASE i # 1
        <4>1. i - 1 \in DOMAIN serving[d] /\ serving'[d][i] = serving[d][i - 1]
          BY <1>p, <2>2, <3>5
        <4>2. i - 1 < j - 1 BY <3>1
        <4> QED BY <2>2, <3>3, <4>1, <4>2 DEF InnerLater
      <3> QED BY <3>4, <3>5
    <2> QED BY <2>1, <2>2
  <1>12. Unsent'
    <2>1. \A e \in Domains : pc'[e] \in {"none", "create"} => pc[e] \in {"none", "create"} /\ e # d
      BY <1>1 DEF ControlOK
    <2>2. \A n \in DOMAIN msgs : msgs[n].to # d => msgs'[n].at = msgs[n].at
      BY <1>4, <1>5
    <2> QED BY <1>3, <1>5, <2>1, <2>2 DEF Unsent
  <1>13. NoneOvertakes'
    <2>1. \A n \in DOMAIN msgs : n # h => Rank(n)' = Rank(n)
      BY <1>5 DEF Rank
    <2>2. Rank(h)' = 2 /\ Rank(h) = 1
      BY <1>4, <1>5 DEF Rank
    <2>3. \A n \in DOMAIN msgs : msgs[n].at \notin {"made", "queued"} => 2 <= Rank(n)
      BY DEF Rank
    <2> SUFFICES ASSUME NEW p \in DOMAIN msgs, NEW q \in DOMAIN msgs, p < q,
                        msgs[p].to = msgs[q].to, msgs'[p].at # "made"
                 PROVE  Rank(q)' <= Rank(p)'
      BY <1>5 DEF NoneOvertakes
    <2>4. msgs[p].at # "made" /\ Rank(q) <= Rank(p)
      BY <1>4, <1>5 DEF NoneOvertakes
    <2>5. Rank(p) \in Nat /\ Rank(q) \in Nat
      BY DEF Rank
    <2>6. CASE q = h
      <3>1. p # h BY <1>5, <2>6
      <3>2. msgs[p].at # "queued"
        <4>1. ~ (h <= p) BY <1>5, <2>6
        <4> QED BY <1>4, <1>8, <2>6, <4>1
      <3> QED BY <2>1, <2>2, <2>3, <2>4, <2>6, <3>1, <3>2
    <2>7. CASE q # h /\ p = h
      <3>1. Rank(q)' = Rank(q) /\ Rank(q) <= 1 /\ Rank(p)' = 2
        BY <2>1, <2>2, <2>4, <2>7
      <3> QED BY <2>5, <3>1
    <2>8. CASE q # h /\ p # h
      BY <2>1, <2>4, <2>8
    <2> QED BY <2>6, <2>7, <2>8
  <1>14. QueuesSorted'
    <2> SUFFICES ASSUME NEW e \in Domains, live[e],
                        NEW i \in DOMAIN queue'[e], NEW j \in DOMAIN queue'[e], i < j
                 PROVE  queue'[e][i] < queue'[e][j]
      BY <1>1 DEF QueuesSorted
    <2>1. CASE e # d BY <1>3, <2>1 DEF QueuesSorted
    <2>2. CASE e = d
      <3>1. i + 1 \in DOMAIN queue[d] /\ j + 1 \in DOMAIN queue[d] /\ i + 1 < j + 1
        BY <1>3, <2>2
      <3> QED BY <1>3, <2>2, <3>1 DEF QueuesSorted
    <2> QED BY <2>1, <2>2
  <1>15. QueuesHold'
    <2> SUFFICES ASSUME NEW e \in Domains, live[e]
                 PROVE  /\ \A i \in DOMAIN queue'[e] : /\ queue'[e][i] \in DOMAIN msgs
                                                       /\ msgs'[queue'[e][i]].to = e
                                                       /\ msgs'[queue'[e][i]].at = "queued"
                        /\ \A n \in DOMAIN msgs : msgs'[n].to = e /\ msgs'[n].at = "queued"
                              => \E i \in DOMAIN queue'[e] : queue'[e][i] = n
      BY <1>1, <1>5 DEF QueuesHold
    <2>1. CASE e # d
      <3>1. queue'[e] = queue[e] BY <1>3, <2>1
      <3>2. \A n \in DOMAIN msgs : msgs[n].to = e =>
               msgs'[n].to = e /\ msgs'[n].at = msgs[n].at
        BY <1>4, <1>5, <2>1
      <3>3. \A n \in DOMAIN msgs : msgs'[n].to = e => msgs[n].to = e
        BY <1>5
      <3> QED BY <3>1, <3>2, <3>3 DEF QueuesHold
    <2>2. CASE e = d
      <3>1. ASSUME NEW i \in DOMAIN queue'[d]
            PROVE  /\ queue'[d][i] \in DOMAIN msgs
                   /\ msgs'[queue'[d][i]].to = d
                   /\ msgs'[queue'[d][i]].at = "queued"
        <4>1. i + 1 \in DOMAIN queue[d] /\ 1 \in DOMAIN queue[d] /\ 1 < i + 1
          BY <1>3
        <4>2. h < queue[d][i + 1]
          BY <1>2, <1>3, <4>1 DEF QueuesSorted
        <4>3. queue[d][i + 1] \in DOMAIN msgs /\ msgs[queue[d][i + 1]].to = d
              /\ msgs[queue[d][i + 1]].at = "queued"
          BY <1>2, <4>1 DEF QueuesHold
        <4>4. queue[d][i + 1] # h
          BY <1>4, <1>5, <4>2, <4>3
        <4> QED BY <1>3, <1>5, <4>3, <4>4
      <3>2. ASSUME NEW n \in DOMAIN msgs, msgs'[n].to = d, msgs'[n].at = "queued"
            PROVE  \E i \in DOMAIN queue'[d] : queue'[d][i] = n
        <4>1. n # h /\ msgs[n].to = d /\ msgs[n].at = "queued"
          BY <1>5, <3>2
        <4>2. PICK i \in DOMAIN queue[d] : queue[d][i] = n
          BY <1>2, <4>1 DEF QueuesHold
        <4>3. i # 1 BY <1>3, <4>1, <4>2
        <4>4. i - 1 \in DOMAIN queue'[d] /\ (i - 1) + 1 = i
          BY <1>3, <4>2, <4>3
        <4> QED BY <1>3, <4>2, <4>4
      <3> QED BY <2>2, <3>1, <3>2
    <2> QED BY <2>1, <2>2
  <1> QED BY <1>9, <1>10, <1>11, <1>12, <1>13, <1>14, <1>15, <1>i

\* The message that the innermost stub of a domain serves is answered.
LEMMA DoneKeepsOrder ==
  ASSUME OrderInv, ControlOK, MsgsOK, NEW d \in Domains,
         pc[d] \in Answers, Goto(d, "poll"),
         msgs' = [msgs EXCEPT ![Head(serving[d])].at = "done"],
         serving' = [serving EXCEPT ![d] = Tail(@)],
         UNCHANGED <<op, queue, live>>
  PROVE  OrderInv'
  <1> USE DEF OrderInv
  <1>0. PICK s : s = Head(serving[d])
    OBVIOUS
  <1>1. /\ serving[d] # <<>> /\ serving[d][1] = s
        /\ s \in DOMAIN msgs /\ msgs[s].to = d /\ msgs[s].at = "taken"
        /\ \A i \in DOMAIN serving[d] : i # 1 => serving[d][i] # s
    <2>1. serving[d] # <<>> BY DEF ControlOK, ThreadOK, ServePlaces, Answers
    <2> QED BY <1>0, <2>1, HeadServed
  <1>2. /\ DOMAIN msgs' = DOMAIN msgs
        /\ \A n \in DOMAIN msgs : /\ msgs'[n].from = msgs[n].from /\ msgs'[n].to = msgs[n].to
                                  /\ msgs'[n].sync = msgs[n].sync
                                  /\ msgs'[n].at = IF n = s THEN "done" ELSE msgs[n].at
    BY <1>0, FieldWritten DEF MsgsOK
  <1>3. DOMAIN msgs \subseteq Nat BY LenProperties DEF MsgsOK
  <1>4. /\ serving'[d] = Tail(serving[d])
        /\ \A e \in Domains : e # d => serving'[e] = serving[e]
    BY DEF ControlOK
  <1>5. \A e \in Domains : e # d => pc'[e] = pc[e]
    BY DEF ControlOK, Goto
  <1>6. pc'[d] = "poll"
    BY DEF ControlOK, Goto
  <1>7. /\ \A i \in DOMAIN serving'[d] : /\ i \in Nat /\ i + 1 # 1 /\ i + 1 \in DOMAIN serving[d]
                                          /\ serving'[d][i] = serving[d][i + 1]
        /\ \A i \in DOMAIN serving[d] : i # 1 => /\ i - 1 \in DOMAIN serving'[d]
                                                  /\ serving'[d][i - 1] = serving[d][i]
    BY <1>1, <1>4, Popped DEF ControlOK
  <1>9. Addressed' BY <1>2 DEF Addressed
  <1>10. Calling'
    <2>1. \A e \in Domains : pc'[e] \in Early => pc[e] \in Early
      BY <1>5, <1>6 DEF Early
    <2>2. \A e \in Domains : op[e].kind \in Remote /\ pc[e] \in Early => op[e].msg # s
      BY <1>1 DEF Calling
    <2> SUFFICES ASSUME NEW e \in Domains, op[e].kind \in Remote
                 PROVE  /\ op[e].msg \in DOMAIN msgs'
                        /\ msgs'[op[e].msg].from = e
                        /\ msgs'[op[e].msg].to = op[e].target
                        /\ msgs'[op[e].msg].sync <=> op[e].kind = "sync"
                        /\ \A n \in DOMAIN msgs' : msgs'[n].from = e => n <= op[e].msg
                        /\ pc'[e] \in Early => msgs'[op[e].msg].at = "made"
      BY DEF Calling
    <2> QED BY <1>2, <2>1, <2>2 DEF Calling
  <1>11. ServesTaken'
    <2> SUFFICES ASSUME NEW e \in Domains
                 PROVE  /\ \A i \in DOMAIN serving'[e] : /\ serving'[e][i] \in DOMAIN msgs'
                                                          /\ msgs'[serving'[e][i]].to = e
                                                          /\ msgs'[serving'[e][i]].at = "taken"
                        /\ \A n \in DOMAIN msgs' : msgs'[n].to = e /\ msgs'[n].at = "taken"
                              => \E i \in DOMAIN serving'[e] : serving'[e][i] = n
      BY DEF ServesTaken
    <2>1. CASE e # d
      BY <1>1, <1>2, <1>4, <2>1 DEF ServesTaken
    <2>2. CASE e = d
      <3>1. ASSUME NEW i \in DOMAIN serving'[d]
            PROVE  /\ serving'[d][i] \in DOMAIN msgs /\ msgs[serving'[d][i]].to = d
                   /\ msgs'[serving'[d][i]].at = "taken"
        <4>1. /\ i + 1 # 1 /\ i + 1 \in DOMAIN serving[d]
              /\ serving'[d][i] = serving[d][i + 1]
          BY <1>7
        <4> QED BY <1>1, <1>2, <4>1 DEF ServesTaken
      <3>2. ASSUME NEW n \in DOMAIN msgs, msgs[n].to = d, msgs'[n].at = "taken"
            PROVE  \E i \in DOMAIN serving'[d] : serving'[d][i] = n
        <4>1. n # s /\ msgs[n].at = "taken" BY <1>2, <3>2
        <4>2. PICK i \in DOMAIN serving[d] : serving[d][i] = n
          BY <3>2, <4>1 DEF ServesTaken
        <4>3. i # 1 BY <1>1, <4>1, <4>2
        <4> QED BY <1>7, <4>2, <4>3
      <3> QED BY <1>2, <2>2, <3>1, <3>2
    <2> QED BY <2>1, <2>2
  <1>i. InnerLater'
    <2> SUFFICES ASSUME NEW e \in Domains, NEW i \in DOMAIN serving'[e],
                        NEW j \in DOMAIN serving'[e], i < j
                 PROVE  serving'[e][i] > serving'[e][j]
      BY DEF InnerLater
    <2>1. CASE e # d BY <1>4, <2>1 DEF InnerLater
    <2>2. CASE e = d
      <3>1. i + 1 < j + 1 BY <1>7, <2>2
      <3> QED BY <1>7, <2>2, <3>1 DEF InnerLater
    <2> QED BY <2>1, <2>2
  <1>12. Unsent'
    <2>1. \A e \in Domains : pc'[e] \in {"none", "create"} => pc[e] \in {"none", "create"} /\ e # d
      BY <1>5, <1>6
    <2> QED BY <1>1, <1>2, <2>1 DEF Unsent
  <1>13. NoneOvertakes'
    <2>1. \A n \in DOMAIN msgs : Rank(n)' = Rank(n)
      BY <1>1, <1>2 DEF Rank
    <2>2. \A n \in DOMAIN msgs : msgs'[n].at # "made" => msgs[n].at # "made"
      BY <1>1, <1>2
    <2> QED BY <1>2, <2>1, <2>2 DEF NoneOvertakes
  <1>14. QueuesSorted' BY DEF QueuesSorted
  <1>15. QueuesHold'
    BY <1>1, <1>2 DEF QueuesHold
  <1> QED BY <1>9, <1>10, <1>11, <1>12, <1>13, <1>14, <1>15, <1>i

\* What such a step may do to the outcome of calls: a stub ends with a result or an
\* error, and a caller gives up before it has sent its message.
RetStep(d) ==
    \/ /\ \A n \in DOMAIN msgs : msgs'[n].ret = msgs[n].ret
       /\ serving[d] # <<>> => (pc'[d] \in Answers <=> pc[d] \in Answers)
    \/ /\ serving[d] # <<>> /\ pc[d] \notin Answers /\ pc'[d] = "answer"
       /\ msgs'[Head(serving[d])].ret # "none"
       /\ \A n \in DOMAIN msgs : n # Head(serving[d]) => msgs'[n].ret = msgs[n].ret
SawStep(d) ==
    \/ \A n \in DOMAIN msgs : msgs'[n].saw = msgs[n].saw
    \/ /\ op[d].kind = "sync" /\ pc[d] \in Early /\ op'[d].kind = "none"
       /\ msgs'[op[d].msg].saw \in {"timeout", "gone"}
       /\ \A n \in DOMAIN msgs : n # op[d].msg => msgs'[n].saw = msgs[n].saw
Plain(d) ==
    /\ Quiet(d) /\ RetStep(d) /\ SawStep(d) /\ result' = result
    /\ (op'[d].kind = "sync" /\ pc'[d] \in Waiting) <=> (op[d].kind = "sync" /\ pc[d] \in Waiting)
    /\ pc'[d] = "await" => op'[d].kind = "sync"
    /\ pc'[d] = "answered" <=> pc[d] = "answered"

LEMMA AbortFacts ==
  ASSUME ControlOK, MsgsOK, OrderInv, NEW d \in Domains, NEW ms \in Seq(Messages), Abort(d, ms),
         pc[d] \in Early \cup DropPlaces \cup {"user"}, DOMAIN ms = DOMAIN msgs,
         \A n \in DOMAIN msgs : /\ ms[n].from = msgs[n].from /\ ms[n].to = msgs[n].to
                                /\ ms[n].sync = msgs[n].sync /\ ms[n].at = msgs[n].at
                                /\ ms[n].ret = msgs[n].ret
  PROVE  /\ pc'[d] \in {"user", "unpublish", "answer"}
         /\ \A e \in Domains \ {d} : pc'[e] = pc[e]
         /\ Routes /\ RetStep(d)
         /\ \A n \in DOMAIN msgs : msgs'[n].at = msgs[n].at /\ msgs'[n].saw = ms[n].saw
  <1> USE DEF Goto, Early, Answers, DropPlaces
  <1>1. CASE \/ Goto(d, "user") /\ msgs' = ms
             \/ serving[d] = <<>> /\ Goto(d, "unpublish") /\ msgs' = ms
    BY <1>1 DEF ControlOK, Routes, RetStep
  <1>2. CASE /\ serving[d] # <<>> /\ Goto(d, "answer")
             /\ msgs' = [ms EXCEPT ![Head(serving[d])].ret = "error"]
    <2>1. Head(serving[d]) \in DOMAIN msgs
      BY <1>2, HeadServed DEF OrderInv
    <2>2. /\ DOMAIN msgs' = DOMAIN msgs
          /\ \A n \in DOMAIN msgs :
                /\ msgs'[n].from = ms[n].from /\ msgs'[n].to = ms[n].to
                /\ msgs'[n].sync = ms[n].sync /\ msgs'[n].at = ms[n].at
                /\ msgs'[n].saw = ms[n].saw
                /\ msgs'[n].ret = IF n = Head(serving[d]) THEN "error" ELSE ms[n].ret
      BY ONLY <1>2, ms \in Seq(Messages), DOMAIN ms = DOMAIN msgs, FieldWritten
    <2>3. pc'[d] = "answer" /\ \A e \in Domains \ {d} : pc'[e] = pc[e]
      BY <1>2 DEF ControlOK
    <2> QED BY <1>2, <2>1, <2>2, <2>3 DEF Routes, RetStep
  <1> QED BY <1>1, <1>2 DEF Abort

\* Steps that write no message and no queue.
LEMMA PlainMoves ==
  ASSUME ControlOK, NEW d \in Domains, NEW place, Goto(d, place),
         UNCHANGED <<serving, queue, result, msgs>>,
         op' = op \/ (Finish(d) /\ pc[d] \notin Waiting),
         \A e \in Domains : live'[e] => live[e] \/ pc[e] = "create",
         place \in Early => pc[d] \in Early,
         place \in {"none", "create"} => pc[d] \in {"none", "create"},
         op[d].kind = "sync" => (place \in Waiting <=> pc[d] \in Waiting),
         place = "await" => op[d].kind = "sync" /\ op' = op,
         place \in Answers <=> pc[d] \in Answers,
         place = "answered" <=> pc[d] = "answered"
  PROVE  Plain(d)
  <1>1. /\ pc'[d] = place
        /\ \A e \in Domains \ {d} : pc'[e] = pc[e] /\ op'[e] = op[e]
        /\ op'[d] = op[d] \/ (op'[d] = NoOp /\ pc[d] \notin Waiting)
    BY DEF ControlOK, Goto, Finish
  <1>2. NoOp.kind = "none" BY OpFacts
  <1>3. Quiet(d) BY <1>1, <1>2 DEF Quiet, Routes, Remote
  <1>4. RetStep(d) /\ SawStep(d) BY <1>1 DEF RetStep, SawStep
  <1> QED BY <1>1, <1>2, <1>3, <1>4 DEF Plain

\* The steps of the runtime that only move a thread.
RuntimeMoves(d) ==
    \/ CreateDomain(d) \/ CreateDomainFails(d) \/ SetDomain(d)
    \/ SignalDomainIsReady(d) \/ ResetReadiness(d) \/ ClearDomain(d)
    \/ LeaveThread(d) \/ DomainIsReady(d) \/ GetDomain(d) \/ CountReference(d)
    \/ ImportObject(d) \/ Release(d)
    \/ PulseQueue(d) \/ ResetQueuePulse(d) \/ Join(d)
    \/ RetrieveNothing(d) \/ NewMessage(d) \/ PollTimeout(d) \/ CallStub(d)

LEMMA RuntimeMovesPlainly ==
  ASSUME ControlOK, HandleOK, NEW d \in Domains, RuntimeMoves(d)
  PROVE  Plain(d)
  <1> USE DEF Early, Waiting, Answers
  <1>1. CASE \/ CreateDomainFails(d) \/ SetDomain(d) \/ SignalDomainIsReady(d)
             \/ ResetReadiness(d) \/ ClearDomain(d) \/ LeaveThread(d)
             \/ DomainIsReady(d) \/ Release(d) \/ ImportObject(d) \/ RetrieveNothing(d) \/ NewMessage(d) \/ PollTimeout(d)
             \/ CallStub(d)
    <2>1. \E place \in {"dead", "signal", "user", "signalled", "leave", "leaving", "lock",
                        "release", "drop", "pollwait", "poll", "repoll"} :
             /\ Goto(d, place)
             /\ place = "lock" => pc[d] = "ready?"
             /\ pc[d] \notin Waiting \cup Answers
             /\ UNCHANGED <<op, serving, queue, result, msgs, live>>
      BY <1>1 DEF CreateDomainFails, SetDomain, SignalDomainIsReady, ResetReadiness,
           ClearDomain, LeaveThread, DomainIsReady, Release, LoadCount, ImportObject,
           RetrieveNothing, NewMessage, PollTimeout, CallStub, handle, counts, mail
    <2>2. PICK place \in {"dead", "signal", "user", "signalled", "leave", "leaving", "lock",
                          "release", "drop", "pollwait", "poll", "repoll"} :
             /\ Goto(d, place)
             /\ place = "lock" => pc[d] = "ready?"
             /\ pc[d] \notin Waiting \cup Answers
             /\ UNCHANGED <<op, serving, queue, result, msgs, live>>
      BY <2>1
    <2>3. /\ place \notin Waiting \cup Answers \cup {"none", "create", "await", "answered"}
          /\ place \in Early => pc[d] \in Early
          /\ pc[d] # "answered"
      BY <2>2
    <2>4. \A e \in Domains : live'[e] => live[e] \/ pc[e] = "create"
      BY <2>2
    <2> QED BY ONLY ControlOK, d \in Domains, <2>2, <2>3, <2>4, PlainMoves
  <1>2. CASE CreateDomain(d)
    <2>1. /\ Goto(d, "publish") /\ pc[d] = "create"
          /\ UNCHANGED <<op, serving, queue, result, msgs>>
          /\ \A e \in Domains : live'[e] => live[e] \/ pc[e] = "create"
      BY <1>2 DEF CreateDomain, HandleOK, HandleTypes
    <2> QED BY <2>1, PlainMoves
  <1>3. CASE GetDomain(d)
    <2>1. /\ pc[d] = "lock" /\ UNCHANGED <<op, serving, queue, result, msgs, live>>
          /\ \E place \in {"join", "ref"} : Goto(d, place)
      BY <1>3 DEF GetDomain, LoadCount, counts, mail
    <2> QED BY <2>1, PlainMoves
  <1>6. CASE CountReference(d)
    <2>1. /\ pc[d] = "ref" /\ UNCHANGED <<op, serving, queue, result, msgs, live>>
          /\ \E place \in {"release", "import", "enqueue"} : Goto(d, place)
      BY <1>6 DEF CountReference, Got, mail
    <2> QED BY <2>1, PlainMoves
  <1>4. CASE PulseQueue(d) \/ ResetQueuePulse(d)
    <2>1. /\ pc[d] \in {"pulse", "pulsed"}
          /\ Goto(d, Sent(d)) \/ Goto(d, "pulsed")
          /\ UNCHANGED <<op, serving, queue, result, msgs, live>>
      BY <1>4 DEF PulseQueue, ResetQueuePulse, handle, counts
    <2>2. CASE Goto(d, "pulsed") BY <2>1, <2>2, PlainMoves
    <2>3. CASE Goto(d, Sent(d))
      <3>1. CASE op[d].kind = "sync"
        <4>1. Goto(d, "await") BY <2>3, <3>1 DEF Sent
        <4> QED BY <2>1, <3>1, <4>1, PlainMoves
      <3>2. CASE op[d].kind # "sync"
        <4>1. Goto(d, "release") BY <2>3, <3>2 DEF Sent
        <4> QED BY <2>1, <3>2, <4>1, PlainMoves
      <3> QED BY <3>1, <3>2
    <2> QED BY <2>1, <2>2, <2>3
  <1>5. CASE Join(d)
    <2>1. /\ pc[d] = "join" /\ Goto(d, "user") /\ Finish(d)
          /\ UNCHANGED <<serving, queue, result, msgs, live>>
      BY <1>5 DEF Join, handle, counts, mail
    <2> QED BY <2>1, PlainMoves
  <1> QED BY <1>1, <1>2, <1>3, <1>4, <1>5, <1>6 DEF RuntimeMoves

\* An operation ends, perhaps with an abort.
LEMMA AbortsPlainly ==
  ASSUME ControlOK, MsgsOK, OrderInv, NEW d \in Domains, NEW ms \in Seq(Messages), Finish(d),
         \/ Abort(d, ms)
         \/ Goto(d, "user") /\ msgs' = ms,
         pc[d] \in Early \cup DropPlaces,
         DOMAIN ms = DOMAIN msgs,
         \A n \in DOMAIN msgs : /\ ms[n].from = msgs[n].from /\ ms[n].to = msgs[n].to
                                /\ ms[n].sync = msgs[n].sync /\ ms[n].at = msgs[n].at
                                /\ ms[n].ret = msgs[n].ret,
         \/ \A n \in DOMAIN msgs : ms[n].saw = msgs[n].saw
         \/ /\ op[d].kind = "sync" /\ pc[d] \in Early
            /\ ms[op[d].msg].saw \in {"timeout", "gone"}
            /\ \A n \in DOMAIN msgs : n # op[d].msg => ms[n].saw = msgs[n].saw,
         UNCHANGED <<serving, result, live>>,
         \A e \in Domains : queue'[e] = queue[e] \/ (queue'[e] = <<>> /\ ~live[e])
  PROVE  Plain(d)
  <1> USE DEF Early, Waiting, Answers, DropPlaces
  <1>1. /\ pc'[d] \in {"user", "unpublish", "answer"}
        /\ \A e \in Domains \ {d} : pc'[e] = pc[e]
        /\ Routes /\ RetStep(d)
        /\ \A n \in DOMAIN msgs : msgs'[n].at = msgs[n].at /\ msgs'[n].saw = ms[n].saw
    <2>1. CASE Abort(d, ms) BY <2>1, AbortFacts
    <2>2. CASE Goto(d, "user") /\ msgs' = ms
      BY <2>2 DEF ControlOK, Goto, Routes, RetStep
    <2> QED BY <2>1, <2>2
  <1>2. op'[d] = NoOp /\ \A e \in Domains \ {d} : op'[e] = op[e]
    BY DEF ControlOK, Finish
  <1>3. NoOp.kind = "none" BY OpFacts
  <1>4. Quiet(d) BY <1>1, <1>2, <1>3 DEF Quiet, Remote
  <1>5. SawStep(d)
    <2>1. op[d].kind = "sync" /\ pc[d] \in Early => op[d].msg \in DOMAIN msgs
      BY DEF OrderInv, Calling, Remote
    <2> QED BY <1>1, <1>2, <1>3, <2>1 DEF SawStep
  <1> QED BY <1>1, <1>2, <1>3, <1>4, <1>5 DEF Plain

LEMMA OperationEndsPlainly ==
  ASSUME ControlOK, MsgsOK, OrderInv, NEW d \in Domains, EndOperation(d),
         pc[d] \in DropPlaces, UNCHANGED <<serving, result, live>>,
         \A e \in Domains : queue'[e] = queue[e] \/ (queue'[e] = <<>> /\ ~live[e])
  PROVE  Plain(d)
  <1>1. msgs \in Seq(Messages) BY DEF MsgsOK
  <1>2. Finish(d) /\ (Abort(d, msgs) \/ (Goto(d, "user") /\ msgs' = msgs))
    BY DEF EndOperation
  <1> QED BY <1>1, <1>2, AbortsPlainly

\* The steps that end an operation or a thread.
Ends(d) == \/ Drop(d) \/ Reread(d) \/ EndDestroy(d)
           \/ ReadinessTimeout(d) \/ DomainIsGone(d)

LEMMA EndsPlainly ==
  ASSUME ControlOK, HandleOK, Mailbox, MsgsOK, OrderInv, NEW d \in Domains, Ends(d)
  PROVE  Plain(d)
  <1> USE DEF Early, Waiting, Answers
  <1>0. msgs \in Seq(Messages) BY DEF MsgsOK
  <1>1. CASE Drop(d) \/ Reread(d)
    <2>1. /\ pc[d] \in {"drop", "dropped", "leaving", "left"}
          /\ UNCHANGED <<serving, result, queue>>
      BY <1>1 DEF Drop, Reread
    <2>2. CASE /\ \E place \in {"dropped", "left", "destroy", "epilog", "dead"} : Goto(d, place)
               /\ UNCHANGED <<op, msgs>>
               /\ \A e \in Domains : live'[e] => live[e]
      BY <2>1, <2>2, PlainMoves
    <2>3. CASE EndOperation(d) /\ live' = live /\ Dropped(d) # d
      <3>1. pc[d] \in DropPlaces BY <2>1, <2>3, WhichDropped DEF DropPlaces, LeavePlaces
      <3> QED BY <2>1, <2>3, <3>1, OperationEndsPlainly
    <2>4. ASSUME NEW zero \in BOOLEAN, Unreferenced(d, zero) PROVE Plain(d)
      <3>1. CASE zero
        <4>1. /\ \E place \in {"epilog", "destroy"} : Goto(d, place)
              /\ UNCHANGED <<op, msgs>> /\ live' = [live EXCEPT ![Dropped(d)] = FALSE]
          BY <2>4, <3>1 DEF Unreferenced
        <4> QED BY <2>2, <4>1 DEF HandleOK, HandleTypes
      <3>2. CASE ~zero /\ Dropped(d) = d
        <4>1. Goto(d, "dead") /\ UNCHANGED <<op, msgs, live>>
          BY <2>4, <3>2 DEF Unreferenced
        <4> QED BY <2>2, <4>1
      <3>3. CASE ~zero /\ Dropped(d) # d
        BY <2>3, <2>4, <3>3 DEF Unreferenced
      <3> QED BY <3>1, <3>2, <3>3
    <2>5. CASE Drop(d) /\ Rereads
      <3>1. /\ \E place \in {"dropped", "left"} : Goto(d, place)
            /\ UNCHANGED <<op, msgs, live>>
        BY <2>5 DEF Drop
      <3> QED BY <2>2, <3>1
    <2>6. CASE Drop(d) /\ ~Rereads
      <3>1. Unreferenced(d, loaded[d] = 1) BY <2>6 DEF Drop
      <3> QED BY <2>4, <3>1
    <2>7. CASE Reread(d)
      <3>1. \E zero \in BOOLEAN : Unreferenced(d, zero) BY <2>7 DEF Reread
      <3> QED BY <2>4, <3>1
    <2> QED BY <1>1, <2>5, <2>6, <2>7
  <1>2. CASE EndDestroy(d)
    <2> DEFINE c == Dropped(d)
    <2>1. /\ pc[d] \in {"destroy", "epilog"} /\ queue' = [queue EXCEPT ![c] = <<>>]
          /\ UNCHANGED <<serving, result, live>>
          /\ IF c = d THEN Goto(d, "dead") /\ UNCHANGED <<op, msgs>> ELSE EndOperation(d)
      BY <1>2 DEF EndDestroy, counts
    <2>2. /\ c = d <=> pc[d] = "epilog"
          /\ c \in Domains /\ ~live[c]
      <3>1. CASE pc[d] = "epilog"
        BY <3>1, WhichDropped DEF LeavePlaces, HandleOK, DomainOK
      <3>2. CASE pc[d] = "destroy"
        <4>1. c = Target(d) /\ c \in Domains \ {Base} /\ Creator[c] = d /\ c # d
          BY <3>2, WhichDropped DEF DropPlaces
        <4>2. Destroying(c) BY <3>2, <4>1 DEF Destroying
        <4> QED BY <3>2, <4>1, <4>2 DEF HandleOK, DomainOK
      <3> QED BY <2>1, <3>1, <3>2
    <2> HIDE DEF c
    <2>3. \A e \in Domains : queue'[e] = queue[e] \/ (queue'[e] = <<>> /\ ~live[e])
      BY <2>1, <2>2 DEF Mailbox
    <2>4. CASE pc[d] = "epilog"
      <3>1. Goto(d, "dead") /\ UNCHANGED <<op, msgs>> BY <2>1, <2>2, <2>4
      <3>2. /\ pc'[d] = "dead" /\ \A e \in Domains \ {d} : pc'[e] = pc[e]
        BY <3>1 DEF ControlOK, Goto
      <3>3. Quiet(d) BY <2>1, <2>3, <3>1, <3>2 DEF Quiet, Routes
      <3>4. RetStep(d) /\ SawStep(d) BY <2>4, <3>1, <3>2 DEF RetStep, SawStep
      <3> QED BY <2>1, <2>4, <3>1, <3>2, <3>3, <3>4 DEF Plain
    <2>5. CASE pc[d] = "destroy"
      <3>1. EndOperation(d) /\ pc[d] \in DropPlaces BY <2>1, <2>2, <2>5 DEF DropPlaces
      <3> QED BY <2>1, <2>3, <3>1, OperationEndsPlainly
    <2> QED BY <2>1, <2>4, <2>5
  <1>3. ASSUME NEW what \in {"timeout", "gone"}, op[d].kind = "sync", pc[d] \in Early
        PROVE  LET ms == Saw(op[d].msg, what)
               IN /\ ms \in Seq(Messages)
                  /\ DOMAIN ms = DOMAIN msgs
                  /\ \A n \in DOMAIN msgs :
                        /\ ms[n].from = msgs[n].from /\ ms[n].to = msgs[n].to
                        /\ ms[n].sync = msgs[n].sync /\ ms[n].at = msgs[n].at
                        /\ ms[n].ret = msgs[n].ret
                        /\ n # op[d].msg => ms[n].saw = msgs[n].saw
                  /\ ms[op[d].msg].saw \in {"timeout", "gone"}
    <2>1. op[d].msg \in DOMAIN msgs
      BY <1>3 DEF OrderInv, Calling, Remote
    <2> DEFINE ms == [msgs EXCEPT ![op[d].msg].saw = what]
    <2>2. ms \in Seq(Messages)
      BY <1>0, MessageUpdate
    <2>3. /\ DOMAIN ms = DOMAIN msgs
          /\ \A n \in DOMAIN msgs :
                /\ ms[n].from = msgs[n].from /\ ms[n].to = msgs[n].to
                /\ ms[n].sync = msgs[n].sync /\ ms[n].at = msgs[n].at
                /\ ms[n].ret = msgs[n].ret
                /\ ms[n].saw = IF n = op[d].msg THEN what ELSE msgs[n].saw
      BY ONLY <1>0, FieldWritten
    <2>4. Saw(op[d].msg, what) = ms BY DEF Saw
    <2> HIDE DEF ms
    <2> QED BY <2>1, <2>2, <2>3, <2>4
  <1>5. CASE ReadinessTimeout(d) \/ DomainIsGone(d)
    <2>1. /\ pc[d] \in Early /\ Finish(d) /\ UNCHANGED <<serving, result, queue, live>>
      BY <1>5 DEF ReadinessTimeout, DomainIsGone, handle, counts
    <2>2. \/ Goto(d, "user") /\ UNCHANGED msgs
          \/ Abort(d, msgs)
          \/ op[d].kind = "sync" /\ Abort(d, Saw(op[d].msg, "timeout"))
          \/ op[d].kind = "sync" /\ Abort(d, Saw(op[d].msg, "gone"))
      BY <1>5 DEF ReadinessTimeout, DomainIsGone
    <2>3. CASE Goto(d, "user") /\ UNCHANGED msgs
      BY <2>1, <2>3, PlainMoves
    <2>4. CASE Abort(d, msgs)
      BY <1>0, <2>1, <2>4, AbortsPlainly
    <2>5. CASE op[d].kind = "sync" /\ Abort(d, Saw(op[d].msg, "timeout"))
      BY <1>3, <2>1, <2>5, AbortsPlainly
    <2>6. CASE op[d].kind = "sync" /\ Abort(d, Saw(op[d].msg, "gone"))
      BY <1>3, <2>1, <2>6, AbortsPlainly
    <2> QED BY <2>2, <2>3, <2>4, <2>5, <2>6
  <1> QED BY <1>1, <1>2, <1>5 DEF Ends

\* A stub ends, or is not found.
LEMMA StubEndsPlainly ==
  ASSUME ControlOK, MsgsOK, OrderInv, NEW d \in Domains, Refuse(d) \/ StubReturns(d)
  PROVE  Plain(d)
  <1> USE DEF Early, Waiting, Answers
  <1>1. PICK r \in {"ok", "error"} :
           /\ pc[d] \in {"dispatch", "user"} /\ serving[d] # <<>>
           /\ msgs' = [msgs EXCEPT ![Head(serving[d])].ret = r] /\ Goto(d, "answer")
           /\ UNCHANGED <<op, serving, queue, result, live>>
    BY DEF Refuse, StubReturns, handle, counts, ControlOK, ThreadOK, ServePlaces
  <1>2. /\ DOMAIN msgs' = DOMAIN msgs
        /\ \A n \in DOMAIN msgs :
              /\ msgs'[n].from = msgs[n].from /\ msgs'[n].to = msgs[n].to
              /\ msgs'[n].sync = msgs[n].sync /\ msgs'[n].at = msgs[n].at
              /\ msgs'[n].saw = msgs[n].saw
              /\ msgs'[n].ret = IF n = Head(serving[d]) THEN r ELSE msgs[n].ret
    BY ONLY <1>1, MsgsOK, FieldWritten DEF MsgsOK
  <1>3. Head(serving[d]) \in DOMAIN msgs
    BY <1>1, HeadServed DEF OrderInv
  <1>4. pc'[d] = "answer" /\ \A e \in Domains \ {d} : pc'[e] = pc[e] /\ op'[e] = op[e]
    BY <1>1 DEF ControlOK, Goto
  <1>5. Quiet(d) BY <1>1, <1>2, <1>4 DEF Quiet, Routes
  <1>6. RetStep(d) BY <1>1, <1>2, <1>3, <1>4 DEF RetStep
  <1>7. SawStep(d) BY <1>2 DEF SawStep
  <1> QED BY <1>1, <1>4, <1>5, <1>6, <1>7 DEF Plain

\* What the Skizo code does without making a message.
UserMoves(d) ==
    \/ \E c \in Domains \ {Base}, kind \in Kinds \ Remote : Begin(d, c, kind)
    \/ Export(d) \/ Unexport(d) \/ Listen(d) \/ StopListening(d)
    \/ AbortInUserCode(d) \/ ReturnFromMain(d)

LEMMA UserMovesPlainly ==
  ASSUME ControlOK, MsgsOK, OrderInv, NEW d \in Domains, UserMoves(d)
  PROVE  Plain(d)
  <1> USE DEF Early, Waiting, Answers
  <1>1. CASE Export(d) \/ Unexport(d)
    <2>1. UNCHANGED <<pc, op, serving, live, queue, result, msgs>>
      BY <1>1 DEF Export, Unexport, control, handle, counts
    <2>2. Quiet(d) BY <2>1 DEF Quiet, Routes
    <2>3. RetStep(d) /\ SawStep(d) BY <2>1 DEF RetStep, SawStep
    <2>4. pc[d] = "await" => op[d].kind = "sync" \/ pc[d] # "user"
      OBVIOUS
    <2>5. pc[d] = "user" BY <1>1 DEF Export, Unexport
    <2> QED BY <2>1, <2>2, <2>3, <2>5 DEF Plain
  <1>2. CASE Listen(d) \/ StopListening(d) \/ ReturnFromMain(d)
    <2>1. /\ Goto(d, "poll") \/ Goto(d, "user") \/ Goto(d, "unpublish")
          /\ pc[d] \in {"user", "poll"}
          /\ UNCHANGED <<op, serving, live, queue, result, msgs>>
      BY <1>2 DEF Listen, StopListening, ReturnFromMain, handle, counts, mail
    <2> QED BY <2>1, PlainMoves
  <1>3. CASE AbortInUserCode(d)
    <2>1. /\ pc[d] = "user" /\ Abort(d, msgs)
          /\ UNCHANGED <<op, serving, live, queue, result>>
      BY <1>3 DEF AbortInUserCode, handle, counts
    <2>2. /\ pc'[d] \in {"user", "unpublish", "answer"}
          /\ \A e \in Domains \ {d} : pc'[e] = pc[e]
          /\ Routes /\ RetStep(d)
          /\ \A n \in DOMAIN msgs : msgs'[n].at = msgs[n].at /\ msgs'[n].saw = msgs[n].saw
      BY <2>1, AbortFacts DEF MsgsOK
    <2>3. Quiet(d) /\ SawStep(d) BY <2>1, <2>2 DEF Quiet, SawStep
    <2> QED BY <2>1, <2>2, <2>3 DEF Plain
  <1>4. ASSUME NEW c \in Domains \ {Base}, NEW kind \in Kinds \ Remote, Begin(d, c, kind)
        PROVE  Plain(d)
    <2>1. /\ pc[d] = "user" /\ Goto(d, "ready?") /\ kind \notin Remote
          /\ op' = [op EXCEPT ![d] = [kind |-> kind, target |-> c, msg |-> None, abort |-> FALSE]]
          /\ UNCHANGED <<serving, live, queue, result, msgs>>
      BY <1>4 DEF Begin, handle, counts, Remote
    <2>2. /\ pc'[d] = "ready?" /\ op'[d].kind = kind
          /\ \A e \in Domains \ {d} : pc'[e] = pc[e] /\ op'[e] = op[e]
      BY <2>1 DEF ControlOK, Goto
    <2>3. Quiet(d) BY <2>1, <2>2 DEF Quiet, Routes
    <2>4. RetStep(d) /\ SawStep(d) BY <2>1, <2>2 DEF RetStep, SawStep
    <2>5. op[d].kind # "sync" \/ pc[d] \notin {"pulse", "pulsed", "await"}
      BY <2>1
    <2> QED BY <2>1, <2>2, <2>3, <2>4, <2>5 DEF Plain, Remote
  <1> QED BY <1>1, <1>2, <1>3, <1>4 DEF UserMoves

LEMMA CreatesPlainly ==
  ASSUME ControlOK, NEW d \in Domains, NEW c \in Domains \ {Base}, CreateRemoteDomain(d, c)
  PROVE  Plain(c)
  <1>1. /\ pc[c] = "none" /\ Goto(c, "create")
        /\ UNCHANGED <<op, serving, live, queue, result, msgs>>
    BY DEF CreateRemoteDomain, handle, counts, mail
  <1> QED BY <1>1, PlainMoves DEF Early, Waiting, Answers

\* Who waits for a result stops waiting.
LEMMA ResultFacts ==
  ASSUME ControlOK, MsgsOK, NEW d \in Domains, ResultArrives(d) \/ ResultTimeout(d)
  PROVE  /\ pc[d] = "await" /\ pc'[d] = "release" /\ serving' = serving
         /\ \A e \in Domains \ {d} : pc'[e] = pc[e] /\ op'[e] = op[e]
         /\ op'[d].kind = op[d].kind /\ op'[d].target = op[d].target /\ op'[d].msg = op[d].msg
         /\ DOMAIN msgs' = DOMAIN msgs
         /\ \A n \in DOMAIN msgs :
               /\ msgs'[n].from = msgs[n].from /\ msgs'[n].to = msgs[n].to
               /\ msgs'[n].sync = msgs[n].sync /\ msgs'[n].at = msgs[n].at
               /\ msgs'[n].ret = msgs[n].ret
               /\ n # op[d].msg => msgs'[n].saw = msgs[n].saw
         /\ queue' = queue /\ live' = live
  <1>1. \A b \in BOOLEAN : LET o == [op[d] EXCEPT !.abort = b]
                           IN o.kind = op[d].kind /\ o.target = op[d].target /\ o.msg = op[d].msg
    BY OpFacts DEF ControlOK
  <1>2. PICK what, b : /\ b \in BOOLEAN
                       /\ msgs' = [msgs EXCEPT ![op[d].msg].saw = what]
                       /\ op' = [op EXCEPT ![d].abort = b]
                       /\ pc[d] = "await" /\ Goto(d, "release")
                       /\ UNCHANGED <<serving, queue, live>>
    <2>1. CASE ResultArrives(d)
      BY <2>1 DEF ResultArrives, Saw, handle, counts
    <2>2. CASE ResultTimeout(d)
      BY <2>2 DEF ResultTimeout, Saw, handle, counts
    <2> QED BY <2>1, <2>2
  <1>3. /\ op'[d] = [op[d] EXCEPT !.abort = b] /\ pc'[d] = "release"
        /\ \A e \in Domains \ {d} : pc'[e] = pc[e] /\ op'[e] = op[e]
    BY <1>2 DEF ControlOK, Goto
  <1>4. /\ DOMAIN msgs' = DOMAIN msgs
        /\ \A n \in DOMAIN msgs :
              /\ msgs'[n].from = msgs[n].from /\ msgs'[n].to = msgs[n].to
              /\ msgs'[n].sync = msgs[n].sync /\ msgs'[n].at = msgs[n].at
              /\ msgs'[n].ret = msgs[n].ret
              /\ n # op[d].msg => msgs'[n].saw = msgs[n].saw
    BY ONLY <1>2, MsgsOK, FieldWritten DEF MsgsOK
  <1> QED BY <1>1, <1>2, <1>3, <1>4

-----------------------------------------------------------------------------
LEMMA OrderKept ==
  ASSUME IInv, OrderInv, NEW d \in Domains, RuntimeStep(d) \/ UserStep(d)
  PROVE  OrderInv'
  <1> USE DEF IInv
  <1>1. ASSUME NEW e \in Domains, Plain(e)
        PROVE  OrderInv'
    BY <1>1, QuietKeepsOrder DEF Plain
  <1>2. CASE RuntimeMoves(d) \/ Ends(d) \/ Refuse(d) \/ StubReturns(d) \/ UserMoves(d)
    BY <1>1, <1>2, RuntimeMovesPlainly, EndsPlainly, StubEndsPlainly, UserMovesPlainly
  <1>3. CASE \E c \in Domains \ {Base} : CreateRemoteDomain(d, c)
    BY <1>1, <1>3, CreatesPlainly
  <1>4. CASE \E c \in Domains \ {Base}, kind \in Remote : Begin(d, c, kind)
    BY <1>4, BeginKeepsOrder DEF HandleOK, ControlOK
  <1>5. CASE Enqueue(d)
    BY <1>5, EnqueueKeepsOrder
  <1>6. CASE Retrieve(d)
    BY <1>6, RetrieveKeepsOrder
  <1>7. CASE ResultArrives(d) \/ ResultTimeout(d)
    <2>1. Quiet(d)
      BY <1>7, ResultFacts DEF Quiet, Routes, Early
    <2> QED BY <2>1, QuietKeepsOrder
  <1>8. CASE ResetAnswer(d) \/ Forget(d) \/ (Answer(d) /\ Win32)
    <2>1. /\ pc[d] \in Answers /\ Goto(d, "poll")
          /\ msgs' = [msgs EXCEPT ![Head(serving[d])].at = "done"]
          /\ serving' = [serving EXCEPT ![d] = Tail(@)]
          /\ UNCHANGED <<op, queue, live>>
      BY <1>8 DEF ResetAnswer, Forget, Answer, Answers, handle, counts
    <2> QED BY <2>1, DoneKeepsOrder
  <1>9. CASE Answer(d) /\ ~Win32
    <2>1. /\ pc[d] = "answer" /\ Goto(d, "answered")
          /\ UNCHANGED <<op, serving, queue, live, msgs>>
      BY <1>9 DEF Answer, handle, counts
    <2>2. pc'[d] = "answered" /\ \A e \in Domains \ {d} : pc'[e] = pc[e]
      BY <2>1 DEF ControlOK, Goto
    <2>3. Quiet(d)
      BY <2>1, <2>2 DEF Quiet, Routes, Early
    <2> QED BY <2>3, QuietKeepsOrder
  <1>10. CASE UserStep(d)
    BY <1>2, <1>3, <1>4, <1>10 DEF UserStep, UserMoves, Ends
  <1>11. CASE RuntimeStep(d)
    BY <1>2, <1>5, <1>6, <1>7, <1>8, <1>9, <1>11 DEF RuntimeStep, RuntimeMoves, Ends
  <1> QED BY <1>10, <1>11

LEMMA OrderStarts == Init => OrderInv
  <1> SUFFICES ASSUME Init PROVE OrderInv OBVIOUS
  <1>1. DOMAIN msgs = {} /\ NoOp.kind \notin Remote
    BY OpFacts DEF Init, Remote
  <1>2. /\ \A e \in Domains : op[e] = NoOp /\ serving[e] = <<>> /\ queue[e] = <<>>
        /\ DOMAIN <<>> = {}
    BY DEF Init
  <1> QED BY <1>1, <1>2 DEF OrderInv, Addressed, Calling, ServesTaken, InnerLater, Unsent,
                            NoneOvertakes, QueuesSorted, QueuesHold

-----------------------------------------------------------------------------
(***************************************************************************)
(* Outcomes. A caller waits for the result of the message it sent last, or *)
(* it has given up an earlier one, whose result may then wake it up.       *)
(***************************************************************************)
Answered(m) == \/ msgs[m].at = "done"
               \/ /\ msgs[m].at = "taken" /\ pc[msgs[m].to] = "answered"
                  /\ m = Head(serving[msgs[m].to])
WaitsFor(d, m) == op[d].kind = "sync" /\ op[d].msg = m /\ pc[d] \in Waiting
Late(d, m) == \E n \in DOMAIN msgs : n <= m /\ msgs[n].from = d /\ msgs[n].saw = "timeout"
TimedOut(d) == \E n \in DOMAIN msgs : msgs[n].from = d /\ msgs[n].saw = "timeout"

\* A message has a result when its stub has ended.
Results == /\ \A m \in DOMAIN msgs : /\ msgs[m].at \in {"made", "queued"} => msgs[m].ret = "none"
                                     /\ msgs[m].at = "done" => msgs[m].ret # "none"
           /\ \A d \in Domains : \A i \in DOMAIN serving[d] :
                 msgs[serving[d][i]].ret = "none" <=> (i # 1 \/ pc[d] \notin Answers)
\* The caller has not seen how the call it is in went.
Unseen == \A d \in Domains : /\ pc[d] = "await" => op[d].kind = "sync"
                             /\ op[d].kind = "sync" /\ pc[d] \in Early \cup Waiting
                                   => msgs[op[d].msg].saw = "none"
\* Who serves a blocking message will wake up a caller that waits for it, or one that
\* has given up some call.
Awaited == \A m \in DOMAIN msgs :
              msgs[m].sync /\ msgs[m].at \in {"queued", "taken"} /\ ~Answered(m)
                 => WaitsFor(msgs[m].from, m) \/ Late(msgs[m].from, m)
\* A result object that is set belongs to the call that waits, or some call was given up.
Woken == \A d \in Domains : result[d] =>
            \/ \E m \in DOMAIN msgs : WaitsFor(d, m) /\ Answered(m)
            \/ TimedOut(d)
Excused == \A m \in DOMAIN msgs : msgs[m].saw = "ok" /\ msgs[m].ret # "ok" =>
              \E n \in DOMAIN msgs : /\ n < m /\ msgs[n].from = msgs[m].from
                                     /\ msgs[n].saw = "timeout"

OutcomeInv == Results /\ Unseen /\ Awaited /\ Woken /\ Excused

LEMMA AllExcused == MsgsOK => (ReturnsWhenExecuted <=> Excused)
  <1> SUFFICES ASSUME MsgsOK PROVE ReturnsWhenExecuted <=> Excused
    OBVIOUS
  <1>1. DOMAIN msgs = 1..Len(msgs) /\ Len(msgs) \in Nat
    BY LenProperties DEF MsgsOK
  <1>2. \A n : \A m \in DOMAIN msgs : n \in 1..(m - 1) <=> n \in DOMAIN msgs /\ n < m
    BY <1>1
  <1> QED BY <1>2 DEF ReturnsWhenExecuted, Excused

LEMMA PlainKeepsOutcome ==
  ASSUME OrderInv, OutcomeInv, ControlOK, MsgsOK, NEW d \in Domains, Plain(d)
  PROVE  OutcomeInv'
  <1> USE DEF OutcomeInv
  <1>1. /\ DOMAIN msgs' = DOMAIN msgs /\ serving' = serving /\ result' = result
        /\ \A n \in DOMAIN msgs : /\ msgs'[n].from = msgs[n].from /\ msgs'[n].to = msgs[n].to
                                  /\ msgs'[n].sync = msgs[n].sync /\ msgs'[n].at = msgs[n].at
        /\ \A e \in Domains \ {d} : pc'[e] = pc[e] /\ op'[e] = op[e]
    BY DEF Plain, Quiet, Routes
  <1>2. \A n \in DOMAIN msgs : msgs[n].to \in Domains
    BY DEF OrderInv, Addressed
  <1>3. op[d].kind = "sync" => op[d].msg \in DOMAIN msgs /\ msgs[op[d].msg].from = d
    BY DEF OrderInv, Calling, Remote
  <1>4. /\ \A n \in DOMAIN msgs : msgs[n].saw = "timeout" => msgs'[n].saw = "timeout"
        /\ \A n \in DOMAIN msgs : msgs'[n].saw = "ok" => msgs[n].saw = "ok"
        /\ \A n \in DOMAIN msgs : msgs[n].from # d => msgs'[n].saw = msgs[n].saw
    <2>1. CASE \A n \in DOMAIN msgs : msgs'[n].saw = msgs[n].saw
      BY <2>1
    <2>2. CASE /\ op[d].kind = "sync" /\ pc[d] \in Early
               /\ msgs'[op[d].msg].saw \in {"timeout", "gone"}
               /\ \A n \in DOMAIN msgs : n # op[d].msg => msgs'[n].saw = msgs[n].saw
      <3>1. msgs[op[d].msg].saw = "none"
        BY <2>2 DEF Unseen
      <3> QED BY <1>3, <2>2, <3>1
    <2> QED BY <2>1, <2>2 DEF Plain, SawStep
  <1>5. \A e, m : Late(e, m) => Late(e, m)'
    BY <1>1, <1>4 DEF Late
  <1>6. \A e : TimedOut(e) => TimedOut(e)'
    BY <1>1, <1>4 DEF TimedOut
  <1>7. ASSUME NEW e \in Domains, NEW m
        PROVE  WaitsFor(e, m)' <=> WaitsFor(e, m)
    <2>1. CASE e = d
      BY <2>1 DEF WaitsFor, Plain, Quiet, Remote
    <2>2. CASE e # d
      BY <1>1, <2>2 DEF WaitsFor
    <2> QED BY <2>1, <2>2
  <1>8. \A m \in DOMAIN msgs : Answered(m)' <=> Answered(m)
    <2>1. \A e \in Domains : pc'[e] = "answered" <=> pc[e] = "answered"
      BY <1>1 DEF Plain
    <2> QED BY <1>1, <1>2, <2>1 DEF Answered
  <1>9. /\ \A n \in DOMAIN msgs : msgs'[n].ret # msgs[n].ret =>
              n = Head(serving[d]) /\ serving[d] # <<>> /\ pc[d] \notin Answers
        /\ \A n \in DOMAIN msgs : msgs'[n].ret # msgs[n].ret => msgs'[n].ret # "none"
    BY DEF Plain, RetStep
  <1>10. \A e \in Domains : \A i \in DOMAIN serving[e] :
            /\ serving[e][i] \in DOMAIN msgs /\ msgs[serving[e][i]].to = e
            /\ msgs[serving[e][i]].at = "taken"
    BY DEF OrderInv, ServesTaken
  <1>h. serving[d] # <<>> =>
          /\ 1 \in DOMAIN serving[d] /\ serving[d][1] = Head(serving[d])
          /\ Head(serving[d]) \in DOMAIN msgs
          /\ msgs[Head(serving[d])].to = d /\ msgs[Head(serving[d])].at = "taken"
          /\ \A i \in DOMAIN serving[d] : i # 1 => serving[d][i] # Head(serving[d])
    BY HeadServed DEF OrderInv
  <1>11. Results'
    <2>1. ASSUME NEW m \in DOMAIN msgs
          PROVE  /\ msgs'[m].at \in {"made", "queued"} => msgs'[m].ret = "none"
                 /\ msgs'[m].at = "done" => msgs'[m].ret # "none"
      BY <1>1, <1>9, <1>h DEF Results
    <2>2. ASSUME NEW e \in Domains, NEW i \in DOMAIN serving[e]
          PROVE  msgs'[serving[e][i]].ret = "none" <=> (i # 1 \/ pc'[e] \notin Answers)
      <3>0. msgs[serving[e][i]].ret = "none" <=> (i # 1 \/ pc[e] \notin Answers)
        BY DEF Results
      <3>1. CASE e # d
        <4>1. serving[e][i] # Head(serving[d]) \/ serving[d] = <<>>
          BY <1>10, <1>h, <3>1
        <4>2. msgs'[serving[e][i]].ret = msgs[serving[e][i]].ret
          BY <1>9, <1>10, <4>1
        <4> QED BY <1>1, <3>0, <3>1, <4>2
      <3>2. CASE e = d
        <4>1. serving[d] # <<>>
          <5>1. DOMAIN <<>> = {} OBVIOUS
          <5> QED BY <3>2, <5>1
        <4>2. CASE /\ \A n \in DOMAIN msgs : msgs'[n].ret = msgs[n].ret
                   /\ serving[d] # <<>> => (pc'[d] \in Answers <=> pc[d] \in Answers)
          BY <1>10, <3>0, <3>2, <4>1, <4>2
        <4>3. CASE /\ serving[d] # <<>> /\ pc[d] \notin Answers /\ pc'[d] = "answer"
                   /\ msgs'[Head(serving[d])].ret # "none"
                   /\ \A n \in DOMAIN msgs : n # Head(serving[d]) => msgs'[n].ret = msgs[n].ret
          <5>1. pc'[d] \in Answers BY <4>3 DEF Answers
          <5>2. CASE i = 1 BY <1>h, <3>2, <4>3, <5>1, <5>2
          <5>3. CASE i # 1
            <6>1. msgs'[serving[e][i]].ret = msgs[serving[e][i]].ret
              BY <1>10, <1>h, <3>2, <4>3, <5>3
            <6> QED BY <3>0, <5>3, <6>1
          <5> QED BY <5>2, <5>3
        <4> QED BY <4>2, <4>3 DEF Plain, RetStep
      <3> QED BY <3>1, <3>2
    <2> QED BY <1>1, <2>1, <2>2 DEF Results
  <1>12. Unseen'
    <2> SUFFICES ASSUME NEW e \in Domains
                 PROVE  /\ pc'[e] = "await" => op'[e].kind = "sync"
                        /\ op'[e].kind = "sync" /\ pc'[e] \in Early \cup Waiting
                              => msgs'[op'[e].msg].saw = "none"
      BY DEF Unseen
    <2>1. CASE e # d
      <3>1. op[e].kind = "sync" => op[e].msg \in DOMAIN msgs /\ msgs[op[e].msg].from = e
        BY DEF OrderInv, Calling, Remote
      <3> QED BY <1>1, <1>4, <2>1, <3>1 DEF Unseen
    <2>2. CASE e = d
      <3>1. pc'[d] = "await" => op'[d].kind = "sync"
        BY DEF Plain
      <3>2. ASSUME op'[d].kind = "sync", pc'[d] \in Early \cup Waiting
            PROVE  msgs'[op'[d].msg].saw = "none"
        <4>1. op[d].kind = "sync" /\ op'[d].msg = op[d].msg /\ pc[d] \in Early \cup Waiting
          BY <3>2 DEF Plain, Quiet, Remote
        <4>2. \A n \in DOMAIN msgs : msgs'[n].saw = msgs[n].saw
          BY <3>2 DEF Plain, SawStep
        <4> QED BY <1>3, <4>1, <4>2 DEF Unseen
      <3> QED BY <2>2, <3>1, <3>2
    <2> QED BY <2>1, <2>2
  <1>13. Awaited'
    <2>1. \A m \in DOMAIN msgs : msgs[m].from \in Domains
      BY RemotingAssumption DEF OrderInv, Addressed
    <2> QED BY <1>1, <1>5, <1>7, <1>8, <2>1 DEF Awaited
  <1>14. Woken'
    BY <1>1, <1>6, <1>7, <1>8 DEF Woken
  <1>15. Excused'
    <2> SUFFICES ASSUME NEW m \in DOMAIN msgs, msgs'[m].saw = "ok", msgs'[m].ret # "ok"
                 PROVE  \E n \in DOMAIN msgs : /\ n < m /\ msgs'[n].from = msgs'[m].from
                                               /\ msgs'[n].saw = "timeout"
      BY <1>1 DEF Excused
    <2>1. msgs[m].saw = "ok" /\ msgs[m].ret # "ok"
      <3>1. CASE msgs'[m].ret = msgs[m].ret BY <1>4, <3>1
      <3>2. CASE msgs'[m].ret # msgs[m].ret
        <4>1. m = serving[d][1] /\ 1 \in DOMAIN serving[d] /\ pc[d] \notin Answers
          BY <1>9, <1>h, <3>2
        <4>2. msgs[m].ret = "none" BY <4>1 DEF Results
        <4> QED BY <1>4, <4>2
      <3> QED BY <3>1, <3>2
    <2>2. PICK n \in DOMAIN msgs : /\ n < m /\ msgs[n].from = msgs[m].from
                                   /\ msgs[n].saw = "timeout"
      BY <2>1 DEF Excused
    <2> QED BY <1>1, <1>4, <2>2
  <1> QED BY <1>11, <1>12, <1>13, <1>14, <1>15

LEMMA BeginKeepsOutcome ==
  ASSUME OrderInv, OutcomeInv, MsgsOK, NEW d \in Domains, NEW c \in Domains \ {Base},
         NEW kind \in Remote, Begin(d, c, kind), pc \in [Domains -> Places],
         op \in [Domains -> Ops]
  PROVE  OutcomeInv'
  <1> USE DEF OutcomeInv
  <1>0. PICK k, new : k = Len(msgs) + 1 /\ new = Message(d, c, kind = "sync")
    OBVIOUS
  <1>1. /\ msgs' = Append(msgs, new) /\ pc[d] = "user"
        /\ pc' = [pc EXCEPT ![d] = "ready?"]
        /\ op' = [op EXCEPT ![d] = [kind |-> kind, target |-> c, msg |-> k, abort |-> FALSE]]
        /\ serving' = serving /\ result' = result
    BY <1>0 DEF Begin, handle, Goto, Remote
  <1>2. /\ pc'[d] = "ready?" /\ op'[d].msg = k
        /\ \A e \in Domains : e # d => pc'[e] = pc[e] /\ op'[e] = op[e]
    BY <1>1
  <1>3. /\ \A m \in DOMAIN msgs : msgs'[m] = msgs[m] /\ m < k
        /\ msgs'[k] = new
        /\ DOMAIN msgs \subseteq DOMAIN msgs' /\ k \notin DOMAIN msgs
        /\ \A m \in DOMAIN msgs' : m \in DOMAIN msgs \/ m = k
        /\ k \in DOMAIN msgs'
    <2>1. new \in Messages BY <1>0 DEF Message, Messages
    <2>2. /\ Len(msgs) \in Nat /\ DOMAIN msgs = 1..Len(msgs) /\ DOMAIN msgs' = 1..k
          /\ \A m \in DOMAIN msgs : msgs'[m] = msgs[m]
          /\ msgs'[k] = new
      BY <1>0, <1>1, <2>1, AppendProperties, LenProperties DEF MsgsOK
    <2> QED BY <1>0, <2>2
  <1>4. new.at = "made" /\ new.ret = "none" /\ new.saw = "none" /\ new.from = d
    BY <1>0 DEF Message
  <1>5. \A m \in DOMAIN msgs : msgs[m].to \in Domains /\ msgs[m].from \in Domains
    BY RemotingAssumption DEF OrderInv, Addressed
  <1>6. \A e \in Domains : \A i \in DOMAIN serving[e] : serving[e][i] \in DOMAIN msgs
    BY DEF OrderInv, ServesTaken
  <1>7. /\ \A e, m : Late(e, m) => Late(e, m)'
        /\ \A e : TimedOut(e) => TimedOut(e)'
    BY <1>3 DEF Late, TimedOut
  <1>8. \A m : \A e \in Domains : WaitsFor(e, m) => WaitsFor(e, m)'
    BY <1>1, <1>2 DEF WaitsFor, Waiting
  <1>9. \A m \in DOMAIN msgs : Answered(m)' <=> Answered(m)
    BY <1>1, <1>2, <1>3, <1>5 DEF Answered
  <1>10. Results'
    <2>1. \A e \in Domains : pc'[e] \notin Answers <=> pc[e] \notin Answers
      BY <1>1, <1>2 DEF Answers
    <2>2. ASSUME NEW e \in Domains, NEW i \in DOMAIN serving[e]
          PROVE  msgs'[serving[e][i]].ret = "none" <=> (i # 1 \/ pc'[e] \notin Answers)
      BY <1>3, <1>6, <2>1 DEF Results
    <2>3. ASSUME NEW m \in DOMAIN msgs'
          PROVE  /\ msgs'[m].at \in {"made", "queued"} => msgs'[m].ret = "none"
                 /\ msgs'[m].at = "done" => msgs'[m].ret # "none"
      BY <1>3, <1>4 DEF Results
    <2> QED BY <1>1, <2>2, <2>3 DEF Results
  <1>11. Unseen'
    <2> SUFFICES ASSUME NEW e \in Domains
                 PROVE  /\ pc'[e] = "await" => op'[e].kind = "sync"
                        /\ op'[e].kind = "sync" /\ pc'[e] \in Early \cup Waiting
                              => msgs'[op'[e].msg].saw = "none"
      BY DEF Unseen
    <2>1. CASE e # d
      <3>1. op[e].kind = "sync" => op[e].msg \in DOMAIN msgs
        BY DEF OrderInv, Calling, Remote
      <3> QED BY <1>2, <1>3, <2>1, <3>1 DEF Unseen
    <2>2. CASE e = d BY <1>2, <1>3, <1>4, <2>2
    <2> QED BY <2>1, <2>2
  <1>12. Awaited'
    BY <1>3, <1>4, <1>5, <1>7, <1>8, <1>9 DEF Awaited
  <1>13. Woken'
    BY <1>1, <1>3, <1>7, <1>8, <1>9 DEF Woken
  <1>14. Excused'
    BY <1>3, <1>4 DEF Excused
  <1> QED BY <1>10, <1>11, <1>12, <1>13, <1>14

LEMMA EnqueueKeepsOutcome ==
  ASSUME OrderInv, OutcomeInv, ControlOK, MsgsOK, NEW d \in Domains, Enqueue(d)
  PROVE  OutcomeInv'
  <1> USE DEF OutcomeInv
  <1>0. PICK m : m = op[d].msg
    OBVIOUS
  <1>1. /\ pc[d] = "enqueue" /\ pc' = [pc EXCEPT ![d] = "pulse"]
        /\ msgs' = [msgs EXCEPT ![m].at = "queued"]
        /\ op' = op /\ serving' = serving /\ result' = result
    BY <1>0 DEF Enqueue, Goto
  <1>2. op[d].kind \in Remote
    BY <1>1 DEF ControlOK, ThreadOK, Remote
  <1>3. /\ m \in DOMAIN msgs /\ msgs[m].at = "made" /\ msgs[m].from = d
        /\ msgs[m].sync <=> op[d].kind = "sync"
    BY <1>0, <1>1, <1>2 DEF OrderInv, Calling, Early
  <1>4. /\ DOMAIN msgs' = DOMAIN msgs
        /\ \A n \in DOMAIN msgs :
              /\ msgs'[n].from = msgs[n].from /\ msgs'[n].to = msgs[n].to
              /\ msgs'[n].sync = msgs[n].sync /\ msgs'[n].ret = msgs[n].ret
              /\ msgs'[n].saw = msgs[n].saw
              /\ msgs'[n].at = IF n = m THEN "queued" ELSE msgs[n].at
    BY <1>1, FieldWritten DEF MsgsOK
  <1>5. pc'[d] = "pulse" /\ \A e \in Domains : e # d => pc'[e] = pc[e]
    BY <1>1 DEF ControlOK
  <1>6. \A n \in DOMAIN msgs : msgs[n].to \in Domains /\ msgs[n].from \in Domains
    BY RemotingAssumption DEF OrderInv, Addressed
  <1>7. \A e \in Domains : \A i \in DOMAIN serving[e] :
           serving[e][i] \in DOMAIN msgs /\ msgs[serving[e][i]].at = "taken"
    BY DEF OrderInv, ServesTaken
  <1>8. /\ \A e, n : Late(e, n) => Late(e, n)'
        /\ \A e : TimedOut(e) => TimedOut(e)'
    BY <1>4 DEF Late, TimedOut
  <1>9. \A n : \A e \in Domains : WaitsFor(e, n) => WaitsFor(e, n)'
    BY <1>1, <1>5 DEF WaitsFor, Waiting
  <1>10. op[d].kind = "sync" => WaitsFor(d, m)'
    BY <1>0, <1>1, <1>5 DEF WaitsFor, Waiting
  <1>11. \A n \in DOMAIN msgs : n # m => (Answered(n)' <=> Answered(n))
    BY <1>1, <1>4, <1>5, <1>6 DEF Answered
  <1>12. ~ Answered(m)
    BY <1>3 DEF Answered
  <1>13. Results'
    <2>1. \A e \in Domains : pc'[e] \notin Answers <=> pc[e] \notin Answers
      BY <1>1, <1>5 DEF Answers
    <2>2. ASSUME NEW e \in Domains, NEW i \in DOMAIN serving[e]
          PROVE  msgs'[serving[e][i]].ret = "none" <=> (i # 1 \/ pc'[e] \notin Answers)
      BY <1>4, <1>7, <2>1 DEF Results
    <2> QED BY <1>1, <1>3, <1>4, <2>2 DEF Results
  <1>14. Unseen'
    <2> SUFFICES ASSUME NEW e \in Domains
                 PROVE  /\ pc'[e] = "await" => op[e].kind = "sync"
                        /\ op[e].kind = "sync" /\ pc'[e] \in Early \cup Waiting
                              => msgs'[op[e].msg].saw = "none"
      BY <1>1 DEF Unseen
    <2>1. op[e].kind = "sync" => op[e].msg \in DOMAIN msgs
      BY DEF OrderInv, Calling, Remote
    <2>2. pc'[e] \in Early \cup Waiting => pc[e] \in Early \cup Waiting
      BY <1>1, <1>5 DEF Early, Waiting
    <2>3. pc'[e] = "await" => pc[e] = "await"
      BY <1>5
    <2> QED BY <1>4, <2>1, <2>2, <2>3 DEF Unseen
  <1>15. Awaited'
    <2> SUFFICES ASSUME NEW n \in DOMAIN msgs, msgs[n].sync, msgs'[n].at \in {"queued", "taken"},
                        ~ Answered(n)'
                 PROVE  WaitsFor(msgs[n].from, n)' \/ Late(msgs[n].from, n)'
      BY <1>4 DEF Awaited
    <2>1. CASE n = m
      <3>1. msgs'[n].from = d /\ op[d].kind = "sync" BY <1>3, <1>4, <2>1
      <3> QED BY <1>10, <2>1, <3>1
    <2>2. CASE n # m BY <1>4, <1>6, <1>8, <1>9, <1>11, <2>2 DEF Awaited
    <2> QED BY <2>1, <2>2
  <1>16. Woken'
    BY <1>1, <1>4, <1>8, <1>9, <1>11, <1>12 DEF Woken
  <1>17. Excused'
    BY <1>4 DEF Excused
  <1> QED BY <1>13, <1>14, <1>15, <1>16, <1>17

LEMMA RetrieveKeepsOutcome ==
  ASSUME OrderInv, OutcomeInv, ControlOK, HandleOK, Mailbox, MsgsOK, NEW d \in Domains, Retrieve(d)
  PROVE  OutcomeInv'
  <1> USE DEF OutcomeInv
  <1>0. PICK h : h = Head(queue[d])
    OBVIOUS
  <1>1. /\ pc[d] \in {"poll", "repoll"} /\ pc' = [pc EXCEPT ![d] = "dispatch"]
        /\ queue[d] # <<>>
        /\ msgs' = [msgs EXCEPT ![h].at = "taken"]
        /\ serving' = [serving EXCEPT ![d] = <<h>> \o @] /\ op' = op /\ result' = result
    BY <1>0 DEF Retrieve, Goto
  <1>2. live[d]
    <2>1. Alive(d) BY <1>1 DEF Alive
    <2> QED BY <2>1 DEF HandleOK, DomainOK
  <1>3. h \in DOMAIN msgs /\ msgs[h].to = d /\ msgs[h].at = "queued" /\ h \in Ids
    <2>1. queue[d] \in Seq(Ids) /\ Len(queue[d]) \in Nat /\ Len(queue[d]) # 0
      BY <1>1, LenProperties, EmptySeq DEF Mailbox
    <2>2. 1 \in DOMAIN queue[d] /\ h = queue[d][1]
      BY <1>0, <2>1, LenProperties
    <2>3. h \in Ids BY <2>1, <2>2, ElementOfSeq, LenProperties
    <2> QED BY <1>2, <2>2, <2>3 DEF OrderInv, QueuesHold
  <1>4. /\ DOMAIN msgs' = DOMAIN msgs
        /\ \A n \in DOMAIN msgs :
              /\ msgs'[n].from = msgs[n].from /\ msgs'[n].to = msgs[n].to
              /\ msgs'[n].sync = msgs[n].sync /\ msgs'[n].ret = msgs[n].ret
              /\ msgs'[n].saw = msgs[n].saw
              /\ msgs'[n].at = IF n = h THEN "taken" ELSE msgs[n].at
    BY <1>1, FieldWritten DEF MsgsOK
  <1>5. /\ pc'[d] = "dispatch" /\ serving'[d] = <<h>> \o serving[d]
        /\ \A e \in Domains : e # d => pc'[e] = pc[e] /\ serving'[e] = serving[e]
    BY <1>1 DEF ControlOK
  <1>p. /\ serving'[d][1] = h
        /\ \A i \in DOMAIN serving'[d] : i # 1 => /\ i - 1 \in DOMAIN serving[d]
                                                  /\ serving'[d][i] = serving[d][i - 1]
    <2>1. serving[d] \in Seq(Ids) BY DEF ControlOK
    <2> QED BY <1>3, <1>5, <2>1, Pushed
  <1>6. \A n \in DOMAIN msgs : msgs[n].to \in Domains /\ msgs[n].from \in Domains
    BY RemotingAssumption DEF OrderInv, Addressed
  <1>7. \A e \in Domains : \A i \in DOMAIN serving[e] :
           serving[e][i] \in DOMAIN msgs /\ msgs[serving[e][i]].at = "taken"
    BY DEF OrderInv, ServesTaken
  <1>8. /\ \A e, n : Late(e, n) => Late(e, n)'
        /\ \A e : TimedOut(e) => TimedOut(e)'
    BY <1>4 DEF Late, TimedOut
  <1>9. \A n : \A e \in Domains : WaitsFor(e, n) <=> WaitsFor(e, n)'
    BY <1>1, <1>5 DEF WaitsFor, Waiting
  <1>10. \A n \in DOMAIN msgs : Answered(n)' <=> Answered(n)
    <2>1. ~ Answered(h) /\ ~ Answered(h)'
      BY <1>3, <1>4, <1>5 DEF Answered
    <2>2. \A n \in DOMAIN msgs : n # h => (Answered(n)' <=> Answered(n))
      BY <1>1, <1>4, <1>5, <1>6 DEF Answered
    <2> QED BY <2>1, <2>2
  <1>11. Results'
    <2>1. \A m \in DOMAIN msgs : /\ msgs'[m].at \in {"made", "queued"} => msgs'[m].ret = "none"
                                 /\ msgs'[m].at = "done" => msgs'[m].ret # "none"
      BY <1>4 DEF Results
    <2>2. ASSUME NEW e \in Domains, NEW i \in DOMAIN serving'[e]
          PROVE  msgs'[serving'[e][i]].ret = "none" <=> (i # 1 \/ pc'[e] \notin Answers)
      <3>1. CASE e # d
        <4>1. /\ msgs[serving[e][i]].ret = "none" <=> (i # 1 \/ pc[e] \notin Answers)
              /\ serving[e][i] \in DOMAIN msgs
          BY <1>5, <1>7, <3>1 DEF Results
        <4> QED BY <1>4, <1>5, <3>1, <4>1
      <3>2. CASE e = d
        <4>1. pc'[d] \notin Answers /\ pc[d] \notin Answers BY <1>1, <1>5 DEF Answers
        <4>2. CASE i = 1
          <5>1. msgs'[h].ret = "none" BY <1>3, <1>4 DEF Results
          <5> QED BY <1>p, <3>2, <4>1, <4>2, <5>1
        <4>3. CASE i # 1
          <5>1. i - 1 \in DOMAIN serving[d] /\ serving'[d][i] = serving[d][i - 1]
            BY <1>p, <3>2, <4>3
          <5>2. msgs[serving[d][i - 1]].ret = "none" /\ serving[d][i - 1] \in DOMAIN msgs
            BY <1>7, <4>1, <5>1 DEF Results
          <5> QED BY <1>4, <3>2, <4>1, <5>1, <5>2
        <4> QED BY <4>2, <4>3
      <3> QED BY <3>1, <3>2
    <2> QED BY <1>4, <2>1, <2>2 DEF Results
  <1>12. Unseen'
    <2> SUFFICES ASSUME NEW e \in Domains
                 PROVE  /\ pc'[e] = "await" => op[e].kind = "sync"
                        /\ op[e].kind = "sync" /\ pc'[e] \in Early \cup Waiting
                              => msgs'[op[e].msg].saw = "none"
      BY <1>1 DEF Unseen
    <2>1. op[e].kind = "sync" => op[e].msg \in DOMAIN msgs
      BY DEF OrderInv, Calling, Remote
    <2>2. pc'[e] \in Early \cup Waiting => pc[e] \in Early \cup Waiting
      BY <1>5 DEF Early, Waiting
    <2>3. pc'[e] = "await" => pc[e] = "await"
      BY <1>5
    <2> QED BY <1>4, <2>1, <2>2, <2>3 DEF Unseen
  <1>13. Awaited'
    <2> SUFFICES ASSUME NEW n \in DOMAIN msgs, msgs[n].sync, msgs'[n].at \in {"queued", "taken"},
                        ~ Answered(n)'
                 PROVE  WaitsFor(msgs[n].from, n)' \/ Late(msgs[n].from, n)'
      BY <1>4 DEF Awaited
    <2>1. msgs[n].at \in {"queued", "taken"} /\ ~ Answered(n)
      BY <1>3, <1>4, <1>10
    <2>2. WaitsFor(msgs[n].from, n) \/ Late(msgs[n].from, n)
      BY <2>1 DEF Awaited
    <2> QED BY <1>4, <1>6, <1>8, <1>9, <2>2
  <1>14. Woken'
    BY <1>1, <1>4, <1>8, <1>9, <1>10 DEF Woken
  <1>15. Excused'
    BY <1>4 DEF Excused
  <1> QED BY <1>11, <1>12, <1>13, <1>14, <1>15

\* The message that a domain serves is done. On Win32 the pulse of the result object is
\* part of that step; on POSIX the step resets it.
LEMMA DoneKeepsOutcome ==
  ASSUME OrderInv, OutcomeInv, ControlOK, MsgsOK, NEW d \in Domains,
         pc[d] \in Answers, Goto(d, "poll"),
         msgs' = [msgs EXCEPT ![Head(serving[d])].at = "done"],
         serving' = [serving EXCEPT ![d] = Tail(@)], op' = op,
         \A e \in Domains : result'[e] => \/ result[e]
                                          \/ /\ pc[d] = "answer" /\ msgs[Head(serving[d])].sync
                                             /\ e = msgs[Head(serving[d])].from
  PROVE  OutcomeInv'
  <1> USE DEF OutcomeInv
  <1>0. PICK s : s = Head(serving[d])
    OBVIOUS
  <1>1. /\ serving[d] # <<>> /\ 1 \in DOMAIN serving[d] /\ serving[d][1] = s
        /\ s \in DOMAIN msgs /\ msgs[s].to = d /\ msgs[s].at = "taken"
    <2>1. serving[d] # <<>> BY DEF ControlOK, ThreadOK, ServePlaces, Answers
    <2> QED BY <1>0, <2>1, HeadServed DEF OrderInv
  <1>2. /\ DOMAIN msgs' = DOMAIN msgs
        /\ \A n \in DOMAIN msgs :
              /\ msgs'[n].from = msgs[n].from /\ msgs'[n].to = msgs[n].to
              /\ msgs'[n].sync = msgs[n].sync /\ msgs'[n].ret = msgs[n].ret
              /\ msgs'[n].saw = msgs[n].saw
              /\ msgs'[n].at = IF n = s THEN "done" ELSE msgs[n].at
    BY <1>0, FieldWritten DEF MsgsOK
  <1>3. /\ pc'[d] = "poll" /\ serving'[d] = Tail(serving[d])
        /\ \A e \in Domains : e # d => pc'[e] = pc[e] /\ serving'[e] = serving[e]
    BY DEF ControlOK, Goto
  <1>4. \A n \in DOMAIN msgs : msgs[n].to \in Domains /\ msgs[n].from \in Domains
    BY RemotingAssumption DEF OrderInv, Addressed
  <1>5. \A e \in Domains : \A i \in DOMAIN serving[e] : serving[e][i] \in DOMAIN msgs
    BY DEF OrderInv, ServesTaken
  <1>6. /\ \A e, n : Late(e, n) => Late(e, n)'
        /\ \A e : TimedOut(e) => TimedOut(e)'
    BY <1>2 DEF Late, TimedOut
  <1>7. \A n : \A e \in Domains : WaitsFor(e, n) <=> WaitsFor(e, n)'
    BY <1>3 DEF WaitsFor, Waiting, Answers
  <1>8. Answered(s)' /\ \A n \in DOMAIN msgs : Answered(n) => Answered(n)'
    <2>1. ASSUME NEW n \in DOMAIN msgs, n # s, Answered(n)
          PROVE  Answered(n)'
      <3>1. CASE msgs[n].at = "done" BY <1>2, <2>1, <3>1 DEF Answered
      <3>2. CASE /\ msgs[n].at = "taken" /\ pc[msgs[n].to] = "answered"
                 /\ n = Head(serving[msgs[n].to])
        <4>1. msgs[n].to # d /\ msgs[n].to \in Domains BY <1>0, <1>4, <2>1, <3>2
        <4> QED BY <1>2, <1>3, <2>1, <3>2, <4>1 DEF Answered
      <3> QED BY <2>1, <3>1, <3>2 DEF Answered
    <2>2. Answered(s)' BY <1>1, <1>2 DEF Answered
    <2> QED BY <2>1, <2>2
  <1>9. Results'
    <2>1. msgs[s].ret # "none"
      BY <1>1 DEF Results
    <2>2. \A n \in DOMAIN msgs : /\ msgs'[n].at \in {"made", "queued"} => msgs'[n].ret = "none"
                                 /\ msgs'[n].at = "done" => msgs'[n].ret # "none"
      BY <1>2, <2>1 DEF Results
    <2>3. ASSUME NEW e \in Domains, NEW i \in DOMAIN serving'[e]
          PROVE  msgs'[serving'[e][i]].ret = "none" <=> (i # 1 \/ pc'[e] \notin Answers)
      <3>1. CASE e # d
        <4>1. /\ msgs[serving[e][i]].ret = "none" <=> (i # 1 \/ pc[e] \notin Answers)
              /\ serving[e][i] \in DOMAIN msgs
          BY <1>3, <1>5, <3>1 DEF Results
        <4> QED BY <1>2, <1>3, <3>1, <4>1
      <3>2. CASE e = d
        <4>1. pc'[d] \notin Answers BY <1>3 DEF Answers
        <4>2. /\ i + 1 # 1 /\ i + 1 \in DOMAIN serving[d]
              /\ serving'[d][i] = serving[d][i + 1]
          BY <1>1, <1>3, <3>2, Popped DEF ControlOK
        <4>3. msgs[serving[d][i + 1]].ret = "none" /\ serving[d][i + 1] \in DOMAIN msgs
          BY <1>5, <4>2 DEF Results
        <4> QED BY <1>2, <3>2, <4>1, <4>2, <4>3
      <3> QED BY <3>1, <3>2
    <2> QED BY <1>2, <2>2, <2>3 DEF Results
  <1>10. Unseen'
    <2> SUFFICES ASSUME NEW e \in Domains
                 PROVE  /\ pc'[e] = "await" => op[e].kind = "sync"
                        /\ op[e].kind = "sync" /\ pc'[e] \in Early \cup Waiting
                              => msgs'[op[e].msg].saw = "none"
      BY DEF Unseen
    <2>1. op[e].kind = "sync" => op[e].msg \in DOMAIN msgs
      BY DEF OrderInv, Calling, Remote
    <2>2. pc'[e] \in Early \cup Waiting => pc'[e] = pc[e]
      BY <1>3 DEF Early, Waiting
    <2>3. pc'[e] = "await" => pc[e] = "await"
      BY <1>3
    <2> QED BY <1>2, <2>1, <2>2, <2>3 DEF Unseen
  <1>11. Awaited'
    <2> SUFFICES ASSUME NEW n \in DOMAIN msgs, msgs[n].sync, msgs'[n].at \in {"queued", "taken"},
                        ~ Answered(n)'
                 PROVE  WaitsFor(msgs[n].from, n)' \/ Late(msgs[n].from, n)'
      BY <1>2 DEF Awaited
    <2>1. msgs[n].at \in {"queued", "taken"} /\ ~ Answered(n)
      BY <1>2, <1>8
    <2>2. WaitsFor(msgs[n].from, n) \/ Late(msgs[n].from, n)
      BY <2>1 DEF Awaited
    <2> QED BY <1>2, <1>4, <1>6, <1>7, <2>2
  <1>12. Woken'
    <2> SUFFICES ASSUME NEW e \in Domains, result'[e]
                 PROVE  \/ \E n \in DOMAIN msgs' : WaitsFor(e, n)' /\ Answered(n)'
                        \/ TimedOut(e)'
      BY DEF Woken
    <2>1. CASE result[e]
      <3>1. \/ \E n \in DOMAIN msgs : WaitsFor(e, n) /\ Answered(n)
            \/ TimedOut(e)
        BY <2>1 DEF Woken
      <3> QED BY <1>2, <1>6, <1>7, <1>8, <3>1
    <2>2. CASE pc[d] = "answer" /\ msgs[s].sync /\ e = msgs[s].from
      <3>1. ~ Answered(s)
        BY <1>1, <2>2 DEF Answered
      <3>2. WaitsFor(e, s) \/ Late(e, s)
        BY <1>1, <2>2, <3>1 DEF Awaited
      <3>3. Late(e, s) => TimedOut(e)
        BY DEF Late, TimedOut
      <3> QED BY <1>1, <1>2, <1>6, <1>7, <1>8, <3>2, <3>3
    <2> QED BY <1>0, <2>1, <2>2
  <1>13. Excused'
    BY <1>2 DEF Excused
  <1> QED BY <1>9, <1>10, <1>11, <1>12, <1>13

\* The POSIX pulse of the result object.
LEMMA AnswerKeepsOutcome ==
  ASSUME OrderInv, OutcomeInv, ControlOK, NEW d \in Domains, Answer(d), ~Win32
  PROVE  OutcomeInv'
  <1> USE DEF OutcomeInv
  <1>0. PICK s : s = Head(serving[d])
    OBVIOUS
  <1>1. /\ pc[d] = "answer" /\ pc'[d] = "answered" /\ msgs[s].sync
        /\ \A e \in Domains : e # d => pc'[e] = pc[e]
        /\ op' = op /\ serving' = serving /\ msgs' = msgs
        /\ \A e \in Domains : result'[e] => result[e] \/ e = msgs[s].from
    BY <1>0 DEF Answer, ControlOK, Goto
  <1>2. /\ s \in DOMAIN msgs /\ msgs[s].to = d /\ msgs[s].at = "taken"
    <2>1. serving[d] # <<>> BY <1>1 DEF ControlOK, ThreadOK, ServePlaces
    <2> QED BY <1>0, <2>1, HeadServed DEF OrderInv
  <1>3. \A n \in DOMAIN msgs : msgs[n].to \in Domains /\ msgs[n].from \in Domains
    BY RemotingAssumption DEF OrderInv, Addressed
  <1>4. \A n : \A e \in Domains : WaitsFor(e, n) <=> WaitsFor(e, n)'
    BY <1>1 DEF WaitsFor, Waiting
  <1>5. /\ \A e, n : Late(e, n) => Late(e, n)'
        /\ \A e : TimedOut(e) => TimedOut(e)'
    BY <1>1 DEF Late, TimedOut
  <1>6. Answered(s)' /\ \A n \in DOMAIN msgs : Answered(n) => Answered(n)'
    <2>1. Answered(s)' BY <1>0, <1>1, <1>2 DEF Answered
    <2>2. \A e \in Domains : pc[e] = "answered" => pc'[e] = "answered" BY <1>1
    <2> QED BY <1>1, <1>3, <2>1, <2>2 DEF Answered
  <1>7. Results'
    <2>1. \A e \in Domains : pc'[e] \in Answers <=> pc[e] \in Answers
      BY <1>1 DEF Answers
    <2> QED BY <1>1, <2>1 DEF Results
  <1>8. Unseen'
    <2>1. \A e \in Domains : pc'[e] \in Early \cup Waiting => pc'[e] = pc[e]
      BY <1>1 DEF Early, Waiting
    <2>2. \A e \in Domains : pc'[e] = "await" => pc[e] = "await"
      BY <1>1
    <2> QED BY <1>1, <2>1, <2>2 DEF Unseen
  <1>9. Awaited'
    <2> SUFFICES ASSUME NEW n \in DOMAIN msgs, msgs[n].sync, msgs[n].at \in {"queued", "taken"},
                        ~ Answered(n)'
                 PROVE  WaitsFor(msgs[n].from, n)' \/ Late(msgs[n].from, n)'
      BY <1>1 DEF Awaited
    <2>1. WaitsFor(msgs[n].from, n) \/ Late(msgs[n].from, n)
      BY <1>6 DEF Awaited
    <2> QED BY <1>1, <1>3, <1>4, <1>5, <2>1
  <1>10. Woken'
    <2> SUFFICES ASSUME NEW e \in Domains, result'[e]
                 PROVE  \/ \E n \in DOMAIN msgs : WaitsFor(e, n)' /\ Answered(n)'
                        \/ TimedOut(e)'
      BY <1>1 DEF Woken
    <2>1. CASE result[e]
      <3>1. \/ \E n \in DOMAIN msgs : WaitsFor(e, n) /\ Answered(n)
            \/ TimedOut(e)
        BY <2>1 DEF Woken
      <3> QED BY <1>4, <1>5, <1>6, <3>1
    <2>2. CASE e = msgs[s].from
      <3>1. ~ Answered(s)
        BY <1>1, <1>2 DEF Answered
      <3>2. WaitsFor(e, s) \/ Late(e, s)
        BY <1>1, <1>2, <2>2, <3>1 DEF Awaited
      <3>3. Late(e, s) => TimedOut(e)
        BY DEF Late, TimedOut
      <3> QED BY <1>2, <1>4, <1>5, <1>6, <3>2, <3>3
    <2> QED BY <1>1, <2>1, <2>2
  <1>11. Excused'
    BY <1>1 DEF Excused
  <1> QED BY <1>7, <1>8, <1>9, <1>10, <1>11

\* The caller wakes up: the call that it waits for has been answered, or it has given up
\* an earlier one.
LEMMA ResultArrivesKeepsOutcome ==
  ASSUME OrderInv, OutcomeInv, ControlOK, Mailbox, MsgsOK, NEW d \in Domains, ResultArrives(d)
  PROVE  OutcomeInv'
  <1> USE DEF OutcomeInv
  <1>0. PICK m : m = op[d].msg
    OBVIOUS
  <1>1. /\ pc[d] = "await" /\ pc'[d] = "release" /\ serving' = serving
        /\ \A e \in Domains \ {d} : pc'[e] = pc[e] /\ op'[e] = op[e]
        /\ op'[d].kind = op[d].kind /\ op'[d].msg = op[d].msg
        /\ DOMAIN msgs' = DOMAIN msgs
        /\ \A n \in DOMAIN msgs :
              /\ msgs'[n].from = msgs[n].from /\ msgs'[n].to = msgs[n].to
              /\ msgs'[n].sync = msgs[n].sync /\ msgs'[n].at = msgs[n].at
              /\ msgs'[n].ret = msgs[n].ret
              /\ n # m => msgs'[n].saw = msgs[n].saw
    BY <1>0, ResultFacts
  <1>2. /\ result[d] /\ result' = [result EXCEPT ![d] = FALSE]
        /\ msgs' = [msgs EXCEPT ![m].saw = IF msgs[m].ret = "error" THEN "error" ELSE "ok"]
    BY <1>0 DEF ResultArrives, Saw
  <1>3. op[d].kind = "sync" /\ msgs[m].saw = "none"
    BY <1>0, <1>1 DEF Unseen, Waiting
  <1>4. /\ m \in DOMAIN msgs /\ msgs[m].from = d
        /\ \A n \in DOMAIN msgs : msgs[n].from = d => n <= m
    BY <1>0, <1>3 DEF OrderInv, Calling, Remote
  <1>5. msgs'[m].saw = IF msgs[m].ret = "error" THEN "error" ELSE "ok"
    <2>1. PICK what : what = IF msgs[m].ret = "error" THEN "error" ELSE "ok"
      OBVIOUS
    <2>2. msgs' = [msgs EXCEPT ![m].saw = what]
      BY <1>2, <2>1
    <2>3. \A n \in DOMAIN msgs : msgs'[n].saw = IF n = m THEN what ELSE msgs[n].saw
      BY ONLY <2>2, MsgsOK, FieldWritten DEF MsgsOK
    <2> QED BY <1>4, <2>1, <2>3
  <1>6. \A n \in DOMAIN msgs : msgs[n].to \in Domains /\ msgs[n].from \in Domains
    BY RemotingAssumption DEF OrderInv, Addressed
  <1>7. \A n \in DOMAIN msgs : msgs[n].ret \in {"none", "ok", "error"}
    <2> SUFFICES ASSUME NEW n \in DOMAIN msgs PROVE msgs[n].ret \in {"none", "ok", "error"}
      OBVIOUS
    <2>1. msgs[n] \in Messages
      BY LenProperties, ElementOfSeq DEF MsgsOK
    <2> QED BY <2>1 DEF Messages
  <1>8. DOMAIN msgs \subseteq Nat
    BY LenProperties DEF MsgsOK
  <1>9. \A n \in DOMAIN msgs : msgs[n].saw = "timeout" => msgs'[n].saw = "timeout"
    BY <1>1, <1>3
  <1>10. /\ \A e, n : Late(e, n) => Late(e, n)'
         /\ \A e : TimedOut(e) => TimedOut(e)'
    BY <1>1, <1>9 DEF Late, TimedOut
  <1>11. \A n : \A e \in Domains : e # d => (WaitsFor(e, n) <=> WaitsFor(e, n)')
    BY <1>1 DEF WaitsFor
  <1>12. \A n \in DOMAIN msgs : Answered(n) <=> Answered(n)'
    <2>1. \A e \in Domains : pc'[e] = "answered" <=> pc[e] = "answered"
      BY <1>1
    <2> QED BY <1>1, <1>6, <2>1 DEF Answered
  <1>13. \/ Answered(m)
         \/ \E n \in DOMAIN msgs : n < m /\ msgs[n].from = d /\ msgs[n].saw = "timeout"
    <2>1. \A n : WaitsFor(d, n) => n = m
      BY <1>0 DEF WaitsFor
    <2>2. Answered(m) \/ TimedOut(d)
      BY <1>2, <2>1 DEF Woken
    <2>3. CASE TimedOut(d)
      <3>1. PICK n \in DOMAIN msgs : msgs[n].from = d /\ msgs[n].saw = "timeout"
        BY <2>3 DEF TimedOut
      <3>2. n <= m /\ n # m
        BY <1>3, <1>4, <3>1
      <3>3. n < m
        BY <1>4, <1>8, <3>2
      <3> QED BY <3>1, <3>3
    <2> QED BY <2>2, <2>3
  <1>14. Answered(m) => msgs[m].ret # "none"
    <2>1. CASE msgs[m].at = "done"
      BY <1>4, <2>1 DEF Results
    <2>2. CASE /\ msgs[m].at = "taken" /\ pc[msgs[m].to] = "answered"
               /\ m = Head(serving[msgs[m].to])
      <3>1. PICK e \in Domains : e = msgs[m].to
        BY <1>4, <1>6
      <3>2. serving[e] # <<>>
        BY <2>2, <3>1 DEF ControlOK, ThreadOK, ServePlaces
      <3>3. 1 \in DOMAIN serving[e] /\ serving[e][1] = m
        BY <2>2, <3>1, <3>2, HeadServed DEF OrderInv
      <3> QED BY <2>2, <3>1, <3>3 DEF Results, Answers
    <2> QED BY <2>1, <2>2 DEF Answered
  <1>15. Results'
    <2>1. \A e \in Domains : pc'[e] \in Answers <=> pc[e] \in Answers
      BY <1>1 DEF Answers
    <2>2. \A e \in Domains : \A i \in DOMAIN serving[e] : serving[e][i] \in DOMAIN msgs
      BY DEF OrderInv, ServesTaken
    <2>3. \A n \in DOMAIN msgs : /\ msgs'[n].at \in {"made", "queued"} => msgs'[n].ret = "none"
                                 /\ msgs'[n].at = "done" => msgs'[n].ret # "none"
      BY <1>1 DEF Results
    <2>4. ASSUME NEW e \in Domains, NEW i \in DOMAIN serving[e]
          PROVE  msgs'[serving[e][i]].ret = "none" <=> (i # 1 \/ pc'[e] \notin Answers)
      BY <1>1, <2>1, <2>2 DEF Results
    <2> QED BY <1>1, <2>3, <2>4 DEF Results
  <1>16. Unseen'
    <2> SUFFICES ASSUME NEW e \in Domains
                 PROVE  /\ pc'[e] = "await" => op'[e].kind = "sync"
                        /\ op'[e].kind = "sync" /\ pc'[e] \in Early \cup Waiting
                              => msgs'[op'[e].msg].saw = "none"
      BY DEF Unseen
    <2>1. CASE e = d
      BY <1>1, <2>1 DEF Early, Waiting
    <2>2. CASE e # d
      <3>1. op[e].kind = "sync" => op[e].msg \in DOMAIN msgs /\ op[e].msg # m
        BY <1>4, <2>2 DEF OrderInv, Calling, Remote
      <3> QED BY <1>1, <2>2, <3>1 DEF Unseen
    <2> QED BY <2>1, <2>2
  <1>17. Awaited'
    <2> SUFFICES ASSUME NEW n \in DOMAIN msgs, msgs[n].sync, msgs[n].at \in {"queued", "taken"},
                        ~ Answered(n)'
                 PROVE  WaitsFor(msgs[n].from, n)' \/ Late(msgs[n].from, n)'
      BY <1>1 DEF Awaited
    <2>1. WaitsFor(msgs[n].from, n) \/ Late(msgs[n].from, n)
      BY <1>12 DEF Awaited
    <2>2. CASE msgs[n].from # d
      BY <1>1, <1>6, <1>10, <1>11, <2>1, <2>2
    <2>3. CASE msgs[n].from = d
      <3>1. WaitsFor(d, n) => n = m
        BY <1>0 DEF WaitsFor
      <3>2. CASE Late(d, n)
        BY <1>1, <1>10, <2>3, <3>2
      <3>3. CASE n = m
        <4>1. Late(d, m)
          BY <1>8, <1>12, <1>13, <3>3 DEF Late
        <4> QED BY <1>1, <1>10, <2>3, <3>3, <4>1
      <3> QED BY <2>1, <2>3, <3>1, <3>2, <3>3
    <2> QED BY <2>2, <2>3
  <1>18. Woken'
    <2> SUFFICES ASSUME NEW e \in Domains, result'[e]
                 PROVE  \/ \E n \in DOMAIN msgs' : WaitsFor(e, n)' /\ Answered(n)'
                        \/ TimedOut(e)'
      BY DEF Woken
    <2>1. e # d /\ result[e]
      BY <1>2 DEF Mailbox
    <2>2. \/ \E n \in DOMAIN msgs : WaitsFor(e, n) /\ Answered(n)
          \/ TimedOut(e)
      BY <2>1 DEF Woken
    <2> QED BY <1>1, <1>10, <1>11, <1>12, <2>1, <2>2
  <1>19. Excused'
    <2> SUFFICES ASSUME NEW n \in DOMAIN msgs, msgs'[n].saw = "ok", msgs'[n].ret # "ok"
                 PROVE  \E k \in DOMAIN msgs : /\ k < n /\ msgs'[k].from = msgs'[n].from
                                               /\ msgs'[k].saw = "timeout"
      BY <1>1 DEF Excused
    <2>1. CASE n = m
      <3>1. ~ Answered(m)
        BY <1>1, <1>4, <1>5, <1>7, <1>14, <2>1
      <3>2. PICK k \in DOMAIN msgs : k < m /\ msgs[k].from = d /\ msgs[k].saw = "timeout"
        BY <1>13, <3>1
      <3> QED BY <1>1, <1>4, <1>9, <2>1, <3>2
    <2>2. CASE n # m
      <3>1. PICK k \in DOMAIN msgs : /\ k < n /\ msgs[k].from = msgs[n].from
                                     /\ msgs[k].saw = "timeout"
        BY <1>1, <2>2 DEF Excused
      <3> QED BY <1>1, <1>9, <3>1
    <2> QED BY <2>1, <2>2
  <1> QED BY <1>15, <1>16, <1>17, <1>18, <1>19

\* The caller gives the call up.
LEMMA ResultTimeoutKeepsOutcome ==
  ASSUME OrderInv, OutcomeInv, ControlOK, MsgsOK, NEW d \in Domains, ResultTimeout(d)
  PROVE  OutcomeInv'
  <1> USE DEF OutcomeInv
  <1>0. PICK m : m = op[d].msg
    OBVIOUS
  <1>1. /\ pc[d] = "await" /\ pc'[d] = "release" /\ serving' = serving
        /\ \A e \in Domains \ {d} : pc'[e] = pc[e] /\ op'[e] = op[e]
        /\ op'[d].kind = op[d].kind /\ op'[d].msg = op[d].msg
        /\ DOMAIN msgs' = DOMAIN msgs
        /\ \A n \in DOMAIN msgs :
              /\ msgs'[n].from = msgs[n].from /\ msgs'[n].to = msgs[n].to
              /\ msgs'[n].sync = msgs[n].sync /\ msgs'[n].at = msgs[n].at
              /\ msgs'[n].ret = msgs[n].ret
              /\ n # m => msgs'[n].saw = msgs[n].saw
    BY <1>0, ResultFacts
  <1>2. /\ ~result[d] /\ result' = result
        /\ msgs' = [msgs EXCEPT ![m].saw = "timeout"]
    BY <1>0 DEF ResultTimeout, Saw
  <1>3. op[d].kind = "sync"
    BY <1>1 DEF Unseen
  <1>4. m \in DOMAIN msgs /\ msgs[m].from = d
    BY <1>0, <1>3 DEF OrderInv, Calling, Remote
  <1>5. msgs'[m].saw = "timeout"
    <2>1. \A n \in DOMAIN msgs : msgs'[n].saw = IF n = m THEN "timeout" ELSE msgs[n].saw
      BY ONLY <1>2, MsgsOK, FieldWritten DEF MsgsOK
    <2> QED BY <1>4, <2>1
  <1>6. \A n \in DOMAIN msgs : msgs[n].to \in Domains /\ msgs[n].from \in Domains
    BY RemotingAssumption DEF OrderInv, Addressed
  <1>7. DOMAIN msgs \subseteq Nat
    BY LenProperties DEF MsgsOK
  <1>8. \A n \in DOMAIN msgs : msgs[n].saw = "timeout" => msgs'[n].saw = "timeout"
    BY <1>1, <1>5
  <1>9. /\ \A e, n : Late(e, n) => Late(e, n)'
        /\ \A e : TimedOut(e) => TimedOut(e)'
    BY <1>1, <1>8 DEF Late, TimedOut
  <1>10. Late(d, m)' /\ TimedOut(d)'
    BY <1>1, <1>4, <1>5, <1>7 DEF Late, TimedOut
  <1>11. \A n : \A e \in Domains : e # d => (WaitsFor(e, n) <=> WaitsFor(e, n)')
    BY <1>1 DEF WaitsFor
  <1>12. \A n \in DOMAIN msgs : Answered(n) <=> Answered(n)'
    <2>1. \A e \in Domains : pc'[e] = "answered" <=> pc[e] = "answered"
      BY <1>1
    <2> QED BY <1>1, <1>6, <2>1 DEF Answered
  <1>13. Results'
    <2>1. \A e \in Domains : pc'[e] \in Answers <=> pc[e] \in Answers
      BY <1>1 DEF Answers
    <2>2. \A e \in Domains : \A i \in DOMAIN serving[e] : serving[e][i] \in DOMAIN msgs
      BY DEF OrderInv, ServesTaken
    <2>3. \A n \in DOMAIN msgs : /\ msgs'[n].at \in {"made", "queued"} => msgs'[n].ret = "none"
                                 /\ msgs'[n].at = "done" => msgs'[n].ret # "none"
      BY <1>1 DEF Results
    <2>4. ASSUME NEW e \in Domains, NEW i \in DOMAIN serving[e]
          PROVE  msgs'[serving[e][i]].ret = "none" <=> (i # 1 \/ pc'[e] \notin Answers)
      BY <1>1, <2>1, <2>2 DEF Results
    <2> QED BY <1>1, <2>3, <2>4 DEF Results
  <1>14. Unseen'
    <2> SUFFICES ASSUME NEW e \in Domains
                 PROVE  /\ pc'[e] = "await" => op'[e].kind = "sync"
                        /\ op'[e].kind = "sync" /\ pc'[e] \in Early \cup Waiting
                              => msgs'[op'[e].msg].saw = "none"
      BY DEF Unseen
    <2>1. CASE e = d
      BY <1>1, <2>1 DEF Early, Waiting
    <2>2. CASE e # d
      <3>1. op[e].kind = "sync" => op[e].msg \in DOMAIN msgs /\ op[e].msg # m
        BY <1>4, <2>2 DEF OrderInv, Calling, Remote
      <3> QED BY <1>1, <2>2, <3>1 DEF Unseen
    <2> QED BY <2>1, <2>2
  <1>15. Awaited'
    <2> SUFFICES ASSUME NEW n \in DOMAIN msgs, msgs[n].sync, msgs[n].at \in {"queued", "taken"},
                        ~ Answered(n)'
                 PROVE  WaitsFor(msgs[n].from, n)' \/ Late(msgs[n].from, n)'
      BY <1>1 DEF Awaited
    <2>1. WaitsFor(msgs[n].from, n) \/ Late(msgs[n].from, n)
      BY <1>12 DEF Awaited
    <2>2. CASE msgs[n].from # d
      BY <1>1, <1>6, <1>9, <1>11, <2>1, <2>2
    <2>3. CASE msgs[n].from = d
      <3>1. WaitsFor(d, n) => n = m
        BY <1>0 DEF WaitsFor
      <3> QED BY <1>1, <1>9, <1>10, <2>1, <2>3, <3>1
    <2> QED BY <2>2, <2>3
  <1>16. Woken'
    <2> SUFFICES ASSUME NEW e \in Domains, result[e]
                 PROVE  \/ \E n \in DOMAIN msgs' : WaitsFor(e, n)' /\ Answered(n)'
                        \/ TimedOut(e)'
      BY <1>2 DEF Woken
    <2>1. e # d
      BY <1>2
    <2>2. \/ \E n \in DOMAIN msgs : WaitsFor(e, n) /\ Answered(n)
          \/ TimedOut(e)
      BY DEF Woken
    <2> QED BY <1>1, <1>9, <1>11, <1>12, <2>1, <2>2
  <1>17. Excused'
    <2> SUFFICES ASSUME NEW n \in DOMAIN msgs, msgs'[n].saw = "ok", msgs'[n].ret # "ok"
                 PROVE  \E k \in DOMAIN msgs : /\ k < n /\ msgs'[k].from = msgs'[n].from
                                               /\ msgs'[k].saw = "timeout"
      BY <1>1 DEF Excused
    <2>1. n # m
      BY <1>5
    <2>2. PICK k \in DOMAIN msgs : /\ k < n /\ msgs[k].from = msgs[n].from
                                   /\ msgs[k].saw = "timeout"
      BY <1>1, <2>1 DEF Excused
    <2> QED BY <1>1, <1>8, <2>2
  <1> QED BY <1>13, <1>14, <1>15, <1>16, <1>17

-----------------------------------------------------------------------------
LEMMA OutcomeKept ==
  ASSUME IInv, OrderInv, OutcomeInv, NEW d \in Domains, RuntimeStep(d) \/ UserStep(d)
  PROVE  OutcomeInv'
  <1> USE DEF IInv
  <1>1. ASSUME NEW e \in Domains, Plain(e)
        PROVE  OutcomeInv'
    BY <1>1, PlainKeepsOutcome
  <1>2. CASE RuntimeMoves(d) \/ Ends(d) \/ Refuse(d) \/ StubReturns(d) \/ UserMoves(d)
    BY <1>1, <1>2, RuntimeMovesPlainly, EndsPlainly, StubEndsPlainly, UserMovesPlainly
  <1>3. CASE \E c \in Domains \ {Base} : CreateRemoteDomain(d, c)
    BY <1>1, <1>3, CreatesPlainly
  <1>4. CASE \E c \in Domains \ {Base}, kind \in Remote : Begin(d, c, kind)
    BY <1>4, BeginKeepsOutcome DEF HandleOK, ControlOK
  <1>5. CASE Enqueue(d)
    BY <1>5, EnqueueKeepsOutcome
  <1>6. CASE Retrieve(d)
    BY <1>6, RetrieveKeepsOutcome
  <1>7. CASE ResultArrives(d)
    BY <1>7, ResultArrivesKeepsOutcome
  <1>8. CASE ResultTimeout(d)
    BY <1>8, ResultTimeoutKeepsOutcome
  <1>9. CASE ResetAnswer(d) \/ Forget(d) \/ (Answer(d) /\ Win32)
    <2>1. /\ pc[d] \in Answers /\ Goto(d, "poll")
          /\ msgs' = [msgs EXCEPT ![Head(serving[d])].at = "done"]
          /\ serving' = [serving EXCEPT ![d] = Tail(@)] /\ op' = op
      BY <1>9 DEF ResetAnswer, Forget, Answer, Answers
    <2>2. \A e \in Domains : result'[e] => \/ result[e]
                                           \/ /\ pc[d] = "answer" /\ msgs[Head(serving[d])].sync
                                              /\ e = msgs[Head(serving[d])].from
      BY <1>9 DEF ResetAnswer, Forget, Answer, Mailbox
    <2> QED BY <2>1, <2>2, DoneKeepsOutcome
  <1>10. CASE Answer(d) /\ ~Win32
    BY <1>10, AnswerKeepsOutcome
  <1>11. CASE UserStep(d)
    BY <1>2, <1>3, <1>4, <1>11 DEF UserStep, UserMoves, Ends
  <1>12. CASE RuntimeStep(d)
    BY <1>2, <1>5, <1>6, <1>7, <1>8, <1>9, <1>10, <1>12
    DEF RuntimeStep, RuntimeMoves, Ends
  <1> QED BY <1>11, <1>12

LEMMA OutcomeStarts == Init => OutcomeInv
  <1> SUFFICES ASSUME Init PROVE OutcomeInv OBVIOUS
  <1>1. DOMAIN msgs = {} /\ NoOp.kind = "none"
    BY OpFacts DEF Init
  <1>2. /\ \A e \in Domains : /\ op[e] = NoOp /\ serving[e] = <<>> /\ ~result[e]
                              /\ pc[e] # "await"
        /\ DOMAIN <<>> = {}
    BY DEF Init
  <1> QED BY <1>1, <1>2 DEF OutcomeInv, Results, Unseen, Awaited, Woken, Excused

\* The inductive invariant of messages and outcomes.
MailInv == IInv /\ OrderInv /\ OutcomeInv

LEMMA MailKept == MailInv /\ [Next]_vars => MailInv'
  <1> SUFFICES ASSUME MailInv, [Next]_vars PROVE MailInv'
    OBVIOUS
  <1> USE DEF MailInv
  <1>1. IInv'
    BY NextIInv
  <1>2. CASE Next
    BY <1>1, <1>2, OrderKept, OutcomeKept DEF Next
  <1>3. CASE UNCHANGED vars
    <2>1. UNCHANGED <<pc, op, serving, live, queue, result, msgs>>
      BY <1>3 DEF vars, control, handle, counts, mail
    <2>2. OrderInv'
      BY <2>1 DEF OrderInv, Addressed, Calling, ServesTaken, InnerLater, Unsent, NoneOvertakes,
                  QueuesSorted, QueuesHold, Rank
    <2>3. OutcomeInv'
      BY <2>1 DEF OutcomeInv, Results, Unseen, Awaited, Woken, Excused, Answered,
                  WaitsFor, Late, TimedOut
    <2> QED BY <1>1, <2>2, <2>3
  <1> QED BY <1>2, <1>3

\* Messages to a domain are taken in the order of the calls; when a method listens again,
\* what the inner stub serves is later than what the outer one still serves; and the queue
\* of a domain holds exactly what was sent to it and nobody has taken (MessageQueue::Enqueue
\* and tryRetrieveMessage).
THEOREM CallsInOrder == Spec => []MessagesInOrder
  <1>1. Init => MailInv
    BY InitIInv, OrderStarts, OutcomeStarts DEF MailInv
  <1>2. MailInv => MessagesInOrder
    BY InOrder DEF MailInv, OrderInv
  <1> QED BY <1>1, <1>2, MailKept, PTL DEF Spec

\* A blocking call that returns normally has been executed by the other domain, or an
\* earlier call of the same domain has timed out: an answer that is late wakes up the next
\* call, and no other answer does (SendMessageSync and PollMessages).
THEOREM ReturnedWasExecuted == Spec => []ReturnsWhenExecuted
  <1>1. Init => MailInv
    BY InitIInv, OrderStarts, OutcomeStarts DEF MailInv
  <1>2. MailInv => ReturnsWhenExecuted
    BY AllExcused DEF MailInv, IInv, OutcomeInv
  <1> QED BY <1>1, <1>2, MailKept, PTL DEF Spec

-----------------------------------------------------------------------------
(***************************************************************************)
(* Readiness. On Win32 the pulse of SignalDomainIsReady stays until the    *)
(* creator consumes it, and the creator then drops the object.             *)
(***************************************************************************)
Begun(c) == pc[c] \notin {"none", "create", "publish", "signal", "dead"}

ReadyInv == \A c \in Domains : /\ pc[c] # "signalled"
                               /\ c # Base /\ Begun(c) => ready[c] # "off"

\* Steps of a thread that has begun and touches no readiness object.
LEMMA BegunMoves ==
  ASSUME ControlOK, ReadyInv, NEW d \in Domains, NEW place, Goto(d, place), Begun(d),
         place # "signalled", ready' = ready
  PROVE  ReadyInv'
  BY DEF ControlOK, Goto, ReadyInv, Begun

LEMMA ReadyKept ==
  ASSUME IInv, ReadyInv, Win32, NEW d \in Domains, RuntimeStep(d) \/ UserStep(d)
  PROVE  ReadyInv'
  <1> USE DEF IInv, handle, control
  <1>1. CASE CreateDomain(d) \/ CreateDomainFails(d) \/ SetDomain(d)
    <2>1. PICK place \in {"publish", "dead", "signal"} : Goto(d, place) /\ ready' = ready
      BY <1>1 DEF CreateDomain, CreateDomainFails, SetDomain
    <2> QED BY <2>1 DEF ControlOK, Goto, ReadyInv, Begun
  <1>2. CASE SignalDomainIsReady(d)
    BY <1>2 DEF SignalDomainIsReady, ControlOK, HandleOK, HandleTypes, Goto, ReadyInv, Begun
  <1>3. CASE ResetReadiness(d)
    BY <1>3 DEF ResetReadiness, ReadyInv
  <1>4. CASE DomainIsReady(d)
    BY <1>4 DEF DomainIsReady, ControlOK, HandleOK, HandleTypes, Goto, ReadyInv, Begun
  <1>5. CASE ReadinessTimeout(d) \/ DomainIsGone(d) \/ AbortInUserCode(d) \/ Drop(d)
             \/ Reread(d) \/ EndDestroy(d)
    <2>1. \A ms : Abort(d, ms) => \E place : Goto(d, place) /\ place # "signalled"
      BY DEF Abort
    <2>2. EndOperation(d) => \E place : Goto(d, place) /\ place # "signalled"
      BY <2>1 DEF EndOperation
    <2>3. \A zero : Unreferenced(d, zero) => \E place : Goto(d, place) /\ place # "signalled"
      BY <2>2 DEF Unreferenced
    <2>4. Begun(d) /\ ready' = ready
      BY <1>5 DEF ReadinessTimeout, DomainIsGone, AbortInUserCode, Drop, Reread, EndDestroy, Begun
    <2>5. CASE ReadinessTimeout(d) \/ DomainIsGone(d) \/ AbortInUserCode(d)
      <3>1. \E place : Goto(d, place) /\ place # "signalled"
        BY <2>1, <2>5 DEF ReadinessTimeout, DomainIsGone, AbortInUserCode
      <3> QED BY <2>4, <3>1, BegunMoves
    <2>6. CASE Drop(d) \/ Reread(d) \/ EndDestroy(d)
      <3>1. \E place : Goto(d, place) /\ place # "signalled"
        BY <2>2, <2>3, <2>6 DEF Drop, Reread, EndDestroy
      <3> QED BY <2>4, <3>1, BegunMoves
    <2> QED BY <1>5, <2>5, <2>6
  <1>6. CASE \/ ClearDomain(d) \/ LeaveThread(d) \/ GetDomain(d) \/ CountReference(d)
             \/ ImportObject(d) \/ Enqueue(d) \/ PulseQueue(d) \/ ResetQueuePulse(d)
             \/ Release(d) \/ Join(d)
    <2>1. Begun(d) /\ ready' = ready /\ \E place : Goto(d, place) /\ place # "signalled"
      BY <1>6 DEF ClearDomain, LeaveThread, GetDomain, CountReference, Got, ImportObject,
                  Enqueue, PulseQueue, ResetQueuePulse, Release, Join, Sent, Begun
    <2> QED BY <2>1, BegunMoves
  <1>7. CASE \/ ResultArrives(d) \/ ResultTimeout(d) \/ Retrieve(d) \/ RetrieveNothing(d)
             \/ NewMessage(d) \/ PollTimeout(d) \/ CallStub(d) \/ Refuse(d) \/ Answer(d)
             \/ ResetAnswer(d) \/ Forget(d)
    <2>1. Begun(d) /\ ready' = ready /\ \E place : Goto(d, place) /\ place # "signalled"
      BY <1>7 DEF ResultArrives, ResultTimeout, Retrieve, RetrieveNothing, NewMessage,
                  PollTimeout, CallStub, Refuse, Answer, ResetAnswer, Forget, Begun
    <2> QED BY <2>1, BegunMoves
  <1>8. CASE \/ \E c \in Domains \ {Base}, kind \in Kinds : Begin(d, c, kind)
             \/ Listen(d) \/ StopListening(d) \/ StubReturns(d) \/ ReturnFromMain(d)
    <2>1. Begun(d) /\ ready' = ready /\ \E place : Goto(d, place) /\ place # "signalled"
      BY <1>8 DEF Begin, Listen, StopListening, StubReturns, ReturnFromMain, Begun
    <2> QED BY <2>1, BegunMoves
  <1>9. CASE \E c \in Domains \ {Base} : CreateRemoteDomain(d, c)
    <2>1. PICK c \in Domains : Goto(c, "create") /\ ready' = ready
      BY <1>9 DEF CreateRemoteDomain
    <2> QED BY <2>1 DEF ControlOK, Goto, ReadyInv, Begun
  <1>10. CASE Export(d) \/ Unexport(d)
    BY <1>10 DEF Export, Unexport, ReadyInv, Begun
  <1>11. CASE UserStep(d)
    BY <1>5, <1>8, <1>9, <1>10, <1>11 DEF UserStep
  <1>12. CASE RuntimeStep(d)
    BY <1>1, <1>2, <1>3, <1>4, <1>5, <1>6, <1>7, <1>12 DEF RuntimeStep
  <1> QED BY <1>11, <1>12

\* On Win32 an operation that comes after the signal of the new domain never times out on
\* its readiness (SignalDomainIsReady and waitForDomainReadiness). On POSIX the pulse may
\* be lost, which the models find.
THEOREM ReadyOnceSignalled ==
  ASSUME Win32
  PROVE  Spec => []ReadinessIsVisible
  <1>1. Init => IInv /\ ReadyInv
    BY InitIInv DEF Init, ReadyInv, Begun
  <1>2. IInv /\ ReadyInv /\ [Next]_vars => (IInv /\ ReadyInv)'
    <2> SUFFICES ASSUME IInv, ReadyInv, [Next]_vars PROVE IInv' /\ ReadyInv'
      OBVIOUS
    <2>1. IInv'
      BY NextIInv
    <2>2. CASE Next
      BY <2>1, <2>2, ReadyKept DEF Next
    <2>3. CASE UNCHANGED vars
      BY <2>1, <2>3 DEF vars, control, handle, ReadyInv, Begun
    <2> QED BY <2>2, <2>3
  <1>3. ReadyInv => ReadinessIsVisible
    BY DEF ReadyInv, ReadinessIsVisible, Begun, Alive
  <1> QED BY <1>1, <1>2, <1>3, PTL DEF Spec
=============================================================================
