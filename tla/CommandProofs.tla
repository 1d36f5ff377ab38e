--------------------------- MODULE CommandProofs ---------------------------
(***************************************************************************)
(* Proofs about Command, for any number of commands, threads, users and ids. *)
(***************************************************************************)
EXTENDS Command, ChirpServiceProofs

-----------------------------------------------------------------------------
(* The invariant.                                                          *)

\* A command has an answer only while it waits for one.
AnswersAreAwaited ==
  \A c \in Client : state[c] = "send" \/ ~Running(c) => answer[c] = NoAnswer

\* The parent of a reply is the chirp that was read first, and it is there as soon
\* as that read says so.
ParentIsThere(c) ==
  /\ call[c].op = "chirp" /\ call[c].parent_id # NoParent =>
       idChirp[call[c].parent_id] # Absent
  /\ call[c].op = "read" /\ answer[c].status = "OK" => idChirp[call[c].chirp_id] # Absent
  /\ call[c].op = "read" /\ task[c].op = "chirp" => task[c].parent_id = call[c].chirp_id

\* A read goes on only from a chirp that is there.
ReadIsThere(h) == pc[h] \in {"ReadRoot", "ReadLoop"} => idChirp[req[h].chirp_id] # Absent

CommandInv ==
  /\ CTypeOK
  /\ AnswersAreAwaited
  /\ \A c \in Client : ParentIsThere(c)
  /\ \A h \in Handler : ReadIsThere(h)

-----------------------------------------------------------------------------
(* Command lines.                                                          *)

\* What a command line asks for is a request, and so is what it calls first; if that
\* is a read and a chirp is to follow, it reads the parent of the chirp.
LEMMA AskedType ==
  ASSUME NEW flags \in CommandLine
  PROVE  /\ Asked(flags) \in Request
         /\ FirstCall(Asked(flags)) \in Request
         /\ FirstCall(Asked(flags)).op = "chirp" =>
              FirstCall(Asked(flags)).parent_id = NoParent
         /\ FirstCall(Asked(flags)).op = "read" /\ Asked(flags).op = "chirp" =>
              Asked(flags).parent_id = FirstCall(Asked(flags)).chirp_id
<1> DEFINE mode == CommandHandler(flags)
<1>1. flags \in Flags /\ mode \in Called
  BY DEF CommandLine
<1>2. \A name \in {"regist", "user", "chirp", "reply", "read", "follow"} :
        name \in Given(flags) => flags[name] # NoId
  BY <1>1 DEF Given, Flags
<1>3. CASE mode = "kREGIST"
  <2>1. "regist" \in Given(flags)
    BY <1>1, <1>3 DEF CommandHandler
  <2>2. flags.regist \in User
    BY <1>1, <1>2, <2>1 DEF Flags
  <2>3. Asked(flags) = [op |-> "register", username |-> flags.regist]
    BY <1>3 DEF Asked
  <2> QED
    BY <2>2, <2>3 DEF FirstCall, Request, RegisterRequest
<1>4. CASE mode = "kCHIRP"
  <2>1. "user" \in Given(flags)
    BY <1>1, <1>4 DEF CommandHandler
  <2>2. flags.user \in User
    BY <1>1, <1>2, <2>1 DEF Flags
  <2>3. Asked(flags) = [op |-> "chirp", username |-> flags.user, parent_id |-> NoParent]
    BY <1>4 DEF Asked, ChirpRequestMaker
  <2> QED
    BY <2>2, <2>3 DEF FirstCall, Request, ChirpRequest
<1>5. CASE mode = "kREPLY"
  <2>1. "user" \in Given(flags) /\ "reply" \in Given(flags)
    BY <1>1, <1>5 DEF CommandHandler
  <2>2. flags.user \in User /\ flags.reply \in Id \cup {NoParent}
    BY <1>1, <1>2, <2>1 DEF Flags
  <2>3. Asked(flags) = [op |-> "chirp", username |-> flags.user, parent_id |-> flags.reply]
    BY <1>5 DEF Asked, ChirpRequestMaker
  <2> QED
    BY <2>2, <2>3 DEF FirstCall, ReadRequestMaker, Request, ChirpRequest, ReadRequest
<1>6. CASE mode = "kREAD"
  <2>1. "read" \in Given(flags)
    BY <1>1, <1>6 DEF CommandHandler
  <2>2. flags.read \in Id
    BY <1>1, <1>2, <2>1 DEF Flags
  <2>3. Asked(flags) = [op |-> "read", chirp_id |-> flags.read]
    BY <1>6 DEF Asked, ReadRequestMaker
  <2> QED
    BY <2>2, <2>3 DEF FirstCall, Request, ReadRequest
<1>7. CASE mode = "kFOLLOW"
  <2>1. "user" \in Given(flags) /\ "follow" \in Given(flags)
    BY <1>1, <1>7 DEF CommandHandler
  <2>2. flags.user \in User /\ flags.follow \in User
    BY <1>1, <1>2, <2>1 DEF Flags
  <2>3. Asked(flags) = [op |-> "follow", username |-> flags.user, to_follow |-> flags.follow]
    BY <1>7 DEF Asked, FollowRequestMaker
  <2> QED
    BY <2>2, <2>3 DEF FirstCall, Request, FollowRequest
<1> QED
  BY <1>1, <1>3, <1>4, <1>5, <1>6, <1>7 DEF Called

-----------------------------------------------------------------------------
(* What the service does, as far as commands are concerned.                 *)

\* A request that a thread takes up is one that its first step can serve.
LEMMA ReceiveType ==
  ASSUME TypeOK, NEW h \in Handler, NEW r \in Request, Receive(h, r, FirstStep(r))
  PROVE  TypeOK'
<1> USE DEF RegisterSteps, ChirpIdSteps, ChirpParentSteps, FollowSteps, ReadSteps, Label
<1>1. \/ r \in RegisterRequest /\ FirstStep(r) = "RegisterHas"
      \/ r \in ChirpRequest /\ FirstStep(r) = "ChirpHas"
      \/ r \in FollowRequest /\ FirstStep(r) = "FollowHas"
      \/ r \in ReadRequest /\ FirstStep(r) = "ReadHas"
  BY DEF Request, RegisterRequest, ChirpRequest, FollowRequest, ReadRequest, FirstStep
<1>2. StoreTypeOK' /\ HandlerTypeOK'
  BY <1>1 DEF Receive, Goto, store, TypeOK, StoreTypeOK, HandlerTypeOK
<1>3. LocalsOK(h)'
  BY <1>1 DEF Receive, Goto, LocalsOK, TypeOK, HandlerTypeOK
<1> QED
  BY <1>2, <1>3, OtherLocals DEF Receive, Goto, TypeOK, HandlerTypeOK

\* A handler that takes a request up was idle, and the others notice nothing.
LEMMA ReceiveMoves ==
  ASSUME TypeOK, NEW h \in Handler, NEW r, NEW l, Receive(h, r, l)
  PROVE  /\ pc[h] = "idle" /\ pc'[h] = l /\ req'[h] = r
         /\ \A g \in Handler \ {h} : pc'[g] = pc[g] /\ req'[g] = req[g]
         /\ UNCHANGED idChirp
BY DEF Receive, At, Goto, store, TypeOK, HandlerTypeOK

\* A step of a handler changes nothing of the others, and of its request nothing
\* before it answers.
LEMMA HandleMoves ==
  ASSUME TypeOK, NEW h \in Handler, Handle(h)
  PROVE  /\ pc[h] # "idle"
         /\ pc'[h] = "idle" \/ req'[h] = req[h]
         /\ \A g \in Handler \ {h} : pc'[g] = pc[g] /\ req'[g] = req[g]
<1> USE DEF At, TypeOK, HandlerTypeOK
<1> DEFINE Moves == /\ pc'[h] = "idle" \/ req'[h] = req[h]
                    /\ \A g \in Handler \ {h} : pc'[g] = pc[g] /\ req'[g] = req[g]
<1>1. ASSUME NEW code, Answer(h, code) PROVE Moves
  BY <1>1 DEF Answer
<1>2. ASSUME NEW l, Continue(h, l) PROVE Moves
  BY <1>2 DEF Continue, Goto, local
<1>3. CASE Register(h)
  BY <1>1, <1>2, <1>3 DEF Register, RegisterHas, RegisterIdHas, RegisterIdPut,
     RegisterFollowedHas, RegisterFollowedPut, HasThen
<1>4. CASE DoChirp(h)
  BY <1>1, <1>2, <1>4 DEF DoChirp, ChirpHas, ChirpIdHas, ChirpIdPut, ChirpUserPut,
     ChirpParentHas, ChirpParentGet, ChirpParentPut, ChirpReplyPut, HasThen, Goto
<1>5. CASE Follow(h)
  BY <1>1, <1>2, <1>5 DEF Follow, FollowHas, FollowHasTo, FollowGet, FollowPut, HasThen, Goto
<1>6. CASE Read(h)
  BY <1>1, <1>2, <1>6 DEF Read, ReadHas, ReadRoot, ReadReplies, ReadChirp, ReadReturn,
     HasThen, Goto
<1> QED
  BY <1>3, <1>4, <1>5, <1>6 DEF Handle

\* A chirp that is in the store stays there.
LEMMA ChirpsStay ==
  ASSUME TypeOK, NEW h \in Handler, Handle(h), NEW i \in Id, idChirp[i] # Absent
  PROVE  idChirp'[i] # Absent
<1>1. CASE ChirpIdPut(h)
  <2>1. TheChirp(h) \in Chirp
    BY <1>1 DEF ChirpIdPut, At, TheChirp, ChirpRequest, Chirp, LocalsOK, ChirpIdSteps, TypeOK
  <2>2. TheChirp(h) # Absent
    BY <2>1, SentinelAssumption DEF Chirp
  <2> QED
    BY <1>1, <2>2 DEF ChirpIdPut, Stored, TypeOK, StoreTypeOK
<1>2. CASE ~ChirpIdPut(h)
  <2>1. CASE Register(h)
    BY <2>1 DEF Register, RegisterHas, RegisterIdHas, RegisterIdPut, RegisterFollowedHas,
       RegisterFollowedPut, HasThen, store
  <2>2. CASE DoChirp(h)
    BY <1>2, <2>2 DEF DoChirp, ChirpHas, ChirpIdHas, ChirpUserPut, ChirpParentHas,
       ChirpParentGet, ChirpParentPut, ChirpReplyPut, HasThen, store
  <2>3. CASE Follow(h)
    BY <2>3 DEF Follow, FollowHas, FollowHasTo, FollowGet, FollowPut, HasThen, store
  <2>4. CASE Read(h)
    BY <2>4 DEF Read, ReadHas, ReadRoot, ReadReplies, ReadChirp, ReadReturn, HasThen, store
  <2> QED
    BY <2>1, <2>2, <2>3, <2>4 DEF Handle
<1> QED
  BY <1>1, <1>2

\* A read goes on only if its chirp is there, and is answered OK only from its loop.
LEMMA ReadStep ==
  ASSUME TypeOK, NEW h \in Handler, Handle(h), ReadIsThere(h)
  PROVE  /\ pc'[h] \in {"ReadRoot", "ReadLoop"} => idChirp[req[h].chirp_id] # Absent
         /\ req[h].op = "read" /\ pc'[h] = "idle" /\ status'[h] = "OK" =>
              idChirp[req[h].chirp_id] # Absent
<1> USE DEF At, TypeOK, HandlerTypeOK
<1>1. ASSUME NEW code, Answer(h, code) PROVE pc'[h] = "idle" /\ status'[h] = code
  BY <1>1 DEF Answer
<1>2. ASSUME NEW l, Continue(h, l) PROVE pc'[h] = l
  BY <1>2 DEF Continue, Goto
<1>3. CASE Register(h)
  <2>1. req[h].op = "register"
    BY <1>3 DEF Register, RegisterHas, RegisterIdHas, RegisterIdPut, RegisterFollowedHas,
       RegisterFollowedPut, LocalsOK, RegisterSteps, RegisterRequest
  <2>2. pc'[h] \notin {"ReadRoot", "ReadLoop"}
    BY <1>1, <1>2, <1>3 DEF Register, RegisterHas, RegisterIdHas, RegisterIdPut,
       RegisterFollowedHas, RegisterFollowedPut, HasThen
  <2> QED
    BY <2>1, <2>2
<1>4. CASE DoChirp(h)
  <2>1. req[h].op = "chirp"
    BY <1>4 DEF DoChirp, ChirpHas, ChirpIdHas, ChirpIdPut, ChirpUserPut, ChirpParentHas,
       ChirpParentGet, ChirpParentPut, ChirpReplyPut, LocalsOK, ChirpIdSteps, ChirpRequest
  <2>2. pc'[h] \notin {"ReadRoot", "ReadLoop"}
    BY <1>1, <1>2, <1>4 DEF DoChirp, ChirpHas, ChirpIdHas, ChirpIdPut, ChirpUserPut,
       ChirpParentHas, ChirpParentGet, ChirpParentPut, ChirpReplyPut, HasThen, Goto
  <2> QED
    BY <2>1, <2>2
<1>5. CASE Follow(h)
  <2>1. req[h].op = "follow"
    BY <1>5 DEF Follow, FollowHas, FollowHasTo, FollowGet, FollowPut, LocalsOK,
       FollowSteps, FollowRequest
  <2>2. pc'[h] \notin {"ReadRoot", "ReadLoop"}
    BY <1>1, <1>2, <1>5 DEF Follow, FollowHas, FollowHasTo, FollowGet, FollowPut, HasThen, Goto
  <2> QED
    BY <2>1, <2>2
<1>6. CASE ReadHas(h)
  <2>1. CASE Answer(h, "NOT_FOUND")
    BY <1>1, <2>1
  <2>2. CASE ~Answer(h, "NOT_FOUND")
    BY <1>6, <2>2 DEF ReadHas, HasThen, HasAnswers
  <2> QED
    BY <2>1, <2>2
<1>7. CASE ReadRoot(h) \/ ReadReplies(h) \/ ReadChirp(h) \/ ReadReturn(h)
  BY <1>7 DEF ReadRoot, ReadReplies, ReadChirp, ReadReturn, ReadIsThere
<1> QED
  BY <1>3, <1>4, <1>5, <1>6, <1>7 DEF Handle, Read

-----------------------------------------------------------------------------
(* The steps.                                                              *)

\* What a command knows of the store stays true, as long as it learns nothing new.
LEMMA ParentStays ==
  ASSUME CommandTypeOK, NEW c \in Client, ParentIsThere(c),
         call'[c] = call[c], task'[c] = task[c],
         answer'[c].status = "OK" => answer[c].status = "OK",
         \A i \in Id : idChirp[i] # Absent => idChirp'[i] # Absent
  PROVE  ParentIsThere(c)'
<1>1. call[c] \in Request \cup {NoRequest}
  BY DEF CommandTypeOK
<1>2. call[c].op = "chirp" /\ call[c].parent_id # NoParent => call[c].parent_id \in Id
  BY <1>1 DEF Request, RegisterRequest, ChirpRequest, FollowRequest, ReadRequest, NoRequest
<1>3. call[c].op = "read" => call[c].chirp_id \in Id
  BY <1>1 DEF Request, RegisterRequest, ChirpRequest, FollowRequest, ReadRequest, NoRequest
<1> QED
  BY <1>2, <1>3 DEF ParentIsThere

\* What a read knows, too.
LEMMA ReadStays ==
  ASSUME TypeOK, NEW h \in Handler, ReadIsThere(h), pc'[h] = pc[h], req'[h] = req[h],
         \A i \in Id : idChirp[i] # Absent => idChirp'[i] # Absent
  PROVE  ReadIsThere(h)'
<1>1. pc[h] \in {"ReadRoot", "ReadLoop"} => req[h].chirp_id \in Id
  BY DEF TypeOK, LocalsOK, ReadSteps, ReadRequest
<1> QED
  BY <1>1 DEF ReadIsThere

\* A step of the commands alone leaves the service as it is.
LEMMA ServiceStays ==
  ASSUME CommandInv, UNCHANGED vars
  PROVE  TypeOK' /\ (\A h \in Handler : ReadIsThere(h)') /\ UNCHANGED <<idChirp, pc, req>>
<1>1. TypeOK'
  BY TypeNext DEF CommandInv, CTypeOK
<1>2. UNCHANGED <<idChirp, pc, req>>
  BY DEF vars, store, local
<1> QED
  BY <1>1, <1>2 DEF CommandInv, ReadIsThere

LEMMA StartInv ==
  ASSUME CommandInv, NEW c \in Client, Start(c)
  PROVE  CommandInv'
<1> USE DEF CommandInv, CTypeOK
<1>1. PICK flags \in CommandLine :
        /\ task' = [task EXCEPT ![c] = Asked(flags)]
        /\ call' = [call EXCEPT ![c] = FirstCall(Asked(flags))]
        /\ state' = [state EXCEPT ![c] = "send"]
  BY DEF Start
<1>2. ~Running(c) /\ UNCHANGED <<vars, from, answer, lost>>
  BY DEF Start
<1>3. answer[c] = NoAnswer
  BY <1>2 DEF AnswersAreAwaited
<1>4. TypeOK' /\ (\A h \in Handler : ReadIsThere(h)') /\ UNCHANGED <<idChirp, pc, req>>
  BY <1>2, ServiceStays
<1>5. CommandTypeOK'
  BY <1>1, <1>2, AskedType DEF CommandTypeOK
<1>6. \A h \in Handler : Serves(h)'
  BY <1>1, <1>2, <1>4 DEF Serves, Waiting, Running, At, CommandTypeOK
<1>7. AnswersAreAwaited'
  BY <1>1, <1>2, <1>3 DEF AnswersAreAwaited, Running, CommandTypeOK
<1>8. \A d \in Client : ParentIsThere(d)'
  <2> TAKE d \in Client
  <2>1. CASE d = c
    BY <1>1, <1>2, <1>3, <2>1, AskedType DEF ParentIsThere, NoAnswer, CommandTypeOK
  <2>2. CASE d # c
    BY <1>1, <1>2, <1>4, <2>2 DEF ParentIsThere, CommandTypeOK
  <2> QED
    BY <2>1, <2>2
<1> QED
  BY <1>4, <1>5, <1>6, <1>7, <1>8

LEMMA CallInv ==
  ASSUME CommandInv, NEW c \in Client, Call(c)
  PROVE  CommandInv'
<1> USE DEF CommandInv, CTypeOK
<1>1. PICK h \in Handler : /\ Receive(h, call[c], FirstStep(call[c]))
                          /\ from' = [from EXCEPT ![h] = c]
  BY DEF Call
<1>2. /\ Running(c) /\ state[c] = "send"
      /\ state' = [state EXCEPT ![c] = "wait"]
      /\ UNCHANGED <<task, call, answer, lost>>
  BY DEF Call
<1>3. answer[c] = NoAnswer
  BY <1>2 DEF AnswersAreAwaited
<1>4. call[c] \in Request
  <2>1. call[c].op \in {"register", "chirp", "follow", "read"}
    BY <1>1, OpsAssumption DEF Receive
  <2>2. call[c] # NoRequest
    BY <2>1 DEF NoRequest
  <2> QED
    BY <2>2 DEF CommandTypeOK
<1>5. TypeOK'
  BY <1>1, <1>4, ReceiveType
<1>6. /\ pc[h] = "idle" /\ pc'[h] = FirstStep(call[c]) /\ req'[h] = call[c]
      /\ \A g \in Handler \ {h} : pc'[g] = pc[g] /\ req'[g] = req[g]
      /\ UNCHANGED idChirp
  BY <1>1, ReceiveMoves
<1>7. FirstStep(call[c]) \in {"RegisterHas", "ChirpHas", "FollowHas", "ReadHas"}
  BY <1>4 DEF FirstStep, Request, RegisterRequest, ChirpRequest, FollowRequest, ReadRequest
<1>8. CommandTypeOK'
  BY <1>1, <1>2 DEF CommandTypeOK
<1>9. \A g \in Handler : Serves(g)'
  <2> TAKE g \in Handler
  <2>1. \A f \in Handler : from[f] # c
    BY <1>2, CommandAssumption DEF Serves
  <2>2. CASE g = h
    BY <1>1, <1>2, <1>3, <1>6, <1>7, <2>1, <2>2 DEF Serves, Waiting, Running, At, CommandTypeOK
  <2>3. CASE g # h
    BY <1>1, <1>2, <1>6, <2>1, <2>3 DEF Serves, Waiting, Running, At, CommandTypeOK
  <2> QED
    BY <2>2, <2>3
<1>10. AnswersAreAwaited'
  BY <1>2 DEF AnswersAreAwaited, Running, CommandTypeOK
<1>11. \A d \in Client : ParentIsThere(d)'
  BY <1>2, <1>6 DEF ParentIsThere
<1>12. \A g \in Handler : ReadIsThere(g)'
  BY <1>6, <1>7 DEF ReadIsThere
<1> QED
  BY <1>5, <1>8, <1>9, <1>10, <1>11, <1>12

LEMMA PostReplyInv ==
  ASSUME CommandInv, NEW c \in Client, PostReply(c)
  PROVE  CommandInv'
<1> USE DEF CommandInv, CTypeOK
<1>1. /\ task[c].op = "chirp" /\ call[c].op = "read" /\ answer[c].status = "OK"
      /\ call' = [call EXCEPT ![c] = task[c]]
      /\ state' = [state EXCEPT ![c] = "send"]
      /\ answer' = [answer EXCEPT ![c] = NoAnswer]
      /\ UNCHANGED <<vars, from, task, lost>>
  BY DEF PostReply, ParentFound, Posts
<1>2. TypeOK' /\ (\A h \in Handler : ReadIsThere(h)') /\ UNCHANGED <<idChirp, pc, req>>
  BY <1>1, ServiceStays
<1>3. NoAnswer \in [status : {"none"}, chirps : Seq(Id \cup {NoId})]
  BY DEF NoAnswer
<1>4. CommandTypeOK'
  BY <1>1, <1>3 DEF CommandTypeOK
<1>5. answer[c] # NoAnswer
  BY <1>1 DEF NoAnswer
<1>6. \A h \in Handler : Serves(h)'
  BY <1>1, <1>2, <1>5 DEF Serves, Waiting, Running, At, CommandTypeOK
<1>7. AnswersAreAwaited'
  BY <1>1 DEF AnswersAreAwaited, Running, CommandTypeOK
<1>8. \A d \in Client : ParentIsThere(d)'
  <2> TAKE d \in Client
  <2>1. CASE d = c
    <3>1. task[c].parent_id = call[c].chirp_id /\ idChirp[call[c].chirp_id] # Absent
      BY <1>1 DEF ParentIsThere
    <3>2. call'[c] = task[c]
      BY <1>1 DEF CommandTypeOK
    <3> QED
      BY <1>1, <1>2, <2>1, <3>1, <3>2 DEF ParentIsThere
  <2>2. CASE d # c
    BY <1>1, <1>2, <2>2 DEF ParentIsThere, CommandTypeOK
  <2> QED
    BY <2>1, <2>2
<1> QED
  BY <1>2, <1>4, <1>6, <1>7, <1>8

LEMMA ExitInv ==
  ASSUME CommandInv, NEW c \in Client, Exit(c)
  PROVE  CommandInv'
<1> USE DEF CommandInv, CTypeOK
<1>1. /\ answer[c] # NoAnswer
      /\ task' = [task EXCEPT ![c] = NoRequest]
      /\ call' = [call EXCEPT ![c] = NoRequest]
      /\ answer' = [answer EXCEPT ![c] = NoAnswer]
      /\ UNCHANGED <<vars, from, state, lost>>
  BY DEF Exit
<1>2. TypeOK' /\ (\A h \in Handler : ReadIsThere(h)') /\ UNCHANGED <<idChirp, pc, req>>
  BY <1>1, ServiceStays
<1>3. NoAnswer \in [status : {"none"}, chirps : Seq(Id \cup {NoId})]
  BY DEF NoAnswer
<1>4. CommandTypeOK'
  BY <1>1, <1>3 DEF CommandTypeOK
<1>5. \A h \in Handler : Serves(h)'
  BY <1>1, <1>2 DEF Serves, Waiting, Running, At, CommandTypeOK
<1>6. AnswersAreAwaited'
  BY <1>1 DEF AnswersAreAwaited, Running, CommandTypeOK
<1>7. \A d \in Client : ParentIsThere(d)'
  <2> TAKE d \in Client
  <2>1. CASE d = c
    BY <1>1, <2>1 DEF ParentIsThere, NoRequest, CommandTypeOK
  <2>2. CASE d # c
    BY <1>1, <1>2, <2>2 DEF ParentIsThere, CommandTypeOK
  <2> QED
    BY <2>1, <2>2
<1> QED
  BY <1>2, <1>4, <1>5, <1>6, <1>7

LEMMA LoseInv ==
  ASSUME CommandInv, NEW c \in Client, Lose(c)
  PROVE  CommandInv'
<1> USE DEF CommandInv, CTypeOK
<1>1. /\ lost < MaxLost /\ lost' = lost + 1
      /\ Running(c)
      /\ answer' = [answer EXCEPT ![c] = Unavailable]
      /\ state' = [state EXCEPT ![c] = "wait"]
      /\ from' = [h \in Handler |-> IF from[h] = c THEN Nobody ELSE from[h]]
      /\ UNCHANGED <<vars, task, call>>
  BY DEF Lose, Waiting
<1>2. TypeOK' /\ (\A h \in Handler : ReadIsThere(h)') /\ UNCHANGED <<idChirp, pc, req>>
  BY <1>1, ServiceStays
<1>3. Unavailable \in [status : {"UNAVAILABLE"}, chirps : Seq(Id \cup {NoId})]
  BY DEF Unavailable
<1>4. lost' \in 0 .. MaxLost
  BY <1>1, LostAssumption DEF CommandTypeOK
<1>5. CommandTypeOK'
  BY <1>1, <1>3, <1>4 DEF CommandTypeOK
<1>6. \A h \in Handler : Serves(h)'
  BY <1>1, <1>2, CommandAssumption DEF Serves, Waiting, Running, At, CommandTypeOK
<1>7. AnswersAreAwaited'
  BY <1>1 DEF AnswersAreAwaited, Running, CommandTypeOK
<1>8. \A d \in Client : ParentIsThere(d)'
  <2> TAKE d \in Client
  <2>1. answer'[d].status = "OK" => answer[d].status = "OK"
    BY <1>1 DEF Unavailable, CommandTypeOK
  <2> QED
    BY <1>1, <1>2, <2>1, ParentStays
<1> QED
  BY <1>2, <1>5, <1>6, <1>7, <1>8

LEMMA OthersInv ==
  ASSUME CommandInv, NEW h \in Handler, Others(h)
  PROVE  CommandInv'
<1> USE DEF CommandInv, CTypeOK
<1>1. Arrive(h) /\ UNCHANGED commands
  BY DEF Others
<1>2. TypeOK'
  BY <1>1, TypeNext DEF Next
<1>3. /\ pc[h] = "idle" /\ pc'[h] \in {"RegisterHas", "ChirpHas", "FollowHas", "ReadHas"}
      /\ \A g \in Handler \ {h} : pc'[g] = pc[g] /\ req'[g] = req[g]
      /\ UNCHANGED idChirp
  BY <1>1, ReceiveMoves DEF Arrive, ReceiveRegister, ReceiveChirp, ReceiveFollow, ReceiveRead
<1>4. UNCHANGED <<from, task, state, call, answer, lost>>
  BY <1>1 DEF commands, process
<1>5. CommandTypeOK' /\ AnswersAreAwaited'
  BY <1>4 DEF CommandTypeOK, AnswersAreAwaited, Running
<1>6. \A g \in Handler : Serves(g)'
  BY <1>3, <1>4 DEF Serves, Waiting, Running, At
<1>7. (\A d \in Client : ParentIsThere(d)') /\ \A g \in Handler : ReadIsThere(g)'
  BY <1>3, <1>4 DEF ParentIsThere, ReadIsThere
<1> QED
  BY <1>2, <1>5, <1>6, <1>7

LEMMA ServiceRestartInv ==
  ASSUME CommandInv, ServiceRestart
  PROVE  CommandInv'
<1> USE DEF CommandInv, CTypeOK
<1>1. /\ Restart /\ lost < MaxLost /\ lost' = lost + 1
      /\ from' = [h \in Handler |-> Nobody]
      /\ answer' = [c \in Client |-> IF Waiting(c) /\ state[c] = "wait" THEN Unavailable
                                     ELSE answer[c]]
      /\ UNCHANGED <<task, state, call>>
  BY DEF ServiceRestart
<1>2. TypeOK'
  BY <1>1, TypeNext DEF Next
<1>3. (\A h \in Handler : pc'[h] = "idle") /\ UNCHANGED idChirp
  BY <1>1 DEF Restart, store
<1>4. Unavailable \in [status : {"UNAVAILABLE"}, chirps : Seq(Id \cup {NoId})]
  BY DEF Unavailable
<1>5. lost' \in 0 .. MaxLost
  BY <1>1, LostAssumption DEF CommandTypeOK
<1>6. CommandTypeOK'
  BY <1>1, <1>4, <1>5 DEF CommandTypeOK
<1>7. \A h \in Handler : Serves(h)'
  BY <1>1 DEF Serves
<1>8. AnswersAreAwaited'
  BY <1>1 DEF AnswersAreAwaited, Waiting, Running, CommandTypeOK
<1>9. \A d \in Client : ParentIsThere(d)'
  <2> TAKE d \in Client
  <2>1. answer'[d].status = "OK" => answer[d].status = "OK"
    BY <1>1 DEF Unavailable
  <2> QED
    BY <1>1, <1>3, <2>1, ParentStays
<1>10. \A h \in Handler : ReadIsThere(h)'
  BY <1>3 DEF ReadIsThere
<1> QED
  BY <1>2, <1>6, <1>7, <1>8, <1>9, <1>10

LEMMA ServeInv ==
  ASSUME CommandInv, NEW h \in Handler, Serve(h)
  PROVE  CommandInv'
<1> USE DEF CommandInv, CTypeOK
<1>1. Handle(h) /\ UNCHANGED <<task, state, call, lost>>
  BY DEF Serve
<1>2. TypeOK'
  BY <1>1, TypeNext DEF Next
<1>3. /\ pc[h] # "idle"
      /\ pc'[h] = "idle" \/ req'[h] = req[h]
      /\ \A g \in Handler \ {h} : pc'[g] = pc[g] /\ req'[g] = req[g]
  BY <1>1, HandleMoves
<1>4. \A i \in Id : idChirp[i] # Absent => idChirp'[i] # Absent
  BY <1>1, ChirpsStay
<1>5. /\ pc'[h] \in {"ReadRoot", "ReadLoop"} => idChirp[req[h].chirp_id] # Absent
      /\ req[h].op = "read" /\ pc'[h] = "idle" /\ status'[h] = "OK" =>
           idChirp[req[h].chirp_id] # Absent
  BY <1>1, ReadStep
<1>6. \A g \in Handler : ReadIsThere(g)'
  <2> TAKE g \in Handler
  <2>1. CASE g = h
    <3>1. pc'[h] \in {"ReadRoot", "ReadLoop"} => req'[h] = req[h] /\ req'[h].chirp_id \in Id
      BY <1>2, <1>3 DEF TypeOK, LocalsOK, ReadSteps, ReadRequest
    <3> QED
      BY <1>4, <1>5, <2>1, <3>1 DEF ReadIsThere
  <2>2. CASE g # h
    BY <1>3, <1>4, <2>2, ReadStays
  <2> QED
    BY <2>1, <2>2
<1>7. CASE pc'[h] # "idle" /\ UNCHANGED <<from, answer>>
  <2>1. CommandTypeOK' /\ AnswersAreAwaited'
    BY <1>1, <1>7 DEF CommandTypeOK, AnswersAreAwaited, Running
  <2>2. \A g \in Handler : Serves(g)'
    BY <1>1, <1>3, <1>7 DEF Serves, Waiting, Running, At
  <2>3. \A d \in Client : ParentIsThere(d)'
    BY <1>1, <1>4, <1>7, ParentStays
  <2> QED
    BY <1>2, <1>6, <2>1, <2>2, <2>3
<1>8. CASE /\ pc'[h] = "idle"
           /\ from' = [from EXCEPT ![h] = Nobody]
           /\ answer' = [c \in Client |->
                            IF c = from[h] THEN [status |-> status'[h], chirps |-> Message(h)]
                            ELSE answer[c]]
  <2>1. status'[h] \in {"none", "OK", "ALREADY_EXISTS", "NOT_FOUND", "UNAVAILABLE"}
    BY <1>2 DEF TypeOK, HandlerTypeOK
  <2>2. Message(h) \in Seq(Id \cup {NoId})
    <3>1. cid[h] \in Id \cup {NoId} /\ thread[h] \in Seq(Id \cup {NoId})
      BY DEF TypeOK, HandlerTypeOK
    <3>2. <<>> \in Seq(Id \cup {NoId}) /\ <<cid[h]>> \in Seq(Id \cup {NoId})
      BY <3>1
    <3> QED
      BY <3>1, <3>2, Zenon DEF Message
  <2>3. CommandTypeOK'
    BY <1>1, <1>8, <2>1, <2>2 DEF CommandTypeOK
  <2>4. \A g \in Handler : Serves(g)'
    <3> TAKE g \in Handler
    <3>1. CASE g = h
      BY <1>8, <3>1 DEF Serves, CommandTypeOK
    <3>2. CASE g # h
      <4>1. from'[g] = from[g] /\ pc'[g] = pc[g] /\ req'[g] = req[g]
        BY <1>3, <1>8, <3>2 DEF CommandTypeOK
      <4>2. SUFFICES ASSUME from[g] # Nobody PROVE Serves(g)'
        BY <4>1 DEF Serves
      <4>3. from[g] \in Client /\ from[h] # from[g]
        BY <3>2, <4>2 DEF Serves, CommandTypeOK
      <4>4. answer'[from[g]] = answer[from[g]]
        BY <1>8, <4>3
      <4>5. \A f \in Handler : from'[f] = from[g] => f = g
        BY <1>8, <4>2 DEF Serves, CommandTypeOK
      <4> QED
        BY <1>1, <4>1, <4>2, <4>4, <4>5 DEF Serves, Waiting, Running, At
    <3> QED
      BY <3>1, <3>2
  <2>5. AnswersAreAwaited'
    BY <1>1, <1>8, CommandAssumption DEF AnswersAreAwaited, Serves, Waiting, Running, CommandTypeOK
  <2>6. \A d \in Client : ParentIsThere(d)'
    <3> TAKE d \in Client
    <3>1. CASE d = from[h]
      <4>1. call'[d] = call[d] /\ task'[d] = task[d] /\ req[h] = call[d]
        BY <1>1, <3>1, CommandAssumption DEF Serves
      <4>2. answer'[d].status = status'[h]
        BY <1>8, <3>1
      <4>3. call[d] \in Request \cup {NoRequest}
        BY DEF CommandTypeOK
      <4>4. call[d].op = "read" => call[d].chirp_id \in Id
        BY <4>3 DEF Request, RegisterRequest, ChirpRequest, FollowRequest, ReadRequest, NoRequest
      <4>5. call[d].op = "chirp" /\ call[d].parent_id # NoParent => call[d].parent_id \in Id
        BY <4>3 DEF Request, RegisterRequest, ChirpRequest, FollowRequest, ReadRequest, NoRequest
      <4> QED
        BY <1>4, <1>5, <1>8, <4>1, <4>2, <4>4, <4>5 DEF ParentIsThere
    <3>2. CASE d # from[h]
      BY <1>1, <1>4, <1>8, <3>2, ParentStays
    <3> QED
      BY <3>1, <3>2
  <2> QED
    BY <1>2, <1>6, <2>3, <2>4, <2>5, <2>6
<1> QED
  BY <1>7, <1>8 DEF Serve

LEMMA CommandInit == CInit => CommandInv
<1> SUFFICES ASSUME CInit PROVE CommandInv
  OBVIOUS
<1>1. TypeOK
  BY TypeInit DEF CInit
<1>2. NoAnswer \in [status : {"none"}, chirps : Seq(Id \cup {NoId})]
  BY DEF NoAnswer
<1>3. CommandTypeOK
  BY <1>2, LostAssumption DEF CInit, CommandTypeOK
<1>4. \A h \in Handler : Serves(h) /\ ReadIsThere(h)
  BY DEF CInit, Init, Serves, ReadIsThere
<1>5. AnswersAreAwaited /\ \A c \in Client : ParentIsThere(c)
  BY DEF CInit, AnswersAreAwaited, ParentIsThere, NoRequest
<1> QED
  BY <1>1, <1>3, <1>4, <1>5 DEF CommandInv, CTypeOK

\* No step of a command, of the service, of its other clients or of the connections
\* breaks the invariant.
LEMMA CommandNext == CommandInv /\ [CNext]_cvars => CommandInv'
<1> SUFFICES ASSUME CommandInv, [CNext]_cvars PROVE CommandInv'
  OBVIOUS
<1>1. CASE UNCHANGED cvars
  <2>1. UNCHANGED vars /\ UNCHANGED <<from, task, state, call, answer, lost>>
    BY <1>1 DEF cvars, commands, process
  <2>2. TypeOK' /\ (\A h \in Handler : ReadIsThere(h)') /\ UNCHANGED <<idChirp, pc, req>>
    BY <2>1, ServiceStays
  <2>3. CommandTypeOK' /\ (\A h \in Handler : Serves(h)')
    BY <2>1, <2>2 DEF CommandInv, CTypeOK, CommandTypeOK, Serves, Waiting, Running, At
  <2>4. AnswersAreAwaited' /\ (\A c \in Client : ParentIsThere(c)')
    BY <2>1, <2>2 DEF CommandInv, AnswersAreAwaited, Running, ParentIsThere
  <2> QED
    BY <2>2, <2>3, <2>4 DEF CommandInv, CTypeOK
<1>2. CASE CNext
  BY <1>2, StartInv, CallInv, PostReplyInv, ExitInv, LoseInv, ServeInv, OthersInv,
     ServiceRestartInv DEF CNext, CommandStep
<1> QED
  BY <1>1, <1>2

\* Whatever commands and other clients ask for, whenever a connection breaks or the
\* service dies: types are kept, and no handler serves a command that does not wait
\* for it, or that waits for another.
THEOREM CommandTypeCorrect == CSpec => []CTypeOK
<1>1. CommandInv => CTypeOK
  BY DEF CommandInv
<1> QED
  BY <1>1, CommandInit, CommandNext, PTL DEF CSpec

\* Whoever replies with the command replies to a chirp that is in the store: what the
\* read has found is still there at every step of the chirp, however many requests
\* run in between, and whichever RPC is lost (command.cc:52-62).
THEOREM RepliesHaveParents == CSpec => []ReplyHasParent
<1>1. ASSUME CommandInv PROVE ReplyHasParent
  <2> SUFFICES ASSUME NEW h \in Handler, from[h] # Nobody, req[h].op = "chirp",
                      req[h].parent_id # NoParent
               PROVE  idChirp[req[h].parent_id] # Absent
    BY DEF ReplyHasParent
  <2>1. from[h] \in Client /\ req[h] = call[from[h]]
    BY <1>1 DEF CommandInv, CTypeOK, CommandTypeOK, Serves
  <2> QED
    BY <1>1, <2>1 DEF CommandInv, ParentIsThere
<1> QED
  BY <1>1, CommandInit, CommandNext, PTL DEF CSpec

-----------------------------------------------------------------------------
(* What a command reports.                                                  *)

\* What came back with the status it came with has happened, and stays so.
Reported(c) ==
  LET is(op) == call[c].op = op
      ok     == answer[c].status = "OK"
      list   == answer[c].chirps
  IN  /\ is("chirp") => task[c] = call[c]
      /\ is("register") /\ answer[c].status \in {"OK", "ALREADY_EXISTS"} =>
           userId[call[c].username] # Absent
      /\ is("register") /\ ok => userFollowed[call[c].username] # Absent
      /\ is("chirp") /\ ok =>
           \E i \in Id : /\ list = <<i>> /\ idReply[i] # Absent
                         /\ idChirp[i] = [username |-> call[c].username,
                                          parent_id |-> call[c].parent_id]
      /\ is("read") /\ ok /\ faults = 0 =>
           /\ list # <<>> /\ list[1] = call[c].chirp_id
           /\ \A n \in DOMAIN list : list[n] \in Id /\ idChirp[list[n]] # Absent

\* What the service guarantees to all its clients, and what a command makes of it.
ReportInv == ServiceInv /\ \A c \in Client : Reported(c)

\* What the store has, it keeps: nothing that is in it is taken out, and no chirp
\* is overwritten.
StoreKeeps ==
  /\ \A u \in User : /\ userId[u] # Absent => userId'[u] # Absent
                     /\ userFollowed[u] # Absent => userFollowed'[u] # Absent
  /\ \A i \in Id : /\ idChirp[i] # Absent => idChirp'[i] = idChirp[i]
                   /\ idReply[i] # Absent => idReply'[i] # Absent
  /\ faults' = 0 => faults = 0

\* The store keeps what it has in each step of a handler.
LEMMA ServiceKeeps ==
  ASSUME TypeOK, ServiceInv, NEW h \in Handler, Handle(h)
  PROVE  StoreKeeps
BY UsersStay, ThreadsStay, FaultsGrow DEF ServiceInv, StoreKeeps

\* The request of a command is taken up like any other.
LEMMA ServiceReceive ==
  ASSUME TypeOK, TypeOK', ServiceInv, NEW h \in Handler, NEW r, NEW l, Receive(h, r, l),
         l \in {"RegisterHas", "ChirpHas", "FollowHas", "ReadHas"}
  PROVE  ServiceInv'
<1>1. /\ pc'[h] = l
      /\ \A g \in Handler \ {h} : Still(g)
      /\ UNCHANGED <<userId, userFollowed, idChirp, idReply, issued>>
  BY ReceiveStill
<1>2. FollowInv'
  BY <1>1, FollowQuiet DEF ServiceInv, GuardedSteps, FollowSteps, Still
<1>3. ChirpInv'
  BY <1>1, ChirpQuiet DEF ServiceInv, ChirpIdSteps
<1>4. TreeInv'
  BY TreeReceive DEF ServiceInv
<1> QED
  BY <1>2, <1>3, <1>4 DEF ServiceInv

\* What a command has been told stays true while it has the answer.
LEMMA ReportedStays ==
  ASSUME CommandTypeOK, NEW c \in Client, Reported(c), StoreKeeps,
         call'[c] = call[c], task'[c] = task[c],
         answer'[c] = answer[c] \/ answer'[c].status \in {"none", "UNAVAILABLE"}
  PROVE  Reported(c)'
<1>1. call[c] \in Request \cup {NoRequest}
  BY DEF CommandTypeOK
<1>2. call[c].op = "register" => call[c].username \in User
  BY <1>1 DEF Request, RegisterRequest, ChirpRequest, FollowRequest, ReadRequest, NoRequest
<1>3. \A i \in Id : idChirp[i] = [username |-> call[c].username, parent_id |-> call[c].parent_id]
                      /\ call[c].op = "chirp" => idChirp[i] # Absent
  <2>1. call[c].op = "chirp" =>
          [username |-> call[c].username, parent_id |-> call[c].parent_id] \in Chirp
    BY <1>1 DEF Request, RegisterRequest, ChirpRequest, FollowRequest, ReadRequest, NoRequest, Chirp
  <2> QED
    BY <2>1, SentinelAssumption DEF Chirp
<1>4. CASE answer'[c] = answer[c]
  BY <1>2, <1>3, <1>4 DEF Reported, StoreKeeps
<1>5. CASE answer'[c].status \in {"none", "UNAVAILABLE"}
  BY <1>5 DEF Reported
<1> QED
  BY <1>4, <1>5

\* A command that has no answer has nothing to report.
LEMMA NothingReported ==
  ASSUME NEW c \in Client, answer'[c] = NoAnswer,
         call'[c].op = "chirp" => task'[c] = call'[c]
  PROVE  Reported(c)'
BY DEF Reported, NoAnswer

\* A command that asks for a chirp at once has nothing else to do.
LEMMA AskedAtOnce ==
  ASSUME NEW goal, FirstCall(goal).op = "chirp"
  PROVE  FirstCall(goal) = goal
BY DEF FirstCall, ReadRequestMaker

\* What the handler answers is what has happened.
LEMMA AnswerReported ==
  ASSUME TypeOK, TypeOK', CommandTypeOK, ServiceInv, NEW h \in Handler, Handle(h), pc'[h] = "idle",
         NEW c \in Client, req[h] = call[c], call'[c] = call[c], task'[c] = task[c],
         call[c].op = "chirp" => task[c] = call[c],
         answer'[c] = [status |-> status'[h], chirps |-> Message(h)]
  PROVE  Reported(c)'
<1>1. answer'[c].status = status'[h] /\ answer'[c].chirps = Message(h)
  OBVIOUS
<1>2. CASE Register(h)
  <2>1. req[h].op = "register"
    BY <1>2 DEF Register, RegisterHas, RegisterIdHas, RegisterIdPut, RegisterFollowedHas,
       RegisterFollowedPut, At, LocalsOK, RegisterSteps, RegisterRequest, TypeOK
  <2> QED
    BY <1>1, <1>2, <2>1, RegisterAnswer DEF Reported, ServiceInv
<1>3. CASE DoChirp(h)
  <2>1. req[h].op = "chirp"
    BY <1>3 DEF DoChirp, ChirpHas, ChirpIdHas, ChirpIdPut, ChirpUserPut, ChirpParentHas,
       ChirpParentGet, ChirpParentPut, ChirpReplyPut, At, LocalsOK, ChirpIdSteps, ChirpRequest,
       TypeOK
  <2>2. ASSUME status'[h] = "OK"
        PROVE  /\ cid[h] \in Id /\ Message(h) = <<cid[h]>> /\ idReply'[cid[h]] # Absent
               /\ idChirp'[cid[h]] = [username |-> call[c].username,
                                      parent_id |-> call[c].parent_id]
    <3>1. /\ ChirpReplyPut(h) /\ cid[h] \in Id
          /\ idChirp'[cid[h]] = TheChirp(h) /\ idReply'[cid[h]] = <<>>
      BY <1>3, <2>2, ChirpAnswer DEF ServiceInv
    <3>2. pc[h] = "ChirpReplyPut"
      BY <3>1 DEF ChirpReplyPut, At
    <3>3. Message(h) = <<cid[h]>>
      BY <2>2, <3>2, Zenon DEF Message
    <3> QED
      BY <3>1, <3>3, EmptyIsThere DEF TheChirp
  <2> QED
    BY <1>1, <2>1, <2>2 DEF Reported
<1>4. CASE Follow(h)
  <2>1. req[h].op = "follow"
    BY <1>4 DEF Follow, FollowHas, FollowHasTo, FollowGet, FollowPut, At, LocalsOK,
       FollowSteps, FollowRequest, TypeOK
  <2> QED
    BY <2>1 DEF Reported
<1>5. CASE Read(h)
  <2>1. req[h].op = "read"
    BY <1>5 DEF Read, ReadHas, ReadRoot, ReadReplies, ReadChirp, ReadReturn, At, LocalsOK,
       ReadSteps, ReadRequest, TypeOK
  <2>2. ASSUME status'[h] = "OK", faults' = 0
        PROVE  /\ Message(h) = thread[h]
               /\ thread[h] # <<>> /\ thread[h][1] = call[c].chirp_id
               /\ \A n \in DOMAIN thread[h] :
                    thread[h][n] \in Id /\ idChirp'[thread[h][n]] # Absent
    <3>1. faults = 0
      BY <2>2, FaultsGrow
    <3>2. ReadInFlight(h)
      BY DEF ServiceInv, TreeInv
    <3>3. /\ pc[h] = "ReadLoop" /\ UNCHANGED idChirp
          /\ thread[h] # <<>> /\ thread[h][1] = req[h].chirp_id
          /\ \A n \in DOMAIN thread[h] :
               thread[h][n] \in Id /\ idChirp[thread[h][n]] # Absent
      BY <1>5, <2>2, <3>1, <3>2, ReadAnswer
    <3>4. Message(h) = thread[h]
      BY <2>2, <3>3, Zenon DEF Message
    <3> QED
      BY <3>3, <3>4
  <2> QED
    BY <1>1, <2>1, <2>2 DEF Reported
<1> QED
  BY <1>2, <1>3, <1>4, <1>5 DEF Handle

LEMMA ReportNext ==
  ASSUME NoReissue
  PROVE  CommandInv /\ CommandInv' /\ ReportInv /\ [CNext]_cvars => ReportInv'
<1> SUFFICES ASSUME CommandInv, CommandInv', ReportInv, [CNext]_cvars PROVE ReportInv'
  OBVIOUS
<1>1. TypeOK /\ TypeOK' /\ CommandTypeOK /\ ServiceInv
  BY DEF CommandInv, CTypeOK, ReportInv
<1>2. ASSUME UNCHANGED vars PROVE ServiceInv' /\ StoreKeeps
  <2>1. ServiceInv'
    BY <1>1, <1>2, ServiceNext
  <2> QED
    BY <1>2, <2>1 DEF vars, store, StoreKeeps
<1>3. CASE UNCHANGED cvars
  <2>1. UNCHANGED vars /\ UNCHANGED <<task, call, answer>>
    BY <1>3 DEF cvars, commands, process
  <2> QED
    BY <1>1, <1>2, <2>1, ReportedStays DEF ReportInv
<1>4. ASSUME NEW c \in Client, Start(c) PROVE ReportInv'
  <2>1. /\ ~Running(c) /\ UNCHANGED vars /\ UNCHANGED answer
        /\ \E goal : /\ task' = [task EXCEPT ![c] = goal]
                     /\ call' = [call EXCEPT ![c] = FirstCall(goal)]
    BY <1>4 DEF Start
  <2>2. answer'[c] = NoAnswer
    BY <2>1 DEF CommandInv, AnswersAreAwaited
  <2>3. call'[c].op = "chirp" => task'[c] = call'[c]
    BY <1>1, <2>1, AskedAtOnce DEF CommandTypeOK
  <2>4. \A d \in Client \ {c} : call'[d] = call[d] /\ task'[d] = task[d] /\ answer'[d] = answer[d]
    BY <1>1, <2>1 DEF CommandTypeOK
  <2> QED
    BY <1>1, <1>2, <2>1, <2>2, <2>3, <2>4, NothingReported, ReportedStays DEF ReportInv
<1>5. ASSUME NEW c \in Client, Call(c) PROVE ReportInv'
  <2>1. PICK h \in Handler : Receive(h, call[c], FirstStep(call[c]))
    BY <1>5 DEF Call
  <2>2. UNCHANGED <<task, call, answer>>
    BY <1>5 DEF Call
  <2>3. FirstStep(call[c]) \in {"RegisterHas", "ChirpHas", "FollowHas", "ReadHas"}
    <3>1. call[c].op \in {"register", "chirp", "follow", "read"}
      BY <2>1, OpsAssumption DEF Receive
    <3> QED
      BY <3>1, Zenon DEF FirstStep
  <2>4. ServiceInv'
    BY <1>1, <2>1, <2>3, ServiceReceive
  <2>5. StoreKeeps
    BY <1>1, <2>1, ReceiveStill DEF StoreKeeps
  <2> QED
    BY <1>1, <2>2, <2>4, <2>5, ReportedStays DEF ReportInv
<1>6. ASSUME NEW c \in Client, PostReply(c) PROVE ReportInv'
  <2>1. /\ UNCHANGED vars /\ UNCHANGED task
        /\ call' = [call EXCEPT ![c] = task[c]]
        /\ answer' = [answer EXCEPT ![c] = NoAnswer]
    BY <1>6 DEF PostReply
  <2>2. answer'[c] = NoAnswer /\ task'[c] = call'[c]
    BY <1>1, <2>1 DEF CommandTypeOK
  <2>3. \A d \in Client \ {c} : call'[d] = call[d] /\ task'[d] = task[d] /\ answer'[d] = answer[d]
    BY <1>1, <2>1 DEF CommandTypeOK
  <2> QED
    BY <1>1, <1>2, <2>1, <2>2, <2>3, NothingReported, ReportedStays DEF ReportInv
<1>7. ASSUME NEW c \in Client, Exit(c) PROVE ReportInv'
  <2>1. /\ UNCHANGED vars
        /\ task' = [task EXCEPT ![c] = NoRequest]
        /\ call' = [call EXCEPT ![c] = NoRequest]
        /\ answer' = [answer EXCEPT ![c] = NoAnswer]
    BY <1>7 DEF Exit
  <2>2. answer'[c] = NoAnswer /\ task'[c] = call'[c]
    BY <1>1, <2>1 DEF CommandTypeOK
  <2>3. \A d \in Client \ {c} : call'[d] = call[d] /\ task'[d] = task[d] /\ answer'[d] = answer[d]
    BY <1>1, <2>1 DEF CommandTypeOK
  <2> QED
    BY <1>1, <1>2, <2>1, <2>2, <2>3, NothingReported, ReportedStays DEF ReportInv
<1>8. ASSUME NEW c \in Client, Lose(c) PROVE ReportInv'
  <2>1. /\ UNCHANGED vars /\ UNCHANGED <<task, call>>
        /\ answer' = [answer EXCEPT ![c] = Unavailable]
    BY <1>8 DEF Lose
  <2>2. \A d \in Client : answer'[d] = answer[d] \/ answer'[d].status \in {"none", "UNAVAILABLE"}
    BY <1>1, <2>1 DEF CommandTypeOK, Unavailable
  <2> QED
    BY <1>1, <1>2, <2>1, <2>2, ReportedStays DEF ReportInv
<1>9. ASSUME NEW h \in Handler, Serve(h) PROVE ReportInv'
  <2>1. Handle(h) /\ UNCHANGED <<task, call>>
    BY <1>9 DEF Serve
  <2>2. ServiceInv' /\ StoreKeeps
    BY <1>1, <2>1, ServiceNext, ServiceKeeps DEF Next
  <2>3. CASE UNCHANGED answer
    BY <1>1, <2>1, <2>2, <2>3, ReportedStays DEF ReportInv
  <2>4. CASE /\ pc'[h] = "idle"
             /\ answer' = [c \in Client |->
                              IF c = from[h] THEN [status |-> status'[h], chirps |-> Message(h)]
                              ELSE answer[c]]
    <3>1. ASSUME NEW c \in Client, c = from[h] PROVE Reported(c)'
      <4>1. req[h] = call[c]
        BY <3>1, CommandAssumption DEF CommandInv, CTypeOK, Serves
      <4>2. call[c].op = "chirp" => task[c] = call[c]
        BY DEF ReportInv, Reported
      <4>3. answer'[c] = [status |-> status'[h], chirps |-> Message(h)]
        BY <2>4, <3>1
      <4> QED
        BY <1>1, <2>1, <2>4, <4>1, <4>2, <4>3, AnswerReported
    <3>2. ASSUME NEW c \in Client, c # from[h] PROVE Reported(c)'
      BY <1>1, <2>1, <2>2, <2>4, <3>2, ReportedStays DEF ReportInv
    <3> QED
      BY <2>2, <3>1, <3>2 DEF ReportInv
  <2> QED
    BY <1>9, <2>3, <2>4 DEF Serve
<1>10. ASSUME NEW h \in Handler, Others(h) PROVE ReportInv'
  <2>1. Arrive(h) /\ UNCHANGED <<task, call, answer>>
    BY <1>10 DEF Others, commands, process
  <2>2. ServiceInv'
    BY <1>1, <2>1, ServiceNext DEF Next
  <2>3. StoreKeeps
    BY <1>1, <2>1, ReceiveStill
       DEF StoreKeeps, Arrive, ReceiveRegister, ReceiveChirp, ReceiveFollow, ReceiveRead
  <2> QED
    BY <1>1, <2>1, <2>2, <2>3, ReportedStays DEF ReportInv
<1>11. CASE ServiceRestart
  <2>1. /\ Restart /\ UNCHANGED <<task, call>>
        /\ answer' = [c \in Client |-> IF Waiting(c) /\ state[c] = "wait" THEN Unavailable
                                      ELSE answer[c]]
    BY <1>11 DEF ServiceRestart
  <2>2. ServiceInv'
    BY <1>1, <2>1, ServiceNext DEF Next
  <2>3. StoreKeeps
    BY <2>1 DEF Restart, store, StoreKeeps
  <2>4. \A d \in Client : answer'[d] = answer[d] \/ answer'[d].status \in {"none", "UNAVAILABLE"}
    BY <2>1 DEF Unavailable
  <2> QED
    BY <1>1, <2>1, <2>2, <2>3, <2>4, ReportedStays DEF ReportInv
<1> QED
  BY <1>3, <1>4, <1>5, <1>6, <1>7, <1>8, <1>9, <1>10, <1>11 DEF CNext, CommandStep

LEMMA ReportInit == CInit => ReportInv
<1> SUFFICES ASSUME CInit PROVE ReportInv
  OBVIOUS
<1>1. ServiceInv
  BY FollowInit, ChirpInit, TreeInit DEF CInit, ServiceInv
<1>2. \A c \in Client : Reported(c)
  BY DEF CInit, Reported, NoAnswer, NoRequest
<1> QED
  BY <1>1, <1>2 DEF ReportInv

\* What a command prints has happened, and can still be seen in the store when it is
\* printed (command.cc:30-96), however many requests run in between.  Connections may
\* break, the service may die, and RPCs to the store may fail, as long as ids are not
\* handed out again.
THEOREM ReportsCorrect ==
  ASSUME NoReissue
  PROVE  CSpec => []ReportedIsDone
<1>1. CInit => CommandInv /\ ReportInv
  BY CommandInit, ReportInit
<1>2. CommandInv /\ ReportInv /\ [CNext]_cvars => (CommandInv /\ ReportInv)'
  BY CommandNext, ReportNext
<1>3. ASSUME CommandInv, ReportInv PROVE ReportedIsDone
  <2> SUFFICES ASSUME NEW c \in Client
               PROVE  LET Ok(op) == call[c].op = op /\ answer[c].status = "OK"
                          shown  == Printed(c)
                      IN  /\ /\ call[c].op = "register"
                             /\ answer[c].status \in {"OK", "ALREADY_EXISTS"}
                             => userId[call[c].username] # Absent
                          /\ Ok("register") => userFollowed[call[c].username] # Absent
                          /\ answer[c] # NoAnswer /\ call[c].op = "chirp" /\ shown # <<NoId>> =>
                               /\ Len(shown) = 1 /\ shown[1] \in Id
                               /\ idChirp[shown[1]] = [username |-> call[c].username,
                                                       parent_id |-> call[c].parent_id]
                               /\ idReply[shown[1]] # Absent
                          /\ Ok("read") /\ ~ParentFound(c) /\ faults = 0 =>
                               /\ shown[1] = call[c].chirp_id
                               /\ \A n \in DOMAIN shown : idChirp[shown[n]] # Absent
    BY DEF ReportedIsDone
  <2>1. Reported(c)
    BY <1>3 DEF ReportInv
  <2>2. ASSUME call[c].op = "chirp", Printed(c) # <<NoId>>
        PROVE  answer[c].status = "OK" /\ Printed(c) = answer[c].chirps
    BY <2>1, <2>2 DEF Reported, Printed, Posts
  <2>3. ASSUME call[c].op = "read", answer[c].status = "OK", ~ParentFound(c)
        PROVE  Printed(c) = answer[c].chirps
    BY <2>3 DEF Printed, ParentFound, Posts
  <2>4. /\ call[c].op = "register"
        /\ answer[c].status \in {"OK", "ALREADY_EXISTS"}
        => userId[call[c].username] # Absent
    BY <2>1 DEF Reported
  <2>5. call[c].op = "register" /\ answer[c].status = "OK"
        => userFollowed[call[c].username] # Absent
    BY <2>1 DEF Reported
  <2>6. ASSUME answer[c] # NoAnswer, call[c].op = "chirp", Printed(c) # <<NoId>>
        PROVE  /\ Len(Printed(c)) = 1 /\ Printed(c)[1] \in Id
               /\ idChirp[Printed(c)[1]] = [username |-> call[c].username,
                                            parent_id |-> call[c].parent_id]
               /\ idReply[Printed(c)[1]] # Absent
    <3>1. PICK i \in Id : /\ answer[c].chirps = <<i>>
                          /\ idChirp[i] = [username |-> call[c].username,
                                           parent_id |-> call[c].parent_id]
                          /\ idReply[i] # Absent
      BY <2>1, <2>2, <2>6 DEF Reported
    <3>2. Printed(c) = <<i>>
      BY <2>2, <2>6, <3>1
    <3>3. Len(Printed(c)) = 1 /\ Printed(c)[1] = i
      BY <3>2
    <3> QED
      BY <3>1, <3>3
  <2>7. ASSUME call[c].op = "read", answer[c].status = "OK", ~ParentFound(c), faults = 0
        PROVE  /\ Printed(c)[1] = call[c].chirp_id
               /\ \A n \in DOMAIN Printed(c) : idChirp[Printed(c)[n]] # Absent
    BY <2>1, <2>3, <2>7 DEF Reported
  <2> QED
    BY <2>4, <2>5, <2>6, <2>7
<1> QED
  BY <1>1, <1>2, <1>3, PTL DEF CSpec
=============================================================================
